-------------------------- MODULE TokenStoreProofs --------------------------
(***************************************************************************)
(* Proofs about TokenStore, for any sets of DIDs, tokens, applications and *)
(* goroutines and any cap.                                                 *)
(***************************************************************************)
EXTENDS TokenStore, FiniteSetTheorems, TLAPS

\* The types are kept by every statement of RegisterToken and UnregisterToken,
\* by foreign commits and by a restart: the step case of TypeCorrect.
LEMMA TypeStep == TypeOK /\ [Next]_vars => TypeOK'
<1> SUFFICES ASSUME TypeOK, [Next]_vars PROVE TypeOK'
  OBVIOUS
<1> USE DEF TypeOK, Registering, Unregistering, Readers
<1>0. NoReq \notin Req
  BY NoneAssumption DEF NoReq, Req
<1>1. ASSUME NEW p \in Procs, NEW r \in Req, RegisterRequest(p, r) PROVE TypeOK'
  BY <1>0, <1>1 DEF RegisterRequest, Begin, Req
<1>2. ASSUME NEW p \in Procs, NEW r \in Req, UnregisterRequest(p, r) PROVE TypeOK'
  BY <1>0, <1>2 DEF UnregisterRequest, Begin, Req
<1>3. ASSUME NEW p \in Procs, CountExisting(p) PROVE TypeOK'
  BY <1>3 DEF CountExisting, Return
<1>4. ASSUME NEW p \in Procs, InsertRow(p) PROVE TypeOK'
  BY <1>4 DEF InsertRow
<1>5. ASSUME NEW p \in Procs, CommitInsert(p) PROVE TypeOK'
  <2>1. req[p] \in Req
    BY <1>5 DEF CommitInsert
  <2>2. rows' \in [DIDs -> [Tokens -> Apps \cup {None}]]
    BY <1>5, <2>1 DEF CommitInsert, Req
  <2> QED
    BY <1>5, <2>2 DEF CommitInsert
<1>6. ASSUME NEW p \in Procs, RememberDID(p) PROVE TypeOK'
  BY <1>6 DEF RememberDID, Return, Req
<1>7. ASSUME NEW p \in Procs, StoreError(p) PROVE TypeOK'
  BY <1>7 DEF StoreError, Return
<1>8. ASSUME NEW p \in Procs, DeleteRow(p) PROVE TypeOK'
  <2>1. req[p] \in Req
    BY <1>8 DEF DeleteRow
  <2>2. rows' \in [DIDs -> [Tokens -> Apps \cup {None}]]
    <3>1. CASE rows' = [rows EXCEPT ![req[p].did][req[p].token] = None]
      BY <2>1, <3>1 DEF Req
    <3>2. CASE rows' = rows
      BY <3>2
    <3> QED
      BY <1>8, <3>1, <3>2 DEF DeleteRow
  <2> QED
    BY <1>8, <2>2 DEF DeleteRow
<1>9. ASSUME NEW p \in Procs, Recount(p) PROVE TypeOK'
  BY <1>9 DEF Recount, Return
<1>10. ASSUME NEW p \in Procs, RecountFails(p) PROVE TypeOK'
  BY <1>10 DEF RecountFails, Req
<1>11. ASSUME NEW p \in Procs, ForgetDID(p) PROVE TypeOK'
  BY <1>11 DEF ForgetDID, Return
<1>12. CASE ForeignCommit
  BY <1>12 DEF ForeignCommit
<1>13. CASE Restart
  BY <1>13 DEF Restart
<1>14. CASE UNCHANGED vars
  BY <1>14 DEF vars
<1> QED
  BY <1>1, <1>2, <1>3, <1>4, <1>5, <1>6, <1>7, <1>8, <1>9, <1>10, <1>11,
     <1>12, <1>13, <1>14 DEF Next, Step

\* Every state the store reaches is well typed, and a goroutine outside the
\* store holds neither a request nor a transaction.
THEOREM TypeCorrect == Spec => []TypeOK
<1>1. Init => TypeOK
  BY DEF Init, TypeOK, Registering, Unregistering, Readers
<1> QED
  BY <1>1, TypeStep, PTL DEF Spec

-----------------------------------------------------------------------------
\* What the INSERT OR REPLACE of one row does to the tokens of every DID.
LEMMA SetRow ==
    ASSUME rows \in [DIDs -> [Tokens -> Apps \cup {None}]],
           NEW d \in DIDs, NEW t \in Tokens, NEW a \in Apps,
           rows' = [rows EXCEPT ![d][t] = a]
    PROVE  /\ TokensOf(d)' = TokensOf(d) \cup {t}
           /\ \A e \in DIDs \ {d} : TokensOf(e)' = TokensOf(e)
  BY NoneAssumption DEF TokensOf

\* What the DELETE of one row does to the tokens of every DID.
LEMMA ClearRow ==
    ASSUME rows \in [DIDs -> [Tokens -> Apps \cup {None}]],
           NEW d \in DIDs, NEW t \in Tokens,
           rows' = [rows EXCEPT ![d][t] = None]
    PROVE  /\ TokensOf(d)' = TokensOf(d) \ {t}
           /\ \A e \in DIDs \ {d} : TokensOf(e)' = TokensOf(e)
  BY DEF TokensOf

\* The cap together with what open transactions know about the table.
CapInv == TypeOK /\ CapRespected /\ SnapshotInv

\* One statement of the store keeps the cap and the snapshots' counts: the step
\* case of CapKept.  The commit of an insert is the only step that adds a row.
LEMMA CapStep == CapInv /\ [Next]_vars => CapInv'
<1> SUFFICES ASSUME CapInv, [Next]_vars PROVE CapInv'
  OBVIOUS
<1>t. TypeOK /\ TypeOK'
  BY TypeStep DEF CapInv
<1>c. CapRespected /\ SnapshotInv
  BY DEF CapInv
<1> SUFFICES CapRespected' /\ SnapshotInv'
  BY <1>t DEF CapInv
<1>u. ASSUME UNCHANGED rows,
             \A q \in Procs : pc'[q] \in {"insert", "commit"} /\ q \notin stale' =>
                 /\ pc[q] \in {"insert", "commit"} /\ q \notin stale
                 /\ req'[q] = req[q],
             \A q \in Procs : pc'[q] = "commit" => pc[q] = "commit"
      PROVE  CapRespected' /\ SnapshotInv'
  BY <1>c, <1>u DEF CapRespected, SnapshotInv, TokensOf
<1>1. ASSUME NEW p \in Procs, NEW r \in Req,
             RegisterRequest(p, r) \/ UnregisterRequest(p, r)
      PROVE  CapRespected' /\ SnapshotInv'
  BY <1>1, <1>t, <1>u DEF RegisterRequest, UnregisterRequest, Begin, TypeOK
<1>2. ASSUME NEW p \in Procs, CountExisting(p) PROVE CapRespected' /\ SnapshotInv'
  <2>1. CASE pc' = [pc EXCEPT ![p] = "idle"] /\ stale' = stale \ {p}
               /\ req' = [req EXCEPT ![p] = NoReq]
    BY <1>2, <1>t, <1>u, <2>1 DEF CountExisting, TypeOK
  <2>2. CASE /\ Cardinality(TokensOf(req[p].did) \ {req[p].token}) < MaxTokensPerDID
             /\ pc' = [pc EXCEPT ![p] = "insert"]
             /\ UNCHANGED <<req, stale>>
    <3>1. CapRespected'
      BY <1>2, <1>c DEF CountExisting, CapRespected, TokensOf
    <3>2. \A q \in Procs : TokensOf(req[q].did)' = TokensOf(req[q].did)
      BY <1>2, <2>2 DEF CountExisting, TokensOf
    <3>3. SnapshotInv'
      BY <1>2, <1>t, <1>c, <2>2, <3>2 DEF CountExisting, TypeOK, SnapshotInv
    <3> QED
      BY <3>1, <3>3
  <2> QED
    BY <1>2, <2>1, <2>2 DEF CountExisting, Return
<1>3. ASSUME NEW p \in Procs, InsertRow(p) PROVE CapRespected' /\ SnapshotInv'
  BY <1>3, <1>t, <1>c DEF InsertRow, NoWriter, TypeOK, CapRespected, SnapshotInv, TokensOf
<1>4. ASSUME NEW p \in Procs, CommitInsert(p) PROVE CapRespected' /\ SnapshotInv'
  <2>1. PICK d \in DIDs, t \in Tokens, a \in Apps :
            req[p].did = d /\ req[p].token = t /\ req[p].app = a
    BY <1>4, <1>t DEF CommitInsert, TypeOK, Req
  <2>2. TokensOf(d)' = TokensOf(d) \cup {t} /\ \A e \in DIDs \ {d} : TokensOf(e)' = TokensOf(e)
    BY <1>4, <1>t, <2>1, SetRow DEF CommitInsert, TypeOK
  <2>3. p \notin stale
    BY <1>4, <1>t DEF CommitInsert, TypeOK, Readers
  <2>4. Cardinality(TokensOf(d) \ {t}) < MaxTokensPerDID
    BY <1>4, <1>c, <2>1, <2>3 DEF CommitInsert, SnapshotInv
  <2>5. IsFiniteSet(TokensOf(d) \ {t}) /\ Cardinality(TokensOf(d) \ {t}) \in Nat
    BY <1>c, <2>1, FS_RemoveElement, FS_CardinalityType DEF CapRespected
  <2>6. /\ IsFiniteSet((TokensOf(d) \ {t}) \cup {t})
        /\ Cardinality((TokensOf(d) \ {t}) \cup {t}) = Cardinality(TokensOf(d) \ {t}) + 1
    BY <2>5, FS_AddElement
  <2>7. TokensOf(d)' = (TokensOf(d) \ {t}) \cup {t}
    BY <2>2
  <2>8. IsFiniteSet(TokensOf(d)') /\ Cardinality(TokensOf(d)') <= MaxTokensPerDID
    BY <2>4, <2>5, <2>6, <2>7, CapAssumption
  <2>9. CapRespected'
    BY <1>c, <2>1, <2>2, <2>8 DEF CapRespected
  <2>10. \A q \in Procs : pc'[q] \in {"insert", "commit"} => q \in stale' /\ pc'[q] # "commit"
    BY <1>4, <1>t, <1>c DEF CommitInsert, SnapshotInv, TypeOK, Readers
  <2> QED
    BY <2>9, <2>10 DEF SnapshotInv
<1>5. ASSUME NEW p \in Procs, RememberDID(p) \/ StoreError(p) \/ Recount(p) \/ ForgetDID(p)
      PROVE  CapRespected' /\ SnapshotInv'
  BY <1>5, <1>t, <1>u DEF RememberDID, StoreError, Recount, ForgetDID, Return, TypeOK
<1>6. ASSUME NEW p \in Procs, DeleteRow(p) PROVE CapRespected' /\ SnapshotInv'
  <2>1. PICK d \in DIDs, t \in Tokens, a \in Apps :
            req[p].did = d /\ req[p].token = t /\ req[p].app = a
    BY <1>6, <1>t DEF DeleteRow, TypeOK, Req
  <2>2. CASE rows' = [rows EXCEPT ![req[p].did][req[p].token] = None]
               /\ stale' = stale \cup Readers
    <3>1. TokensOf(d)' = TokensOf(d) \ {t} /\ \A e \in DIDs \ {d} : TokensOf(e)' = TokensOf(e)
      BY <1>t, <2>1, <2>2, ClearRow DEF TypeOK
    <3>2. IsFiniteSet(TokensOf(d)) /\ Cardinality(TokensOf(d)) <= MaxTokensPerDID
      BY <1>c, <2>1 DEF CapRespected
    <3>3. /\ IsFiniteSet(TokensOf(d) \ {t})
          /\ Cardinality(TokensOf(d) \ {t}) <= Cardinality(TokensOf(d))
      BY <3>2, FS_Subset, TokensOf(d) \ {t} \subseteq TokensOf(d)
    <3>4. Cardinality(TokensOf(d) \ {t}) <= MaxTokensPerDID
      BY <3>2, <3>3, FS_CardinalityType, CapAssumption
    <3>5. CapRespected'
      BY <1>c, <3>1, <3>3, <3>4 DEF CapRespected
    <3>6. \A q \in Procs : pc'[q] \in {"insert", "commit"} => q \in stale' /\ pc'[q] # "commit"
      BY <1>6, <1>t, <2>2 DEF DeleteRow, NoWriter, TypeOK, Readers
    <3> QED
      BY <3>5, <3>6 DEF SnapshotInv
  <2>3. CASE UNCHANGED <<rows, stale>>
    BY <1>6, <1>t, <1>u, <2>3 DEF DeleteRow, TypeOK
  <2> QED
    BY <1>6, <2>2, <2>3 DEF DeleteRow
<1>7. ASSUME NEW p \in Procs, RecountFails(p) PROVE CapRespected' /\ SnapshotInv'
  BY <1>7, <1>t, <1>u DEF RecountFails, TypeOK
<1>8. CASE ForeignCommit
  BY <1>8, <1>t, <1>u DEF ForeignCommit, TypeOK
<1>9. CASE Restart
  BY <1>9, <1>t, <1>u DEF Restart, TypeOK
<1>10. CASE UNCHANGED vars
  BY <1>10, <1>u DEF vars
<1> QED
  BY <1>1, <1>2, <1>3, <1>4, <1>5, <1>6, <1>7, <1>8, <1>9, <1>10 DEF Next, Step

\* Initially no DID has a token and no transaction is open.
LEMMA CapInit == Init => CapInv
<1> SUFFICES ASSUME Init PROVE CapInv
  OBVIOUS
<1>1. TypeOK
  BY DEF Init, TypeOK, Registering, Unregistering, Readers
<1>2. \A d \in DIDs : TokensOf(d) = {}
  BY DEF Init, TokensOf
<1>3. CapRespected
  BY <1>2, FS_EmptySet, CapAssumption DEF CapRespected
<1>4. SnapshotInv
  BY DEF Init, SnapshotInv
<1> QED
  BY <1>1, <1>3, <1>4 DEF CapInv

\* No interleaving of registrations, unregistrations, failures and restarts
\* takes a DID over maxTokensPerDID: the transaction of RegisterToken suffices.
THEOREM CapKept == Spec => []CapRespected
<1>1. CapInv => CapRespected
  BY DEF CapInv
<1> QED
  BY <1>1, CapInit, CapStep, PTL DEF Spec

\* A transaction that is still the newest one never acts on an outdated count.
THEOREM SnapshotsHold == Spec => []SnapshotInv
<1>1. CapInv => SnapshotInv
  BY DEF CapInv
<1> QED
  BY <1>1, CapInit, CapStep, PTL DEF Spec

-----------------------------------------------------------------------------
\* Types and the accounting of the mirror: the inductive invariant of MirrorKept.
MInv == TypeOK /\ MirrorInv

\* One statement of the store keeps the accounting for an undisturbed DID; an
\* overlap of the two calls or a failed recount takes the DID out of it.
LEMMA MirrorStep == MInv /\ [Next]_vars => MInv'
<1> SUFFICES ASSUME MInv, [Next]_vars PROVE MInv'
  OBVIOUS
<1>t. TypeOK /\ TypeOK'
  BY TypeStep DEF MInv
<1> SUFFICES ASSUME NEW d \in DIDs, d \notin disturbed' PROVE MirrorAt(d)'
  BY <1>t DEF MInv, MirrorInv
<1> USE DEF MirrorAt, At, Registering, Unregistering
<1>0. CASE Restart
  BY <1>0 DEF Restart, TokensOf
<1> SUFFICES ASSUME ~Restart PROVE MirrorAt(d)'
  BY <1>0
<1>d. d \notin disturbed
  BY DEF Next, Step, RegisterRequest, UnregisterRequest, Begin, CountExisting, InsertRow,
     CommitInsert, RememberDID, StoreError, DeleteRow, Recount, RecountFails, ForgetDID,
     ForeignCommit, vars
<1>m. MirrorAt(d)
  BY <1>d DEF MInv, MirrorInv
<1>1. ASSUME NEW p \in Procs, NEW r \in Req, RegisterRequest(p, r) PROVE MirrorAt(d)'
  BY <1>1, <1>t, <1>m DEF RegisterRequest, Begin, TypeOK, TokensOf
<1>2. ASSUME NEW p \in Procs, NEW r \in Req, UnregisterRequest(p, r) PROVE MirrorAt(d)'
  BY <1>2, <1>t, <1>m DEF UnregisterRequest, Begin, TypeOK, TokensOf
<1>3. ASSUME NEW p \in Procs, CountExisting(p) PROVE MirrorAt(d)'
  <2>1. UNCHANGED <<rows, registered>>
    BY <1>3 DEF CountExisting
  <2>2. CASE pc' = [pc EXCEPT ![p] = "insert"] /\ UNCHANGED req
    BY <1>3, <1>t, <1>m, <2>1, <2>2 DEF CountExisting, TypeOK, TokensOf
  <2>3. CASE pc' = [pc EXCEPT ![p] = "idle"] /\ req' = [req EXCEPT ![p] = NoReq]
    BY <1>3, <1>t, <1>m, <2>1, <2>3 DEF CountExisting, TypeOK, TokensOf
  <2> QED
    BY <1>3, <2>2, <2>3 DEF CountExisting, Return
<1>4. ASSUME NEW p \in Procs, InsertRow(p) PROVE MirrorAt(d)'
  BY <1>4, <1>t, <1>m DEF InsertRow, TypeOK, TokensOf
<1>5. ASSUME NEW p \in Procs, CommitInsert(p) PROVE MirrorAt(d)'
  <2>1. PICK e \in DIDs, t \in Tokens, a \in Apps :
            req[p].did = e /\ req[p].token = t /\ req[p].app = a
    BY <1>5, <1>t DEF CommitInsert, TypeOK, Req
  <2>2. /\ TokensOf(e)' = TokensOf(e) \cup {t}
        /\ \A f \in DIDs \ {e} : TokensOf(f)' = TokensOf(f)
    BY <1>5, <1>t, <2>1, SetRow DEF CommitInsert, TypeOK
  <2>3. CASE d = e
    BY <1>5, <1>t, <1>m, <2>1, <2>2, <2>3 DEF CommitInsert, TypeOK
  <2>4. CASE d # e
    BY <1>5, <1>t, <1>m, <2>1, <2>2, <2>4 DEF CommitInsert, TypeOK
  <2> QED
    BY <2>3, <2>4
<1>6. ASSUME NEW p \in Procs, RememberDID(p) PROVE MirrorAt(d)'
  BY <1>6, <1>t, <1>m DEF RememberDID, Return, TypeOK, TokensOf
<1>7. ASSUME NEW p \in Procs, StoreError(p) PROVE MirrorAt(d)'
  BY <1>7, <1>t, <1>m DEF StoreError, Return, TypeOK, TokensOf
<1>8. ASSUME NEW p \in Procs, DeleteRow(p) PROVE MirrorAt(d)'
  <2>1. PICK e \in DIDs, t \in Tokens : req[p].did = e /\ req[p].token = t
    BY <1>8, <1>t DEF DeleteRow, TypeOK, Req
  <2>2. \/ /\ TokensOf(e)' = TokensOf(e) \ {t}
           /\ \A f \in DIDs \ {e} : TokensOf(f)' = TokensOf(f)
        \/ \A f \in DIDs : TokensOf(f)' = TokensOf(f)
    <3>1. CASE rows' = [rows EXCEPT ![req[p].did][req[p].token] = None]
      BY <1>t, <2>1, <3>1, ClearRow DEF TypeOK
    <3>2. CASE rows' = rows
      BY <3>2 DEF TokensOf
    <3> QED
      BY <1>8, <3>1, <3>2 DEF DeleteRow
  <2>3. CASE d = e
    BY <1>8, <1>t, <1>m, <2>1, <2>2, <2>3 DEF DeleteRow, TypeOK
  <2>4. CASE d # e
    BY <1>8, <1>t, <1>m, <2>1, <2>2, <2>4 DEF DeleteRow, TypeOK
  <2> QED
    BY <2>3, <2>4
<1>9. ASSUME NEW p \in Procs, Recount(p) PROVE MirrorAt(d)'
  <2>1. UNCHANGED <<rows, registered>> /\ pc[p] = "recount"
    BY <1>9 DEF Recount
  <2>2. CASE /\ TokensOf(req[p].did) = {}
             /\ pc' = [pc EXCEPT ![p] = "forget"] /\ UNCHANGED req
    BY <1>t, <1>m, <2>1, <2>2 DEF TypeOK, TokensOf
  <2>3. CASE /\ TokensOf(req[p].did) # {}
             /\ pc' = [pc EXCEPT ![p] = "idle"] /\ req' = [req EXCEPT ![p] = NoReq]
    <3>1. TokensOf(d)' = TokensOf(d) /\ registered' = registered
      BY <2>1 DEF TokensOf
    <3>2. \A q \in Procs \ {p} : pc'[q] = pc[q] /\ req'[q] = req[q]
      BY <1>t, <2>3 DEF TypeOK
    <3>3. pc'[p] = "idle"
      BY <1>t, <2>3 DEF TypeOK
    <3> QED
      BY <1>m, <2>1, <2>3, <3>1, <3>2, <3>3
  <2> QED
    BY <1>9, <2>2, <2>3 DEF Recount, Return
<1>10. ASSUME NEW p \in Procs, RecountFails(p) PROVE MirrorAt(d)'
  BY <1>10, <1>t, <1>m DEF RecountFails, TypeOK, TokensOf
<1>11. ASSUME NEW p \in Procs, ForgetDID(p) PROVE MirrorAt(d)'
  BY <1>11, <1>t, <1>m DEF ForgetDID, Return, TypeOK, TokensOf
<1>12. CASE ForeignCommit
  BY <1>12, <1>m DEF ForeignCommit, TokensOf
<1>13. CASE UNCHANGED vars
  BY <1>13, <1>m DEF vars, TokensOf
<1> QED
  BY <1>1, <1>2, <1>3, <1>4, <1>5, <1>6, <1>7, <1>8, <1>9, <1>10, <1>11,
     <1>12, <1>13 DEF Next, Step

\* A DID that no overlap and no failed recount disturbed is registered in memory
\* exactly when the table holds a token of it, whenever its calls are over.
THEOREM MirrorKept == Spec => []MirrorExact
<1>1. Init => MInv
  BY DEF Init, MInv, TypeOK, MirrorInv, MirrorAt, At, TokensOf, Registering,
         Unregistering, Readers
<1>2. MInv => MirrorExact
  <2> SUFFICES ASSUME MInv, NEW d \in DIDs \ disturbed,
                      At(d, Registering \cup Unregistering) = {}
               PROVE  d \in registered <=> TokensOf(d) # {}
    BY DEF MirrorExact
  <2>1. MirrorAt(d)
    BY DEF MInv, MirrorInv
  <2> QED
    BY <2>1 DEF MirrorAt, At, Registering, Unregistering
<1> QED
  BY <1>1, <1>2, MirrorStep, PTL DEF Spec

-----------------------------------------------------------------------------
\* Every statement of the store is a registration, an unregistration or no
\* change at all of the abstract registry.
LEMMA RegistryStep == CapInv /\ [Next]_vars => [Registry!Next]_rows
<1> SUFFICES ASSUME CapInv, [Next]_vars PROVE [Registry!Next]_rows
  OBVIOUS
<1>t. TypeOK /\ SnapshotInv
  BY DEF CapInv
<1>1. ASSUME NEW p \in Procs, CommitInsert(p) PROVE Registry!Next
  <2>1. PICK d \in DIDs, t \in Tokens, a \in Apps :
            req[p].did = d /\ req[p].token = t /\ req[p].app = a
    BY <1>1, <1>t DEF CommitInsert, TypeOK, Req
  <2>2. Cardinality(TokensOf(d) \ {t}) < MaxTokensPerDID
    BY <1>1, <1>t, <2>1 DEF CommitInsert, SnapshotInv, TypeOK, Readers
  <2>3. rows' = [rows EXCEPT ![d][t] = a]
    BY <1>1, <2>1 DEF CommitInsert
  <2>4. Registry!TokensOf(d) = TokensOf(d)
    BY DEF TokensOf, Registry!TokensOf
  <2>5. Registry!Cardinality(TokensOf(d) \ {t}) = Cardinality(TokensOf(d) \ {t})
    BY DEF Cardinality, Registry!Cardinality
  <2>6. Registry!Register(d, t, a)
    BY <2>2, <2>3, <2>4, <2>5 DEF Registry!Register
  <2> QED
    BY <2>6 DEF Registry!Next
<1>2. ASSUME NEW p \in Procs, DeleteRow(p) PROVE [Registry!Next]_rows
  <2>1. PICK d \in DIDs, t \in Tokens, a \in Apps :
            req[p].did = d /\ req[p].token = t /\ req[p].app = a
    BY <1>2, <1>t DEF DeleteRow, TypeOK, Req
  <2>2. Registry!Unregister(d, t, a) \/ UNCHANGED rows
    BY <1>2, <2>1 DEF DeleteRow, Registry!Unregister
  <2> QED
    BY <2>2 DEF Registry!Next
<1>3. CASE UNCHANGED rows
  BY <1>3
<1> QED
  BY <1>1, <1>2, <1>3 DEF Next, Step, RegisterRequest, UnregisterRequest, Begin, CountExisting,
     InsertRow, RememberDID, StoreError, Recount, RecountFails, ForgetDID, ForeignCommit,
     Restart, vars

\* RegisterToken and UnregisterToken implement atomic changes of the table, the
\* cap included, whatever interleaves with their statements.
THEOREM ImplementsRegistry == Spec => RegistrySpec
<1>1. Init => Registry!Init
  BY DEF Init, Registry!Init
<1> QED
  BY <1>1, CapInit, CapStep, RegistryStep, PTL DEF Spec, RegistrySpec, Registry!Spec
=============================================================================
