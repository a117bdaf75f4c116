----------------------------- MODULE TokenStore -----------------------------
(***************************************************************************)
(* The device-token half of internal/store: the push_tokens table in       *)
(* SQLite, the in-memory set registeredDIDs that answers IsRegistered, and *)
(* the calls of RegisterToken and UnregisterToken that change both, one    *)
(* action per SQL statement or critical section.  Calls run concurrently:  *)
(* XRPC handlers and the dispatch workers' cleanup of dead tokens share    *)
(* the store.                                                              *)
(*                                                                         *)
(* SQLite (mattn driver, WAL, deferred transactions) is external: a        *)
(* transaction reads from the snapshot of its first SELECT, there is one   *)
(* writer at a time, and a read transaction may become the writer only if  *)
(* nothing was committed since its snapshot (SQLITE_BUSY_SNAPSHOT).  An    *)
(* autocommit statement waits for the writer.                              *)
(***************************************************************************)
EXTENDS Naturals, FiniteSets

CONSTANTS DIDs, Tokens, Apps, MaxTokensPerDID, None,
          Procs,         \* goroutines that may be inside the store
          ReadsMayFail   \* whether the unchecked COUNT of UnregisterToken may fail

ASSUME CapAssumption  == MaxTokensPerDID \in Nat \ {0}
ASSUME NoneAssumption == None \notin Apps
ASSUME FailAssumption == ReadsMayFail \in BOOLEAN

VARIABLES
    rows,        \* push_tokens: rows[d][t] is the app of row (d, t), or None
    registered,  \* registeredDIDs, the in-memory set
    pc,          \* the next statement of each goroutine
    req,         \* the arguments of each goroutine's call
    stale,       \* open transactions whose snapshot is behind the last commit
    disturbed    \* auxiliary: DIDs with overlapping register and unregister
                 \* calls, or with a failed recount, since the store was loaded

vars == <<rows, registered, pc, req, stale, disturbed>>

Req   == [did : DIDs, token : Tokens, app : Apps]
NoReq == [did |-> None, token |-> None, app |-> None]

TokensOf(d) == {t \in Tokens : rows[d][t] # None}

Registering   == {"count", "insert", "commit", "remember"}
Unregistering == {"delete", "recount", "forget"}

\* The goroutines whose call is about d and stands in one of the given steps.
At(d, steps) == {p \in Procs : pc[p] \in steps /\ req[p].did = d}

NoWriter == \A p \in Procs : pc[p] # "commit"

\* Open transactions that a commit leaves with an old snapshot.
Readers == {p \in Procs : pc[p] = "insert"}

-----------------------------------------------------------------------------
Init ==
    /\ rows       = [d \in DIDs |-> [t \in Tokens |-> None]]
    /\ registered = {}
    /\ pc         = [p \in Procs |-> "idle"]
    /\ req        = [p \in Procs |-> NoReq]
    /\ stale      = {}
    /\ disturbed  = {}

\* A call returns to its caller, with or without an error.
Return(p) ==
    /\ pc'    = [pc EXCEPT ![p] = "idle"]
    /\ req'   = [req EXCEPT ![p] = NoReq]
    /\ stale' = stale \ {p}

\* A call starts; it disturbs d when a call of the other kind on d is running.
Begin(p, r, step, others) ==
    /\ pc[p] = "idle"
    /\ pc'        = [pc EXCEPT ![p] = step]
    /\ req'       = [req EXCEPT ![p] = r]
    /\ disturbed' = IF At(r.did, others) = {} THEN disturbed
                                             ELSE disturbed \cup {r.did}
    /\ UNCHANGED <<rows, registered, stale>>

RegisterRequest(p, r)   == Begin(p, r, "count", Unregistering)
UnregisterRequest(p, r) == Begin(p, r, "delete", Registering)

\* SELECT COUNT(*) of the DID's other tokens; the snapshot is taken here.
CountExistingMutLoose(p) ==
    /\ pc[p] = "count"
    /\ \/ /\ Cardinality(TokensOf(req[p].did) \ {req[p].token}) > MaxTokensPerDID
          /\ Return(p)
       \/ /\ Cardinality(TokensOf(req[p].did) \ {req[p].token}) <= MaxTokensPerDID
          /\ pc' = [pc EXCEPT ![p] = "insert"]
          /\ UNCHANGED <<req, stale>>
    /\ UNCHANGED <<rows, registered, disturbed>>
CountExisting(p) ==
    /\ pc[p] = "count"
    /\ \/ /\ Cardinality(TokensOf(req[p].did) \ {req[p].token}) >= MaxTokensPerDID
          /\ Return(p)
       \/ /\ Cardinality(TokensOf(req[p].did) \ {req[p].token}) < MaxTokensPerDID
          /\ pc' = [pc EXCEPT ![p] = "insert"]
          /\ UNCHANGED <<req, stale>>
    /\ UNCHANGED <<rows, registered, disturbed>>

\* INSERT OR REPLACE: the transaction becomes the writer, or fails (StoreError).
InsertRowMutNoTx(p) ==
    /\ pc[p] = "insert"
    /\ NoWriter
    /\ pc' = [pc EXCEPT ![p] = "commit"]
    /\ UNCHANGED <<rows, registered, req, stale, disturbed>>
InsertRow(p) ==
    /\ pc[p] = "insert"
    /\ p \notin stale
    /\ NoWriter
    /\ pc' = [pc EXCEPT ![p] = "commit"]
    /\ UNCHANGED <<rows, registered, req, stale, disturbed>>

\* tx.Commit: the row becomes visible and every other snapshot is now behind.
CommitInsert(p) ==
    /\ pc[p] = "commit"
    /\ rows'  = [rows EXCEPT ![req[p].did][req[p].token] = req[p].app]
    /\ stale' = stale \cup Readers
    /\ pc'    = [pc EXCEPT ![p] = "remember"]
    /\ UNCHANGED <<registered, req, disturbed>>

\* registeredDIDs[actorDID] = true under the lock; RegisterToken returns nil.
RememberDID(p) ==
    /\ pc[p] = "remember"
    /\ registered' = registered \cup {req[p].did}
    /\ Return(p)
    /\ UNCHANGED <<rows, disturbed>>

\* A checked SQL statement fails and the call returns its error (rollback).
StoreErrorMutLeak(p) ==
    /\ pc[p] \in {"count", "insert", "commit", "delete"}
    /\ pc' = [pc EXCEPT ![p] = "idle"]
    /\ UNCHANGED <<rows, registered, req, stale, disturbed>>
StoreError(p) ==
    /\ pc[p] \in {"count", "insert", "commit", "delete"}
    /\ Return(p)
    /\ UNCHANGED <<rows, registered, disturbed>>

\* DELETE of exactly the row that was named; deleting nothing commits nothing.
DeleteRowMutAnyDid(p) ==
    LET r == req[p] IN
    /\ pc[p] = "delete"
    /\ NoWriter
    /\ rows'  = [d \in DIDs |-> [rows[d] EXCEPT ![r.token] = None]]
    /\ stale' = stale \cup Readers
    /\ pc' = [pc EXCEPT ![p] = "recount"]
    /\ UNCHANGED <<registered, req, disturbed>>
DeleteRow(p) ==
    LET r == req[p] IN
    /\ pc[p] = "delete"
    /\ NoWriter
    /\ \/ /\ rows[r.did][r.token] = r.app
          /\ rows'  = [rows EXCEPT ![r.did][r.token] = None]
          /\ stale' = stale \cup Readers
       \/ /\ rows[r.did][r.token] # r.app
          /\ UNCHANGED <<rows, stale>>
    /\ pc' = [pc EXCEPT ![p] = "recount"]
    /\ UNCHANGED <<registered, req, disturbed>>

\* SELECT COUNT(*) of the tokens left: none left means forget the DID.
Recount(p) ==
    /\ pc[p] = "recount"
    /\ \/ /\ TokensOf(req[p].did) = {}
          /\ pc' = [pc EXCEPT ![p] = "forget"]
          /\ UNCHANGED <<req, stale>>
       \/ /\ TokensOf(req[p].did) # {}
          /\ Return(p)
    /\ UNCHANGED <<rows, registered, disturbed>>

\* The COUNT's error is not checked: count keeps its zero value.
RecountFails(p) ==
    /\ ReadsMayFail
    /\ pc[p] = "recount"
    /\ pc'        = [pc EXCEPT ![p] = "forget"]
    /\ disturbed' = disturbed \cup {req[p].did}
    /\ UNCHANGED <<rows, registered, req, stale>>

\* delete(registeredDIDs, actorDID) under the lock; UnregisterToken returns nil.
ForgetDID(p) ==
    /\ pc[p] = "forget"
    /\ registered' = registered \ {req[p].did}
    /\ Return(p)
    /\ UNCHANGED <<rows, disturbed>>

\* Another table is written: the database file has one snapshot for all of them.
ForeignCommit ==
    /\ NoWriter
    /\ Readers \ stale # {}
    /\ stale' = stale \cup Readers
    /\ UNCHANGED <<rows, registered, pc, req, disturbed>>

\* The process ends at any point and New opens the database again.
RestartMutForgetful ==
    /\ registered' = {}
    /\ pc'         = [p \in Procs |-> "idle"]
    /\ req'        = [p \in Procs |-> NoReq]
    /\ stale'      = {}
    /\ disturbed'  = {}
    /\ UNCHANGED rows
Restart ==
    /\ registered' = {d \in DIDs : TokensOf(d) # {}}
    /\ pc'         = [p \in Procs |-> "idle"]
    /\ req'        = [p \in Procs |-> NoReq]
    /\ stale'      = {}
    /\ disturbed'  = {}
    /\ UNCHANGED rows

Step(p) ==
    \/ \E r \in Req : RegisterRequest(p, r) \/ UnregisterRequest(p, r)
    \/ CountExisting(p) \/ InsertRow(p) \/ CommitInsert(p) \/ RememberDID(p)
    \/ StoreError(p)
    \/ DeleteRow(p) \/ Recount(p) \/ RecountFails(p) \/ ForgetDID(p)

Next == (\E p \in Procs : Step(p)) \/ ForeignCommit \/ Restart

Spec == Init /\ [][Next]_vars

-----------------------------------------------------------------------------
\* The state has its types, and a goroutine that returned holds no request and
\* no transaction (defer tx.Rollback and the returns of both calls).
TypeOK ==
    /\ rows \in [DIDs -> [Tokens -> Apps \cup {None}]]
    /\ registered \subseteq DIDs
    /\ disturbed \subseteq DIDs
    /\ pc \in [Procs -> {"idle"} \cup Registering \cup Unregistering]
    /\ req \in [Procs -> Req \cup {NoReq}]
    /\ \A p \in Procs : pc[p] = "idle" <=> req[p] = NoReq
    /\ stale \subseteq Readers

\* The count-then-insert transaction keeps every DID within the cap however
\* many registrations interleave (comment of RegisterToken).
CapRespected ==
    \A d \in DIDs : IsFiniteSet(TokensOf(d)) /\ Cardinality(TokensOf(d)) <= MaxTokensPerDID

\* IsRegistered answers what the table says, once the calls on a DID are over
\* and as long as no register overlapped an unregister of it and no recount
\* failed: RegisterToken and UnregisterToken keep the mirror exact otherwise.
MirrorExact ==
    \A d \in DIDs \ disturbed :
        At(d, Registering \cup Unregistering) = {} =>
            (d \in registered <=> TokensOf(d) # {})

\* What the transaction of RegisterToken rests on: there is one writer, and the
\* count a transaction took is still below the cap as long as nothing was
\* committed since, so that the insert it allowed cannot overshoot.
SnapshotInv ==
    /\ \A p, q \in Procs : pc[p] = "commit" /\ pc[q] = "commit" => p = q
    /\ \A p \in Procs :
         pc[p] \in {"insert", "commit"} /\ p \notin stale =>
             Cardinality(TokensOf(req[p].did) \ {req[p].token}) < MaxTokensPerDID

\* Who accounts for a disagreement of the table and the mirror on d: a token
\* whose DID is not yet registered has a RegisterToken about to remember it, a
\* registered DID without tokens has an UnregisterToken about to forget it, and
\* neither of the two acts on a count that went stale.
MirrorAt(d) ==
    /\ At(d, Registering) = {} \/ At(d, Unregistering) = {}
    /\ TokensOf(d) # {} /\ d \notin registered => At(d, {"remember"}) # {}
    /\ TokensOf(d) = {} /\ d \in registered => At(d, {"recount", "forget"}) # {}
    /\ At(d, {"forget"}) # {} => TokensOf(d) = {}
    /\ At(d, {"remember"}) # {} => TokensOf(d) # {}

\* As long as nothing disturbed a DID, some RegisterToken or UnregisterToken in
\* flight accounts for every disagreement of registeredDIDs with the table.
MirrorInv == \A d \in DIDs \ disturbed : MirrorAt(d)

\* UnregisterToken "Check if DID still has any tokens" before forgetting it:
\* with no call in flight, a DID that has a token is a registered DID.
NoHolderForgotten ==
    \A d \in DIDs :
        (TokensOf(d) # {} /\ At(d, Registering \cup Unregistering) = {}) => d \in registered

\* The steps of RegisterToken and UnregisterToken are atomic changes of the
\* table: the transactions implement the abstract registry.
Registry == INSTANCE TokenRegistry
                WITH rows <- rows, DIDs <- DIDs, Tokens <- Tokens, Apps <- Apps,
                     MaxTokensPerDID <- MaxTokensPerDID, None <- None
RegistrySpec == Registry!Spec
=============================================================================
