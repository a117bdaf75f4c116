--------------------------- MODULE BlockSyncProofs ---------------------------
(***************************************************************************)
(* Proofs about the block store and about BlockSync, which drives it: for  *)
(* any accounts, pairs, finite set of record keys, workers and bounds.     *)
(***************************************************************************)
EXTENDS BlockSync, FiniteSetTheorems, SequenceTheorems, WellFoundedInduction, TLAPS

\* One step of AddBlock, RemoveBlockByRKey or a restart keeps the types and the
\* key of every row about its own pair.
LEMMA StoreTypeStep == StoreTypeOK /\ [StoreNext]_storeVars => StoreTypeOK'
<1> SUFFICES ASSUME StoreTypeOK, [StoreNext]_storeVars PROVE StoreTypeOK'
  OBVIOUS
<1> USE PairAssumption, NoRKeyAssumption DEF StoreTypeOK, Adding, Removing
<1>1. ASSUME NEW p \in Procs, NEW k \in RKeys, AddBlock(p, k) PROVE StoreTypeOK'
  BY <1>1 DEF AddBlock, Begin
<1>2. ASSUME NEW p \in Procs, NEW k \in RKeys, RemoveBlockByRKey(p, k) PROVE StoreTypeOK'
  BY <1>2 DEF RemoveBlockByRKey, Begin
<1>3. ASSUME NEW p \in Procs, InsertBlock(p) PROVE StoreTypeOK'
  <2>1. key[p] \in RKeys /\ PairOf[key[p]] \in Pairs
    BY <1>3 DEF InsertBlock
  <2>2. /\ blocksDB' \in [Pairs -> RKeys \cup {NoRKey}]
        /\ \A pair \in Pairs : blocksDB'[pair] # NoRKey => PairOf[blocksDB'[pair]] = pair
    BY <1>3, <2>1 DEF InsertBlock
  <2> QED
    BY <1>3, <2>2 DEF InsertBlock
<1>4. ASSUME NEW p \in Procs, RememberBlock(p) PROVE StoreTypeOK'
  BY <1>4 DEF RememberBlock, Return
<1>5. ASSUME NEW p \in Procs, Lookup(p) PROVE StoreTypeOK'
  BY <1>5 DEF Lookup, Return
<1>6. ASSUME NEW p \in Procs, DeleteBlock(p) PROVE StoreTypeOK'
  BY <1>6 DEF DeleteBlock
<1>7. ASSUME NEW p \in Procs, ForgetBlock(p) PROVE StoreTypeOK'
  BY <1>7 DEF ForgetBlock
<1>8. ASSUME NEW p \in Procs, UnindexBlock(p) PROVE StoreTypeOK'
  BY <1>8 DEF UnindexBlock, Return
<1>9. ASSUME NEW p \in Procs, StoreError(p) PROVE StoreTypeOK'
  BY <1>9 DEF StoreError, Return
<1>10. CASE Restart
  BY <1>10 DEF Restart
<1>11. CASE UNCHANGED storeVars
  BY <1>11 DEF storeVars
<1> QED
  BY <1>1, <1>2, <1>3, <1>4, <1>5, <1>6, <1>7, <1>8, <1>9, <1>10, <1>11 DEF StoreNext, Continue

\* The store starts empty and idle.
LEMMA StoreTypeInit == StoreInit => StoreTypeOK
  BY DEF StoreInit, StoreTypeOK, Adding, Removing

\* Every reachable state of the block store is well typed, and no row carries the
\* key of a record about another pair.
THEOREM StoreTypeCorrect == StoreSpec => []StoreTypeOK
  BY StoreTypeInit, StoreTypeStep, PTL DEF StoreSpec

-----------------------------------------------------------------------------
\* Types and the accounting of the mirror and the index: the inductive invariant
\* of BlockMirrorKept.
BInv == StoreTypeOK /\ BlockMirrorInv

\* One step keeps the accounting of a pair on which no add and remove overlap.
LEMMA BlockMirrorStep == BInv /\ [StoreNext]_storeVars => BInv'
<1> SUFFICES ASSUME BInv, [StoreNext]_storeVars PROVE BInv'
  OBVIOUS
<1>t. StoreTypeOK /\ StoreTypeOK'
  BY StoreTypeStep DEF BInv
<1> SUFFICES ASSUME NEW pair \in Pairs, pair \notin disturbed' PROVE BlockMirrorAt(pair)'
  BY <1>t DEF BInv, BlockMirrorInv
<1> USE PairAssumption, NoRKeyAssumption DEF BlockMirrorAt, At, Adding, Removing
<1>0. CASE Restart
  BY <1>0, <1>t DEF Restart, StoreTypeOK
<1> SUFFICES ASSUME ~Restart PROVE BlockMirrorAt(pair)'
  BY <1>0
<1>d. pair \notin disturbed
  BY DEF StoreNext, Continue, AddBlock, RemoveBlockByRKey, Begin, InsertBlock, RememberBlock,
     Lookup, DeleteBlock, ForgetBlock, UnindexBlock, StoreError, storeVars
<1>m. BlockMirrorAt(pair)
  BY <1>d DEF BInv, BlockMirrorInv
<1>1. ASSUME NEW p \in Procs, NEW k \in RKeys, AddBlock(p, k) PROVE BlockMirrorAt(pair)'
  BY <1>1, <1>t, <1>m DEF AddBlock, Begin, StoreTypeOK
<1>2. ASSUME NEW p \in Procs, NEW k \in RKeys, RemoveBlockByRKey(p, k)
      PROVE  BlockMirrorAt(pair)'
  BY <1>2, <1>t, <1>m DEF RemoveBlockByRKey, Begin, StoreTypeOK
<1>3. ASSUME NEW p \in Procs, InsertBlock(p) PROVE BlockMirrorAt(pair)'
  BY <1>3, <1>t, <1>m DEF InsertBlock, StoreTypeOK
<1>4. ASSUME NEW p \in Procs, RememberBlock(p) PROVE BlockMirrorAt(pair)'
  BY <1>4, <1>t, <1>m DEF RememberBlock, Return, StoreTypeOK
<1>5. ASSUME NEW p \in Procs, Lookup(p) PROVE BlockMirrorAt(pair)'
  BY <1>5, <1>t, <1>m DEF Lookup, Return, StoreTypeOK
<1>6. ASSUME NEW p \in Procs, DeleteBlock(p) PROVE BlockMirrorAt(pair)'
  BY <1>6, <1>t, <1>m DEF DeleteBlock, StoreTypeOK
<1>7. ASSUME NEW p \in Procs, ForgetBlock(p) PROVE BlockMirrorAt(pair)'
  BY <1>7, <1>t, <1>m DEF ForgetBlock, StoreTypeOK
<1>8. ASSUME NEW p \in Procs, UnindexBlock(p) PROVE BlockMirrorAt(pair)'
  BY <1>8, <1>t, <1>m DEF UnindexBlock, Return, StoreTypeOK
<1>9. ASSUME NEW p \in Procs, StoreError(p) PROVE BlockMirrorAt(pair)'
  BY <1>9, <1>t, <1>m DEF StoreError, Return, StoreTypeOK
<1>10. CASE UNCHANGED storeVars
  BY <1>10, <1>m DEF storeVars
<1> QED
  BY <1>1, <1>2, <1>3, <1>4, <1>5, <1>6, <1>7, <1>8, <1>9, <1>10 DEF StoreNext, Continue

\* Between calls, and unless an add and a remove of the pair overlapped, memory
\* and table agree on every pair, and every row's key is in the index.
THEOREM BlockMirrorKept == StoreSpec => []BlockMirrorExact
<1>1. StoreInit => BInv
  BY StoreTypeInit DEF StoreInit, BInv, BlockMirrorInv, BlockMirrorAt, At, Adding, Removing
<1>2. BInv => BlockMirrorExact
  <2> SUFFICES ASSUME BInv, NEW pair \in Pairs \ disturbed, At(pair, Adding \cup Removing) = {}
               PROVE  /\ pair \in blocks <=> blocksDB[pair] # NoRKey
                      /\ blocksDB[pair] # NoRKey => blocksDB[pair] \in blocksByRKey
    BY DEF BlockMirrorExact
  <2>1. BlockMirrorAt(pair)
    BY DEF BInv, BlockMirrorInv
  <2> QED
    BY <2>1 DEF BlockMirrorAt, At, Adding, Removing
<1> QED
  BY <1>1, <1>2, BlockMirrorStep, PTL DEF StoreSpec

-----------------------------------------------------------------------------
(***************************************************************************)
(* The inductive invariant of BlockSync.  It says, for a pair that none of *)
(* the causes of divergence has touched, where every fact about the pair's *)
(* records still is on its way.                                            *)
(***************************************************************************)
\* Record k waits in commitCh, is on its way into the store, or out of it.
Waits(op, k) == \E i \in 1..Len(pending) : pending[i] = [op |-> op, key |-> k]
Adds(k) ==
    \/ \E w \in Workers : hand[w].op = "create" /\ hand[w].key = k
    \/ \E d \in DIDs : k \in bfPage[d]
    \/ \E p \in Procs : pc[p] \in Adding /\ key[p] = k
Removes(k, steps) ==
    \/ \E w \in Workers : hand[w].op = "delete" /\ hand[w].key = k
    \/ \E p \in Procs : pc[p] \in steps /\ key[p] = k

\* The types of what BlockSync adds to the store.
SyncTypeOK ==
    /\ live \subseteq RKeys /\ fresh \subseteq RKeys
    /\ pending \in Seq(Commit)
    /\ hand \in [Workers -> Commit \cup {NoCommit}]
    /\ bfStage \in [DIDs -> {"off", "fetch", "page", "done"}]
    /\ bfCursor \in [DIDs -> Nat]
    /\ bfPage \in [DIDs -> SUBSET RKeys]
    /\ bfLast \in [DIDs -> BOOLEAN]

\* A backfill runs for a marked account, and holds records only while it adds them.
BackfillInv ==
    /\ claims \cap marked = {}
    /\ \A d \in DIDs : /\ bfStage[d] \in {"fetch", "page"} => d \in marked
                       /\ bfStage[d] # "page" => bfPage[d] = {}

\* Nothing waits in the queue before the first event came; then there is a cursor.
FeedInv == link # "cursor" => pending = <<>>

\* Nothing that may make the mirror diverge happened to these pairs.
Good == Pairs \ (tainted \cup disturbed)

\* The queue keeps the order of the network: a waiting create is the last word
\* on a live record, and is followed by its delete otherwise.
QueueInv(k) ==
    /\ k \in fresh => ~Waits("create", k)
    /\ \A i \in 1..Len(pending) : pending[i] = [op |-> "create", key |-> k] =>
          IF k \in live
          THEN \A j \in i + 1..Len(pending) : PairOf[pending[j].key] # PairOf[k]
          ELSE \E j \in i + 1..Len(pending) : pending[j] = [op |-> "delete", key |-> k]
    /\ k \in live /\ PairOf[k] \in Queued => Waits("create", k)

\* A pair has one record at a time, and is never added and removed at once.
AloneInv(k) ==
    \A j \in RKeys : PairOf[j] = PairOf[k] =>
        /\ j \in live /\ k \in live => j = k
        /\ ~(Adds(j) /\ Removes(k, Removing))

\* What is being added exists, or its delete is still to come.
AddsInv(k) == Adds(k) => k \in live \/ Waits("delete", k)

\* A record that exists, or whose removal is still to come.
Relevant(k, steps) == k \in live \/ Waits("delete", k) \/ Removes(k, steps)

\* What the mirror and the table hold of a pair is of a relevant record.
StoredInv(pair) ==
    /\ pair \in blocks =>
          \E k \in blocksByRKey : PairOf[k] = pair /\ Relevant(k, {"lookup", "delete", "forget"})
    /\ blocksDB[pair] # NoRKey => Relevant(blocksDB[pair], {"lookup", "delete"})
    /\ At(pair, {"unindex"}) # {} => pair \notin blocks

\* The record is in the mirror for good, or on its way there.
Settled(k) ==
    \/ Waits("create", k) \/ Adds(k)
    \/ /\ PairOf[k] \in blocks
       /\ PairOf[k] \notin Queued
       /\ \A j \in RKeys : PairOf[j] = PairOf[k] => ~Removes(j, Removing)

\* A live record is settled once it was seen; the backfill of its author sees it
\* before its listing ends.
LiveInv(k) ==
    k \in live =>
        /\ PairOf[k] \notin unseen => Settled(k)
        /\ bfStage[Author(k)] = "fetch" => k < bfCursor[Author(k)] \/ Settled(k)
        /\ bfStage[Author(k)] = "page" =>
              (k < bfCursor[Author(k)] /\ ~bfLast[Author(k)]) \/ Settled(k)

PairInv(pair) ==
    /\ StoredInv(pair)
    /\ \A k \in RKeys : PairOf[k] = pair =>
          QueueInv(k) /\ AloneInv(k) /\ AddsInv(k) /\ LiveInv(k)

SyncInv == /\ BInv /\ SyncTypeOK /\ BackfillInv /\ FeedInv
           /\ \A pair \in Good : PairInv(pair)

-----------------------------------------------------------------------------
\* The record a pair's row, a hand or a page is about has an author and a subject.
LEMMA Sides == ASSUME NEW k \in RKeys
               PROVE  Author(k) \in DIDs /\ Subject(k) \in DIDs /\ PairOf[k] \in Pairs
  BY PairAssumption, SyncAssumption DEF Author, Subject

\* A set of record keys that is not empty has a newest and an oldest one.
LEMMA Extremes ==
    ASSUME NEW S \in SUBSET RKeys, S # {}
    PROVE  /\ Newest(S) \in S /\ \A j \in S : j <= Newest(S)
           /\ Oldest(S) \in S /\ \A j \in S : Oldest(S) <= j
<1> DEFINE Above(k) == {j \in S : j > k}
           Below(k) == {j \in S : j < k}
           Order == StrictSubsetOrdering(S)
<1>0. S \subseteq Nat /\ IsFiniteSet(S)
  BY SyncAssumption, FS_Subset
<1>1. /\ {Above(k) : k \in S} \subseteq FiniteSubsetsOf(S)
      /\ {Below(k) : k \in S} \subseteq FiniteSubsetsOf(S)
  <2>1. \A k \in S : IsFiniteSet(Above(k)) /\ IsFiniteSet(Below(k))
    BY <1>0, FS_Subset
  <2> QED
    BY <2>1, Zenon DEF FiniteSubsetsOf
<1>2. IsWellFoundedOn(Order, FiniteSubsetsOf(S))
  BY FS_StrictSubsetOrderingWellFounded
<1>3. ASSUME NEW j \in S, NEW k \in S
      PROVE  /\ j > k => Above(j) \subseteq Above(k) /\ j \in Above(k) /\ j \notin Above(j)
             /\ j < k => Below(j) \subseteq Below(k) /\ j \in Below(k) /\ j \notin Below(j)
  <2>1. \A i \in S : i \in Nat
    BY <1>0
  <2>2. j > k => \A i \in S : i > j => i > k
    BY <2>1
  <2>3. j < k => \A i \in S : i < j => i < k
    BY <2>1
  <2>4. ~(j > j) /\ ~(j < j)
    BY <2>1
  <2> QED
    BY <2>2, <2>3, <2>4
<1>4. \E k \in S : \A j \in S : j <= k
  <2> HIDE DEF Order
  <2>1. {Above(k) : k \in S} # {}
    OBVIOUS
  <2>2. PICK T \in {Above(k) : k \in S} : \A U \in {Above(k) : k \in S} : <<U, T>> \notin Order
    BY <1>1, <1>2, <2>1, WFMin, Zenon
  <2>k. PICK k \in S : T = Above(k)
    OBVIOUS
  <2>3. ASSUME NEW j \in S PROVE <<Above(j), Above(k)>> \notin Order
    <3>1. Above(j) \in {Above(i) : i \in S}
      OBVIOUS
    <3> HIDE DEF Above
    <3> QED
      BY <2>2, <2>k, <3>1, Zenon
  <2> SUFFICES ASSUME NEW j \in S, j > k PROVE FALSE
    BY <1>0
  <2>4. Above(j) \subseteq Above(k) /\ j \in Above(k) /\ j \notin Above(j)
    BY <1>3
  <2> QED
    BY <2>3, <2>4 DEF Order, StrictSubsetOrdering
<1>5. \E k \in S : \A j \in S : k <= j
  <2> HIDE DEF Order
  <2>1. {Below(k) : k \in S} # {}
    OBVIOUS
  <2>2. PICK T \in {Below(k) : k \in S} : \A U \in {Below(k) : k \in S} : <<U, T>> \notin Order
    BY <1>1, <1>2, <2>1, WFMin, Zenon
  <2>k. PICK k \in S : T = Below(k)
    OBVIOUS
  <2>3. ASSUME NEW j \in S PROVE <<Below(j), Below(k)>> \notin Order
    <3>1. Below(j) \in {Below(i) : i \in S}
      OBVIOUS
    <3> HIDE DEF Below
    <3> QED
      BY <2>2, <2>k, <3>1, Zenon
  <2> SUFFICES ASSUME NEW j \in S, j < k PROVE FALSE
    BY <1>0
  <2>4. Below(j) \subseteq Below(k) /\ j \in Below(k) /\ j \notin Below(j)
    BY <1>3
  <2> QED
    BY <2>3, <2>4 DEF Order, StrictSubsetOrdering
<1> QED
  BY <1>4, <1>5 DEF Newest, Oldest

\* BlockSync drives the store through its operations only.
LEMMA StepOfStore == SyncTypeOK /\ [Next]_vars => [StoreNext]_storeVars
<1> SUFFICES ASSUME SyncTypeOK, [Next]_vars PROVE [StoreNext]_storeVars
  OBVIOUS
<1> USE DEF StoreNext
<1>p. Workers \subseteq Procs /\ DIDs \subseteq Procs
  BY SyncAssumption
<1>h. \A w \in Workers : hand[w].op # "none" => hand[w].key \in RKeys
  BY DEF SyncTypeOK, Commit, NoCommit
<1>1. ASSUME \/ \E k \in RKeys : CreateRecord(k) \/ DeleteRecord(k)
             \/ Connect \/ Break
      PROVE  UNCHANGED storeVars
  BY <1>1 DEF CreateRecord, DeleteRecord, Connect, Break
<1>2. ASSUME NEW w \in Workers, Take(w) \/ HandleCreate(w) \/ HandleDelete(w)
      PROVE  [StoreNext]_storeVars
  <2>1. CASE Take(w)
    BY <2>1 DEF Take
  <2>2. CASE HandleCreate(w)
    BY <2>2, <1>p, <1>h DEF HandleCreate
  <2>3. CASE HandleDelete(w)
    BY <2>3, <1>p, <1>h DEF HandleDelete
  <2> QED
    BY <1>2, <2>1, <2>2, <2>3
<1>3. ASSUME NEW p \in Procs, StoreStep(p) \/ StoreFails(p) PROVE [StoreNext]_storeVars
  BY <1>3 DEF StoreStep, StoreFails
<1>4. ASSUME NEW d \in DIDs,
             Register(d) \/ Unregister(d) \/ Claim(d) \/ FetchPage(d) \/ FetchFails(d) \/ PageDone(d)
      PROVE  UNCHANGED storeVars
  BY <1>4 DEF Register, Unregister, Claim, FetchPage, FetchFails, PageDone
<1>5. ASSUME NEW d \in DIDs, AddFromPage(d) PROVE [StoreNext]_storeVars
  <2>1. Newest(bfPage[d]) \in RKeys
    BY <1>5, Extremes DEF AddFromPage, SyncTypeOK
  <2> QED
    BY <1>5, <1>p, <2>1 DEF AddFromPage
<1>6. CASE ProcessRestart
  BY <1>6 DEF ProcessRestart
<1>7. CASE UNCHANGED vars
  BY <1>7 DEF vars
<1> QED
  BY <1>1, <1>2, <1>3, <1>4, <1>5, <1>6, <1>7 DEF Next

\* One step of BlockSync keeps the types of what it adds to the store.
LEMMA SyncTypeStep == SyncTypeOK /\ [Next]_vars => SyncTypeOK'
<1> SUFFICES ASSUME SyncTypeOK, [Next]_vars PROVE SyncTypeOK'
  OBVIOUS
<1> USE DEF SyncTypeOK
<1>1. ASSUME NEW k \in RKeys, CreateRecord(k) PROVE SyncTypeOK'
  <2>0. [op |-> "create", key |-> k] \in Commit
    BY DEF Commit
  <2>1. pending' \in Seq(Commit)
    <3>1. Append(pending, [op |-> "create", key |-> k]) \in Seq(Commit)
      BY <2>0, AppendProperties
    <3> QED
      BY <1>1, <3>1 DEF CreateRecord, Publish, Miss
  <2> QED
    BY <1>1, <2>1 DEF CreateRecord, accounts, backfill
<1>2. ASSUME NEW k \in RKeys, DeleteRecord(k) PROVE SyncTypeOK'
  <2>0. [op |-> "delete", key |-> k] \in Commit
    BY DEF Commit
  <2>1. pending' \in Seq(Commit)
    <3>1. Append(pending, [op |-> "delete", key |-> k]) \in Seq(Commit)
      BY <2>0, AppendProperties
    <3> QED
      BY <1>2, <3>1 DEF DeleteRecord, Publish, Miss
  <2> QED
    BY <1>2, <2>1 DEF DeleteRecord, accounts, backfill
<1>3. ASSUME NEW w \in Workers, Take(w) PROVE SyncTypeOK'
  <2>1. Head(pending) \in Commit /\ Tail(pending) \in Seq(Commit)
    BY <1>3, HeadTailProperties DEF Take
  <2> QED
    BY <1>3, <2>1 DEF Take, network, accounts, backfill
<1>4. ASSUME NEW w \in Workers, HandleCreate(w) \/ HandleDelete(w) PROVE SyncTypeOK'
  BY <1>4 DEF HandleCreate, HandleDelete, network, accounts, backfill
<1>5. ASSUME NEW p \in Procs, StoreStep(p) \/ StoreFails(p) PROVE SyncTypeOK'
  BY <1>5 DEF StoreStep, StoreFails, network, backfill
<1>6. ASSUME NEW d \in DIDs, Register(d) \/ Unregister(d) PROVE SyncTypeOK'
  BY <1>6 DEF Register, Unregister, network, backfill
<1>7. ASSUME NEW d \in DIDs, Claim(d) PROVE SyncTypeOK'
  <2>1. Newest(RKeys) + 1 \in Nat
    <3>1. Newest(RKeys) \in RKeys
      BY SyncAssumption, Extremes
    <3>2. Newest(RKeys) \in Nat
      BY <3>1, SyncAssumption
    <3> QED
      BY <3>2
  <2> QED
    BY <1>7, <2>1 DEF Claim, network, backfill
<1>8. ASSUME NEW d \in DIDs, FetchPage(d) PROVE SyncTypeOK'
  <2> DEFINE older == {k \in live : Author(k) = d /\ k < bfCursor[d]}
             page  == {k \in older : Cardinality({j \in older : j > k}) < PageSize}
  <2>1. page \subseteq RKeys
    OBVIOUS
  <2>2. page # {} => Oldest(page) \in Nat
    BY <2>1, SyncAssumption, Extremes
  <2>3. bfCursor' \in [DIDs -> Nat]
    BY <1>8, <2>2 DEF FetchPage
  <2>4. bfLast' \in [DIDs -> BOOLEAN] /\ bfPage' \in [DIDs -> SUBSET RKeys]
    BY <1>8, <2>1 DEF FetchPage
  <2> QED
    BY <1>8, <2>3, <2>4 DEF FetchPage, network, accounts
<1>9. ASSUME NEW d \in DIDs, FetchFails(d) \/ PageDone(d) PROVE SyncTypeOK'
  <2>1. CASE FetchFails(d)
    BY <2>1 DEF FetchFails, EndBackfill, network
  <2>2. CASE PageDone(d)
    <3>1. UNCHANGED <<network, pending, hand, bfPage>>
      BY <2>2 DEF PageDone
    <3>2. \/ EndBackfill(d)
          \/ bfStage' = [bfStage EXCEPT ![d] = "fetch"] /\ UNCHANGED <<bfCursor, bfLast>>
      BY <2>2 DEF PageDone
    <3>3. CASE EndBackfill(d)
      BY <3>1, <3>3 DEF EndBackfill, network
    <3>4. CASE bfStage' = [bfStage EXCEPT ![d] = "fetch"] /\ UNCHANGED <<bfCursor, bfLast>>
      BY <3>1, <3>4 DEF network
    <3> QED
      BY <3>2, <3>3, <3>4
  <2> QED
    BY <1>9, <2>1, <2>2
<1>10. ASSUME NEW d \in DIDs, AddFromPage(d) PROVE SyncTypeOK'
  BY <1>10 DEF AddFromPage, network
<1>11. CASE ProcessRestart
  BY <1>11 DEF ProcessRestart
<1>12. CASE UNCHANGED vars
  BY <1>12 DEF vars, network, backfill
<1>13. CASE Connect \/ Break
  BY <1>13 DEF Connect, Break, backfill
<1> QED
  BY <1>1, <1>2, <1>3, <1>4, <1>5, <1>6, <1>7, <1>8, <1>9, <1>10, <1>11, <1>12, <1>13 DEF Next

\* Backfills run for marked accounts, one for each.
LEMMA BackfillStep == BackfillInv /\ SyncTypeOK /\ [Next]_vars => BackfillInv'
<1> SUFFICES ASSUME BackfillInv, SyncTypeOK, [Next]_vars PROVE BackfillInv'
  OBVIOUS
<1> USE DEF BackfillInv
<1>1. ASSUME NEW k \in RKeys, CreateRecord(k) \/ DeleteRecord(k) PROVE BackfillInv'
  BY <1>1 DEF CreateRecord, DeleteRecord, accounts, backfill
<1>2. ASSUME NEW w \in Workers, Take(w) \/ HandleCreate(w) \/ HandleDelete(w)
      PROVE  BackfillInv'
  BY <1>2 DEF Take, HandleCreate, HandleDelete, accounts, backfill
<1>3. ASSUME NEW p \in Procs, StoreStep(p) \/ StoreFails(p) PROVE BackfillInv'
  BY <1>3 DEF StoreStep, StoreFails, accounts, backfill
<1>4. ASSUME NEW d \in DIDs, Register(d) \/ Unregister(d) PROVE BackfillInv'
  BY <1>4 DEF Register, Unregister, backfill
<1>5. ASSUME NEW d \in DIDs, Claim(d) PROVE BackfillInv'
  BY <1>5 DEF Claim, backfill, SyncTypeOK
<1>6. ASSUME NEW d \in DIDs, FetchPage(d) PROVE BackfillInv'
  BY <1>6 DEF FetchPage, accounts, SyncTypeOK
<1>7. ASSUME NEW d \in DIDs, FetchFails(d) PROVE BackfillInv'
  BY <1>7 DEF FetchFails, EndBackfill, accounts, SyncTypeOK
<1>8. ASSUME NEW d \in DIDs, AddFromPage(d) PROVE BackfillInv'
  BY <1>8 DEF AddFromPage, accounts, SyncTypeOK
<1>9. ASSUME NEW d \in DIDs, PageDone(d) PROVE BackfillInv'
  <2>1. /\ UNCHANGED <<accounts, bfPage>> /\ bfStage[d] = "page" /\ bfPage[d] = {}
        /\ \E stage : bfStage' = [bfStage EXCEPT ![d] = stage]
    BY <1>9 DEF PageDone, EndBackfill
  <2> QED
    BY <2>1 DEF accounts, SyncTypeOK
<1>10. CASE ProcessRestart
  BY <1>10 DEF ProcessRestart
<1>11. CASE UNCHANGED vars
  BY <1>11 DEF vars, accounts, backfill
<1>12. CASE Connect \/ Break
  BY <1>12 DEF Connect, Break, accounts, backfill
<1> QED
  BY <1>1, <1>2, <1>3, <1>4, <1>5, <1>6, <1>7, <1>8, <1>9, <1>10, <1>11, <1>12 DEF Next

\* Whatever is put into the queue was delivered by a connection that has a cursor now.
LEMMA FeedStep == FeedInv /\ [Next]_vars => FeedInv'
<1> SUFFICES ASSUME FeedInv, [Next]_vars PROVE FeedInv'
  OBVIOUS
<1> USE DEF FeedInv
<1>1. ASSUME NEW k \in RKeys, CreateRecord(k) \/ DeleteRecord(k) PROVE FeedInv'
  BY <1>1 DEF CreateRecord, DeleteRecord, Publish, Miss
<1>2. CASE Connect \/ Break
  BY <1>2 DEF Connect, Break
<1>3. ASSUME NEW w \in Workers, Take(w) \/ HandleCreate(w) \/ HandleDelete(w) PROVE FeedInv'
  BY <1>3 DEF Take, HandleCreate, HandleDelete, network
<1>4. ASSUME NEW p \in Procs, StoreStep(p) \/ StoreFails(p) PROVE FeedInv'
  BY <1>4 DEF StoreStep, StoreFails, network
<1>5. ASSUME NEW d \in DIDs,
             \/ Register(d) \/ Unregister(d) \/ Claim(d)
             \/ FetchPage(d) \/ FetchFails(d) \/ AddFromPage(d) \/ PageDone(d)
      PROVE  FeedInv'
  BY <1>5 DEF Register, Unregister, Claim, FetchPage, FetchFails, AddFromPage, PageDone, network
<1>6. CASE ProcessRestart
  BY <1>6 DEF ProcessRestart
<1>7. CASE UNCHANGED vars
  BY <1>7 DEF vars, network
<1> QED
  BY <1>1, <1>2, <1>3, <1>4, <1>5, <1>6, <1>7 DEF Next


-----------------------------------------------------------------------------
\* Where a record is on its way, its pair is.
LEMMA OnItsWay ==
    ASSUME NEW k \in RKeys
    PROVE  /\ \A op \in {"create", "delete"} : Waits(op, k) => PairOf[k] \in Queued
           /\ Adds(k) => PairOf[k] \in BeingAdded
           /\ \A steps \in SUBSET Removing : Removes(k, steps) => PairOf[k] \in BeingRemoved
<1>1. \A op \in {"create", "delete"} : Waits(op, k) => PairOf[k] \in Queued
  BY DEF Waits, Queued
<1>2. Adds(k) => PairOf[k] \in BeingAdded
  BY DEF Adds, BeingAdded, Held, Paged, InStore
<1>3. \A steps \in SUBSET Removing : Removes(k, steps) => PairOf[k] \in BeingRemoved
  BY DEF Removes, BeingRemoved, Held, InStore
<1> QED
  BY <1>1, <1>2, <1>3

\* A commit that enters the queue waits behind all others.
LEMMA Appended ==
    ASSUME SyncTypeOK, NEW c \in Commit, pending' = Append(pending, c)
    PROVE  /\ Len(pending) \in Nat /\ Len(pending') = Len(pending) + 1
           /\ \A i \in 1..Len(pending) : pending'[i] = pending[i]
           /\ pending'[Len(pending')] = c
           /\ \A op, k : Waits(op, k)' <=> Waits(op, k) \/ c = [op |-> op, key |-> k]
           /\ \A pair : pair \in Queued' <=> pair \in Queued \/ pair = PairOf[c.key]
<1>1. /\ Len(pending) \in Nat /\ Len(pending') = Len(pending) + 1
      /\ \A i \in 1..Len(pending) : pending'[i] = pending[i]
      /\ pending'[Len(pending')] = c
  BY AppendProperties, LenProperties DEF SyncTypeOK
<1> QED
  BY <1>1 DEF Waits, Queued

\* A commit that leaves the queue was its first.
LEMMA Taken ==
    ASSUME SyncTypeOK, pending # <<>>, pending' = Tail(pending)
    PROVE  /\ Head(pending) \in Commit /\ pending[1] = Head(pending)
           /\ Len(pending') \in Nat /\ Len(pending) = Len(pending') + 1
           /\ \A i \in 1..Len(pending') : pending'[i] = pending[i + 1]
           /\ \A op, k : Waits(op, k) <=> Waits(op, k)' \/ Head(pending) = [op |-> op, key |-> k]
           /\ \A pair : pair \in Queued <=> pair \in Queued' \/ pair = PairOf[Head(pending).key]
<1>1. /\ Head(pending) \in Commit /\ pending[1] = Head(pending)
      /\ Len(pending') \in Nat /\ Len(pending) = Len(pending') + 1
      /\ \A i \in 1..Len(pending') : pending'[i] = pending[i + 1]
  BY HeadTailProperties, LenProperties DEF SyncTypeOK
<1>2. ASSUME NEW op, NEW k
      PROVE  Waits(op, k) <=> Waits(op, k)' \/ Head(pending) = [op |-> op, key |-> k]
  BY <1>1 DEF Waits
<1>3. ASSUME NEW pair
      PROVE  pair \in Queued <=> pair \in Queued' \/ pair = PairOf[Head(pending).key]
  <2>1. ASSUME NEW i \in 1..Len(pending), pair = PairOf[pending[i].key], i # 1
        PROVE  pair \in Queued'
    <3>1. i - 1 \in 1..Len(pending') /\ pending'[i - 1] = pending[i]
      BY <2>1, <1>1
    <3> QED
      BY <2>1, <3>1 DEF Queued
  <2>2. ASSUME NEW i \in 1..Len(pending'), pair = PairOf[pending'[i].key]
        PROVE  pair \in Queued
    <3>1. i + 1 \in 1..Len(pending) /\ pending'[i] = pending[i + 1]
      BY <2>2, <1>1
    <3> QED
      BY <2>2, <3>1 DEF Queued
  <2>3. 1 \in 1..Len(pending)
    BY <1>1
  <2> QED
    BY <2>1, <2>2, <2>3, <1>1 DEF Queued
<1> QED
  BY <1>1, <1>2, <1>3

-----------------------------------------------------------------------------
\* What is known of a pair before a step.
Here(pair) == /\ SyncTypeOK /\ StoreTypeOK /\ BackfillInv /\ FeedInv
              /\ pair \in Pairs /\ PairInv(pair) /\ BlockMirrorAt(pair)

\* A step that leaves the queue alone and moves nothing of a pair keeps its invariant.
LEMMA NothingMoves ==
    ASSUME NEW pair, Here(pair), SyncTypeOK', StoreTypeOK',
           pending' = pending, fresh' \subseteq fresh,
           \A k \in RKeys : PairOf[k] = pair =>
               /\ (k \in live)' <=> k \in live
               /\ Adds(k)' <=> Adds(k)
               /\ \A steps \in {Removing, {"lookup", "delete", "forget"}, {"lookup", "delete"}} :
                     Removes(k, steps)' <=> Removes(k, steps)
               /\ (k \in blocksByRKey)' <=> k \in blocksByRKey,
           blocksDB'[pair] = blocksDB[pair], pair \in blocks' <=> pair \in blocks,
           At(pair, {"unindex"})' \subseteq At(pair, {"unindex"}),
           pair \in unseen \ unseen' =>
               \A k \in RKeys : PairOf[k] = pair /\ k \in live => Settled(k),
           bfStage'[pair[1]] \in {"fetch", "page"} =>
               /\ bfStage'[pair[1]] = bfStage[pair[1]]
               /\ bfCursor'[pair[1]] = bfCursor[pair[1]]
               /\ bfLast'[pair[1]] = bfLast[pair[1]]
    PROVE  PairInv(pair)'
<1>w. (\A op, k : Waits(op, k)' <=> Waits(op, k)) /\ Queued' = Queued
  BY DEF Waits, Queued
<1>1. ASSUME NEW k \in RKeys, PairOf[k] = pair
      PROVE  (QueueInv(k) /\ AloneInv(k) /\ AddsInv(k) /\ LiveInv(k))'
  <2>p. QueueInv(k) /\ AloneInv(k) /\ AddsInv(k) /\ LiveInv(k)
    BY <1>1 DEF Here, PairInv
  <2>1. QueueInv(k)'
    BY <1>1, <1>w, <2>p DEF QueueInv
  <2>2. AloneInv(k)'
    BY <1>1, <2>p DEF AloneInv
  <2>3. AddsInv(k)'
    BY <1>1, <1>w, <2>p DEF AddsInv
  <2>4. LiveInv(k)'
    <3>1. Settled(k) => Settled(k)'
      BY <1>1, <1>w DEF Settled
    <3> QED
      BY <1>1, <2>p, <3>1 DEF LiveInv, Author
  <2> QED
    BY <2>1, <2>2, <2>3, <2>4
<1>2. StoredInv(pair)'
  <2>1. /\ StoredInv(pair)
        /\ blocksDB[pair] # NoRKey => blocksDB[pair] \in RKeys /\ PairOf[blocksDB[pair]] = pair
        /\ blocksByRKey \subseteq RKeys
    BY DEF Here, PairInv, StoreTypeOK
  <2>2. \A k \in RKeys, steps \in {{"lookup", "delete", "forget"}, {"lookup", "delete"}} :
           PairOf[k] = pair /\ Relevant(k, steps) => Relevant(k, steps)'
    BY <1>w DEF Relevant
  <2> QED
    BY <2>1, <2>2 DEF StoredInv
<1> QED
  BY <1>1, <1>2 DEF PairInv

\* A user blocks: the create is the last word in the queue.
LEMMA CreateRecordKeeps ==
    ASSUME NEW k0 \in RKeys, CreateRecord(k0), NEW pair, Here(pair), pair \notin tainted',
           SyncTypeOK', StoreTypeOK'
    PROVE  PairInv(pair)'
<1> DEFINE c0 == [op |-> "create", key |-> k0]
<1>t. SyncTypeOK /\ c0 \in Commit
  BY DEF Here, Commit
<1>c. /\ live' = live \cup {k0} /\ fresh' = {j \in fresh : j > k0} /\ k0 \in fresh
      /\ UNCHANGED <<storeVars, hand, accounts, backfill>>
  BY DEF CreateRecord
<1>u. /\ UNCHANGED <<blocksDB, blocks, blocksByRKey, pc, key, hand>>
      /\ UNCHANGED <<bfStage, bfCursor, bfPage, bfLast>>
  BY <1>c DEF storeVars, backfill
<1>a. \A k \in RKeys : /\ Adds(k)' <=> Adds(k)
                       /\ \A steps : Removes(k, steps)' <=> Removes(k, steps)
  BY <1>u DEF Adds, Removes
<1>p. \A k \in RKeys : PairOf[k] = pair => QueueInv(k) /\ AloneInv(k) /\ AddsInv(k) /\ LiveInv(k)
  BY DEF Here, PairInv
<1>1. CASE /\ pending' = Append(pending, c0) /\ unseen' = unseen
           /\ PairOf[k0] = pair => pair \notin LivePairs
  <2>w. /\ Len(pending) \in Nat /\ Len(pending') = Len(pending) + 1
        /\ \A i \in 1..Len(pending) : pending'[i] = pending[i]
        /\ pending'[Len(pending')] = c0
        /\ \A op, k : Waits(op, k)' <=> Waits(op, k) \/ c0 = [op |-> op, key |-> k]
        /\ \A q : q \in Queued' <=> q \in Queued \/ q = PairOf[k0]
    BY <1>1, <1>t, Appended
  <2>l. pair = PairOf[k0] => pair \notin LivePairs
    BY <1>1
  <2>1. ASSUME NEW k \in RKeys, PairOf[k] = pair PROVE QueueInv(k)'
    <3>1. QueueInv(k)
      BY <1>p, <2>1
    <3>2. k \in live => k # k0 /\ PairOf[k0] # pair
      BY <2>l, <2>1 DEF LivePairs
    <3>3. (k \in fresh => ~Waits("create", k))'
      <4>1. k \in fresh' => k \in fresh /\ k # k0
        BY <1>c, SyncAssumption
      <4> QED
        BY <4>1, <3>1, <2>w DEF QueueInv
    <3>4. ASSUME NEW i \in 1..Len(pending'), pending'[i] = [op |-> "create", key |-> k]
          PROVE  IF k \in live'
                 THEN \A j \in i + 1..Len(pending') : PairOf[pending'[j].key] # PairOf[k]
                 ELSE \E j \in i + 1..Len(pending') : pending'[j] = [op |-> "delete", key |-> k]
      <4>1. CASE i = Len(pending')
        BY <4>1, <3>4, <2>w, <1>c
      <4>2. CASE i \in 1..Len(pending)
        <5>1. pending[i] = [op |-> "create", key |-> k]
          BY <4>2, <3>4, <2>w
        <5>2. k # k0
          BY <5>1, <4>2, <1>p, <1>c, <2>1 DEF QueueInv, Waits
        <5>3. CASE k \in live
          <6>1. \A j \in i + 1..Len(pending) : PairOf[pending[j].key] # PairOf[k]
            BY <5>1, <5>3, <4>2, <3>1 DEF QueueInv
          <6>2. \A j \in i + 1..Len(pending') : PairOf[pending'[j].key] # PairOf[k]
            <7> SUFFICES ASSUME NEW j \in i + 1..Len(pending')
                         PROVE  PairOf[pending'[j].key] # PairOf[k]
              OBVIOUS
            <7>1. j = Len(pending') \/ (j \in 1..Len(pending) /\ j \in i + 1..Len(pending))
              BY <4>2, <2>w
            <7> QED
              BY <7>1, <6>1, <5>3, <3>2, <2>w, <2>1
          <6> QED
            BY <6>2, <5>3, <1>c
        <5>4. CASE k \notin live
          <6>1. PICK j \in i + 1..Len(pending) : pending[j] = [op |-> "delete", key |-> k]
            BY <5>1, <5>4, <4>2, <3>1 DEF QueueInv
          <6> QED
            BY <6>1, <5>2, <5>4, <4>2, <2>w, <1>c
        <5> QED
          BY <5>3, <5>4
      <4> QED
        BY <4>1, <4>2, <2>w
    <3>5. (k \in live /\ PairOf[k] \in Queued => Waits("create", k))'
      BY <3>1, <3>2, <2>w, <1>c, <2>1 DEF QueueInv
    <3> QED
      BY <3>3, <3>4, <3>5 DEF QueueInv
  <2>2. ASSUME NEW k \in RKeys, PairOf[k] = pair PROVE AloneInv(k)'
    BY <2>2, <2>l, <1>p, <1>a, <1>c DEF AloneInv, LivePairs
  <2>3. ASSUME NEW k \in RKeys, PairOf[k] = pair PROVE AddsInv(k)'
    BY <2>3, <2>w, <1>p, <1>a, <1>c DEF AddsInv
  <2>4. ASSUME NEW k \in RKeys, PairOf[k] = pair PROVE LiveInv(k)'
    <3>1. CASE k = k0
      BY <3>1, <2>w DEF LiveInv, Settled
    <3>2. CASE k # k0 /\ k \in live
      <4>1. PairOf[k0] # pair
        BY <3>2, <2>4, <2>l DEF LivePairs
      <4>2. Settled(k) => Settled(k)'
        BY <4>1, <2>4, <2>w, <1>a, <1>u DEF Settled
      <4> QED
        BY <3>2, <4>2, <2>4, <1>1, <1>p, <1>u DEF LiveInv
    <3> QED
      BY <3>1, <3>2, <1>c DEF LiveInv
  <2>5. StoredInv(pair)'
    <3>1. StoredInv(pair) /\ blocksDB[pair] \in RKeys \cup {NoRKey} /\ blocksByRKey \subseteq RKeys
      BY DEF Here, PairInv, StoreTypeOK
    <3>2. \A k \in RKeys : \A steps : Relevant(k, steps) => Relevant(k, steps)'
      BY <2>w, <1>a, <1>c DEF Relevant
    <3> QED
      BY <3>1, <3>2, <1>u DEF StoredInv, At
  <2> QED
    BY <2>1, <2>2, <2>3, <2>4, <2>5 DEF PairInv
<1>2. CASE /\ pending' = pending /\ PairOf[k0] # pair
           /\ pair \in unseen => pair \in unseen'
  <2>1. \A k \in RKeys : PairOf[k] = pair => ((k \in live)' <=> k \in live)
    BY <1>2, <1>c
  <2> QED
    BY <1>2, <1>t, <1>c, <1>u, <1>a, <2>1, NothingMoves DEF At
<1>3. CASE /\ link = "none" /\ pending' = pending /\ unseen' = unseen \cup {PairOf[k0]}
           /\ PairOf[k0] = pair /\ pair \notin LivePairs /\ ~Passed(k0)
  <2>q. /\ Queued = {} /\ Queued' = {}
        /\ \A op, k : ~Waits(op, k) /\ ~Waits(op, k)'
    <3>1. pending = <<>>
      BY <1>3 DEF Here, FeedInv
    <3> QED
      BY <1>3, <3>1 DEF Queued, Waits
  <2>1. ASSUME NEW k \in RKeys, PairOf[k] = pair PROVE QueueInv(k)'
    <3>1. \A i \in 1..Len(pending') : pending'[i] # [op |-> "create", key |-> k]
      BY <2>q DEF Waits
    <3> QED
      BY <2>q, <3>1 DEF QueueInv
  <2>2. ASSUME NEW k \in RKeys, PairOf[k] = pair PROVE AloneInv(k)'
    BY <2>2, <1>3, <1>p, <1>a, <1>c DEF AloneInv, LivePairs
  <2>3. ASSUME NEW k \in RKeys, PairOf[k] = pair PROVE AddsInv(k)'
    BY <2>3, <2>q, <1>p, <1>a, <1>c DEF AddsInv
  <2>4. ASSUME NEW k \in RKeys, PairOf[k] = pair PROVE LiveInv(k)'
    <3> SUFFICES ASSUME k \in live' PROVE LiveInv(k)'
      BY DEF LiveInv
    <3>1. k = k0
      BY <2>4, <1>3, <1>c DEF LivePairs
    <3>2. Author(k0) \in DIDs /\ bfCursor[Author(k0)] \in Nat /\ k0 \in Nat
      BY <1>t, Sides, SyncAssumption DEF SyncTypeOK
    <3>3. /\ bfStage[Author(k0)] # "page"
          /\ bfStage[Author(k0)] = "fetch" => k0 < bfCursor[Author(k0)]
      BY <3>2, <1>3 DEF Passed
    <3> QED
      BY <3>1, <3>3, <1>3, <1>u DEF LiveInv
  <2>5. StoredInv(pair)'
    <3>1. StoredInv(pair) /\ blocksDB[pair] \in RKeys \cup {NoRKey} /\ blocksByRKey \subseteq RKeys
      BY DEF Here, PairInv, StoreTypeOK
    <3>2. \A k \in RKeys : \A steps : Relevant(k, steps) => Relevant(k, steps)'
      BY <2>q, <1>a, <1>c DEF Relevant
    <3> QED
      BY <3>1, <3>2, <1>u DEF StoredInv, At
  <2> QED
    BY <2>1, <2>2, <2>3, <2>4, <2>5 DEF PairInv
<1> QED
  BY <1>1, <1>2, <1>3 DEF CreateRecord, Publish, Miss

\* A user unblocks: the delete is the last word in the queue.
LEMMA DeleteRecordKeeps ==
    ASSUME NEW k0 \in RKeys, DeleteRecord(k0), NEW pair, Here(pair), pair \notin tainted',
           SyncTypeOK', StoreTypeOK'
    PROVE  PairInv(pair)'
<1> DEFINE c0 == [op |-> "delete", key |-> k0]
<1>t. SyncTypeOK /\ c0 \in Commit
  BY DEF Here, Commit
<1>c. /\ live' = live \ {k0} /\ k0 \in live /\ UNCHANGED fresh
      /\ UNCHANGED <<storeVars, hand, accounts, backfill>>
  BY DEF DeleteRecord
<1>u. /\ UNCHANGED <<blocksDB, blocks, blocksByRKey, pc, key, hand>>
      /\ UNCHANGED <<bfStage, bfCursor, bfPage, bfLast>>
  BY <1>c DEF storeVars, backfill
<1>a. \A k \in RKeys : /\ Adds(k)' <=> Adds(k)
                       /\ \A steps : Removes(k, steps)' <=> Removes(k, steps)
  BY <1>u DEF Adds, Removes
<1>p. \A k \in RKeys : PairOf[k] = pair => QueueInv(k) /\ AloneInv(k) /\ AddsInv(k) /\ LiveInv(k)
  BY DEF Here, PairInv
<1>1. CASE pending' = Append(pending, c0) /\ unseen' = unseen
  <2>w. /\ Len(pending) \in Nat /\ Len(pending') = Len(pending) + 1
        /\ \A i \in 1..Len(pending) : pending'[i] = pending[i]
        /\ pending'[Len(pending')] = c0
        /\ \A op, k : Waits(op, k)' <=> Waits(op, k) \/ c0 = [op |-> op, key |-> k]
        /\ \A q : q \in Queued' <=> q \in Queued \/ q = PairOf[k0]
    BY <1>1, <1>t, Appended
  <2>l. \A k \in RKeys : PairOf[k] = pair /\ k \in live' => PairOf[k0] # pair
    BY <1>p, <1>c DEF AloneInv
  <2>1. ASSUME NEW k \in RKeys, PairOf[k] = pair PROVE QueueInv(k)'
    <3>1. QueueInv(k)
      BY <1>p, <2>1
    <3>3. (k \in fresh => ~Waits("create", k))'
      BY <3>1, <2>w, <1>c DEF QueueInv
    <3>4. ASSUME NEW i \in 1..Len(pending'), pending'[i] = [op |-> "create", key |-> k]
          PROVE  IF k \in live'
                 THEN \A j \in i + 1..Len(pending') : PairOf[pending'[j].key] # PairOf[k]
                 ELSE \E j \in i + 1..Len(pending') : pending'[j] = [op |-> "delete", key |-> k]
      <4>1. i \in 1..Len(pending) /\ pending[i] = [op |-> "create", key |-> k]
        BY <3>4, <2>w
      <4>2. CASE k \in live'
        <5>1. \A j \in i + 1..Len(pending) : PairOf[pending[j].key] # PairOf[k]
          BY <4>1, <4>2, <3>1, <1>c DEF QueueInv
        <5>2. \A j \in i + 1..Len(pending') : PairOf[pending'[j].key] # PairOf[k]
          <6> SUFFICES ASSUME NEW j \in i + 1..Len(pending')
                       PROVE  PairOf[pending'[j].key] # PairOf[k]
            OBVIOUS
          <6>1. j = Len(pending') \/ (j \in 1..Len(pending) /\ j \in i + 1..Len(pending))
            BY <4>1, <2>w
          <6> QED
            BY <6>1, <5>1, <4>2, <2>l, <2>w, <2>1
        <5> QED
          BY <5>2, <4>2
      <4>3. CASE k = k0
        <5>1. Len(pending') \in i + 1..Len(pending')
          BY <4>1, <2>w
        <5> QED
          BY <5>1, <4>3, <2>w, <1>c
      <4>4. CASE k \notin live
        <5>1. PICK j \in i + 1..Len(pending) : pending[j] = [op |-> "delete", key |-> k]
          BY <4>1, <4>4, <3>1 DEF QueueInv
        <5> QED
          BY <5>1, <4>1, <4>4, <2>w, <1>c
      <4> QED
        BY <4>2, <4>3, <4>4, <1>c
    <3>5. (k \in live /\ PairOf[k] \in Queued => Waits("create", k))'
      BY <3>1, <2>l, <2>w, <1>c, <2>1 DEF QueueInv
    <3> QED
      BY <3>3, <3>4, <3>5 DEF QueueInv
  <2>2. ASSUME NEW k \in RKeys, PairOf[k] = pair PROVE AloneInv(k)'
    BY <2>2, <1>p, <1>a, <1>c DEF AloneInv
  <2>3. ASSUME NEW k \in RKeys, PairOf[k] = pair PROVE AddsInv(k)'
    BY <2>3, <2>w, <1>p, <1>a, <1>c DEF AddsInv
  <2>4. ASSUME NEW k \in RKeys, PairOf[k] = pair PROVE LiveInv(k)'
    <3> SUFFICES ASSUME k \in live' PROVE LiveInv(k)'
      BY DEF LiveInv
    <3>1. PairOf[k0] # pair
      BY <2>4, <2>l
    <3>2. Settled(k) => Settled(k)'
      BY <3>1, <2>4, <2>w, <1>a, <1>u DEF Settled
    <3> QED
      BY <3>2, <2>4, <1>1, <1>p, <1>u, <1>c DEF LiveInv
  <2>5. StoredInv(pair)'
    <3>1. StoredInv(pair) /\ blocksDB[pair] \in RKeys \cup {NoRKey} /\ blocksByRKey \subseteq RKeys
      BY DEF Here, PairInv, StoreTypeOK
    <3>2. \A k \in RKeys : \A steps : Relevant(k, steps) => Relevant(k, steps)'
      BY <2>w, <1>a, <1>c DEF Relevant
    <3> QED
      BY <3>1, <3>2, <1>u DEF StoredInv, At
  <2> QED
    BY <2>1, <2>2, <2>3, <2>4, <2>5 DEF PairInv
<1>2. CASE /\ pending' = pending /\ PairOf[k0] # pair
           /\ pair \in unseen => pair \in unseen'
  <2>1. \A k \in RKeys : PairOf[k] = pair => ((k \in live)' <=> k \in live)
    BY <1>2, <1>c
  <2> QED
    BY <1>2, <1>t, <1>c, <1>u, <1>a, <2>1, NothingMoves DEF At
<1>3. CASE pending' = pending /\ PairOf[k0] = pair /\ ~Traced(pair)
  <2>1. /\ pair \notin blocks /\ blocksDB[pair] = NoRKey
        /\ pair \notin Queued /\ pair \notin BeingAdded
    BY <1>3 DEF Traced
  <2>2. Queued' = Queued /\ \A op, k : Waits(op, k)' <=> Waits(op, k)
    BY <1>3 DEF Queued, Waits
  <2>3. ASSUME NEW k \in RKeys, PairOf[k] = pair
        PROVE  ~Waits("create", k) /\ ~Adds(k) /\ k \notin live'
    <3>1. ~Waits("create", k) /\ ~Adds(k)
      BY <2>1, <2>3, OnItsWay
    <3>2. k \in live => k = k0
      BY <2>3, <1>3, <1>p, <1>c DEF AloneInv
    <3> QED
      BY <3>1, <3>2, <1>c
  <2>4. ASSUME NEW k \in RKeys, PairOf[k] = pair
        PROVE  (QueueInv(k) /\ AloneInv(k) /\ AddsInv(k) /\ LiveInv(k))'
    <3>1. QueueInv(k)'
      <4>1. \A i \in 1..Len(pending') : pending'[i] # [op |-> "create", key |-> k]
        BY <2>2, <2>3, <2>4 DEF Waits
      <4> QED
        BY <4>1, <2>2, <2>3, <2>4 DEF QueueInv
    <3>2. AloneInv(k)'
      BY <2>3, <2>4, <1>a DEF AloneInv
    <3>3. AddsInv(k)' /\ LiveInv(k)'
      BY <2>3, <2>4, <1>a DEF AddsInv, LiveInv
    <3> QED
      BY <3>1, <3>2, <3>3
  <2>5. StoredInv(pair)'
    BY <2>1, <1>u DEF StoredInv
  <2> QED
    BY <2>4, <2>5 DEF PairInv
<1> QED
  BY <1>1, <1>2, <1>3 DEF DeleteRecord, Publish, Miss

\* A worker takes the first commit: what waited is in its hand.
LEMMA TakeKeeps ==
    ASSUME NEW w \in Workers, Take(w), NEW pair, Here(pair), pair \notin tainted',
           SyncTypeOK', StoreTypeOK'
    PROVE  PairInv(pair)'
<1> DEFINE c == Head(pending)
<1>c. /\ hand[w] = NoCommit /\ pending # <<>> /\ pending' = Tail(pending)
      /\ hand' = [hand EXCEPT ![w] = c]
      /\ UNCHANGED <<storeVars, network, accounts, backfill, unseen>>
  BY DEF Take
<1>u. /\ UNCHANGED <<blocksDB, blocks, blocksByRKey, pc, key, unseen, live, fresh>>
      /\ UNCHANGED <<bfStage, bfCursor, bfPage, bfLast>>
  BY <1>c DEF storeVars, backfill, network
<1>w. /\ c \in Commit /\ pending[1] = c
      /\ Len(pending') \in Nat /\ Len(pending) = Len(pending') + 1
      /\ \A i \in 1..Len(pending') : pending'[i] = pending[i + 1]
      /\ \A op, k : Waits(op, k) <=> Waits(op, k)' \/ c = [op |-> op, key |-> k]
      /\ \A q : q \in Queued <=> q \in Queued' \/ q = PairOf[c.key]
  BY <1>c, Taken DEF Here
<1>h. hand[w] = NoCommit /\ hand'[w] = c /\ \A v \in Workers \ {w} : hand'[v] = hand[v]
  BY <1>c DEF Here, SyncTypeOK
<1>e. c.op \in {"create", "delete"} /\ c.key \in RKeys /\ c = [op |-> c.op, key |-> c.key]
  BY <1>w DEF Commit
<1>a. \A k \in RKeys :
         /\ Adds(k)' <=> Adds(k) \/ c = [op |-> "create", key |-> k]
         /\ \A steps : Removes(k, steps)' <=> Removes(k, steps) \/ c = [op |-> "delete", key |-> k]
  <2> SUFFICES ASSUME NEW k \in RKeys
               PROVE  /\ Adds(k)' <=> Adds(k) \/ c = [op |-> "create", key |-> k]
                      /\ \A steps : Removes(k, steps)' <=>
                            Removes(k, steps) \/ c = [op |-> "delete", key |-> k]
    OBVIOUS
  <2>1. \A op \in {"create", "delete"} :
           (\E v \in Workers : hand'[v].op = op /\ hand'[v].key = k) <=>
           (\E v \in Workers : hand[v].op = op /\ hand[v].key = k) \/ c = [op |-> op, key |-> k]
    BY <1>h, <1>e DEF NoCommit
  <2> QED
    BY <2>1, <1>u DEF Adds, Removes
<1>p. \A k \in RKeys : PairOf[k] = pair => QueueInv(k) /\ AloneInv(k) /\ AddsInv(k) /\ LiveInv(k)
  BY DEF Here, PairInv
<1>o. /\ PairOf[c.key] = pair /\ c.op = "create" => pair \notin BeingRemoved
      /\ PairOf[c.key] = pair /\ c.op = "delete" => pair \notin BeingAdded
  BY <1>e DEF Take
<1>1. ASSUME NEW k \in RKeys, PairOf[k] = pair PROVE QueueInv(k)'
  <2>1. QueueInv(k)
    BY <1>p, <1>1
  <2>2. (k \in fresh => ~Waits("create", k))'
    BY <2>1, <1>w, <1>u DEF QueueInv
  <2>3. ASSUME NEW i \in 1..Len(pending'), pending'[i] = [op |-> "create", key |-> k]
        PROVE  IF k \in live'
               THEN \A j \in i + 1..Len(pending') : PairOf[pending'[j].key] # PairOf[k]
               ELSE \E j \in i + 1..Len(pending') : pending'[j] = [op |-> "delete", key |-> k]
    <3>1. i + 1 \in 1..Len(pending) /\ pending[i + 1] = [op |-> "create", key |-> k]
      BY <2>3, <1>w
    <3>2. CASE k \in live
      <4>1. \A j \in i + 2..Len(pending) : PairOf[pending[j].key] # PairOf[k]
        BY <3>1, <3>2, <2>1 DEF QueueInv
      <4> QED
        BY <4>1, <3>2, <1>w, <1>u
    <3>3. CASE k \notin live
      <4>1. PICK j \in (i + 1) + 1..Len(pending) : pending[j] = [op |-> "delete", key |-> k]
        BY <3>1, <3>3, <2>1 DEF QueueInv
      <4>2. j - 1 \in i + 1..Len(pending') /\ pending'[j - 1] = pending[j]
        BY <4>1, <1>w
      <4> QED
        BY <4>1, <4>2, <3>3, <1>u
    <3> QED
      BY <3>2, <3>3
  <2>4. (k \in live /\ PairOf[k] \in Queued => Waits("create", k))'
    <3> SUFFICES ASSUME k \in live, PairOf[k] \in Queued', c = [op |-> "create", key |-> k]
                 PROVE  FALSE
      BY <2>1, <1>w, <1>u DEF QueueInv
    <3>1. PICK i \in 1..Len(pending') : PairOf[pending'[i].key] = PairOf[k]
      BY DEF Queued
    <3>2. i + 1 \in 1 + 1..Len(pending) /\ PairOf[pending[i + 1].key] = PairOf[k]
      BY <3>1, <1>w
    <3>3. 1 \in 1..Len(pending) /\ pending[1] = [op |-> "create", key |-> k]
      BY <1>w
    <3>4. \A j \in 1 + 1..Len(pending) : PairOf[pending[j].key] # PairOf[k]
      BY <3>3, <2>1 DEF QueueInv
    <3> QED
      BY <3>2, <3>4
  <2> QED
    BY <2>2, <2>3, <2>4 DEF QueueInv
<1>2. ASSUME NEW k \in RKeys, PairOf[k] = pair PROVE AloneInv(k)'
  <2> SUFFICES ASSUME NEW j \in RKeys, PairOf[j] = pair, Adds(j)', Removes(k, Removing)'
               PROVE  FALSE
    BY <1>2, <1>p, <1>u DEF AloneInv
  <2>1. CASE c = [op |-> "create", key |-> j]
    <3>1. Removes(k, Removing)
      BY <2>1, <1>a
    <3> QED
      BY <3>1, <2>1, <1>2, <1>o, OnItsWay
  <2>2. CASE c = [op |-> "delete", key |-> k]
    <3>1. Adds(j)
      BY <2>2, <1>a
    <3> QED
      BY <3>1, <2>2, <1>2, <1>o, OnItsWay
  <2> QED
    BY <2>1, <2>2, <1>2, <1>p, <1>a DEF AloneInv
<1>3. ASSUME NEW k \in RKeys, PairOf[k] = pair PROVE AddsInv(k)'
  <2> SUFFICES ASSUME Adds(k)', k \notin live PROVE Waits("delete", k)'
    BY <1>u DEF AddsInv
  <2>1. CASE c = [op |-> "create", key |-> k]
    <3>1. PICK j \in 1 + 1..Len(pending) : pending[j] = [op |-> "delete", key |-> k]
      <4>1. QueueInv(k) /\ 1 \in 1..Len(pending) /\ pending[1] = [op |-> "create", key |-> k]
        BY <2>1, <1>3, <1>p, <1>w
      <4> QED
        BY <4>1 DEF QueueInv
    <3>2. j - 1 \in 1..Len(pending') /\ pending'[j - 1] = pending[j]
      BY <3>1, <1>w
    <3> QED
      BY <3>1, <3>2 DEF Waits
  <2>2. CASE Adds(k)
    <3>1. c # [op |-> "delete", key |-> k]
      BY <2>2, <1>3, <1>o, OnItsWay
    <3> QED
      BY <2>2, <3>1, <1>3, <1>p, <1>w DEF AddsInv
  <2> QED
    BY <2>1, <2>2, <1>3, <1>a
<1>4. ASSUME NEW k \in RKeys, PairOf[k] = pair PROVE LiveInv(k)'
  <2>1. Settled(k) => Settled(k)'
    <3>1. CASE Waits("create", k) \/ Adds(k)
      BY <3>1, <1>4, <1>w, <1>a DEF Settled
    <3>2. CASE PairOf[k] \notin Queued
      <4>1. PairOf[k] # PairOf[c.key] /\ PairOf[k] \notin Queued'
        BY <3>2, <1>w
      <4> QED
        BY <4>1, <1>a, <1>u, <1>w DEF Settled
    <3> QED
      BY <3>1, <3>2 DEF Settled
  <2> QED
    BY <2>1, <1>4, <1>p, <1>u DEF LiveInv
<1>5. StoredInv(pair)'
  <2>1. StoredInv(pair) /\ blocksDB[pair] \in RKeys \cup {NoRKey} /\ blocksByRKey \subseteq RKeys
    BY DEF Here, PairInv, StoreTypeOK
  <2>2. \A k \in RKeys : \A steps : Relevant(k, steps) => Relevant(k, steps)'
    BY <1>w, <1>a, <1>u DEF Relevant
  <2> QED
    BY <2>1, <2>2, <1>u DEF StoredInv, At
<1> QED
  BY <1>1, <1>2, <1>3, <1>4, <1>5 DEF PairInv

\* A create is passed to the store, or is not seen because nobody is registered.
LEMMA HandleCreateKeeps ==
    ASSUME NEW w \in Workers, HandleCreate(w), NEW pair, Here(pair), pair \notin tainted',
           SyncTypeOK', StoreTypeOK'
    PROVE  PairInv(pair)'
<1> DEFINE k0 == hand[w].key
<1>t. SyncTypeOK /\ StoreTypeOK /\ w \in Procs
  BY SyncAssumption DEF Here
<1>c. /\ hand[w].op = "create" /\ k0 \in RKeys
      /\ hand' = [hand EXCEPT ![w] = NoCommit]
      /\ UNCHANGED <<live, fresh, pending, bfStage, bfCursor, bfPage, bfLast>>
  BY <1>t DEF HandleCreate, network, backfill, SyncTypeOK, Commit, NoCommit
<1>h. hand'[w] = NoCommit /\ \A v \in Workers \ {w} : hand'[v] = hand[v]
  BY <1>c, <1>t DEF SyncTypeOK
<1>1. CASE AddBlock(w, k0) /\ unseen' = unseen \ {PairOf[k0]}
  <2>1. /\ pc[w] = "idle" /\ pc' = [pc EXCEPT ![w] = "insert"] /\ key' = [key EXCEPT ![w] = k0]
        /\ UNCHANGED <<blocksDB, blocks, blocksByRKey>>
    BY <1>1 DEF AddBlock, Begin
  <2>2. /\ pc'[w] = "insert" /\ key'[w] = k0
        /\ \A p \in Procs \ {w} : pc'[p] = pc[p] /\ key'[p] = key[p]
    BY <2>1, <1>t DEF StoreTypeOK
  <2>3. ASSUME NEW k \in RKeys PROVE Adds(k)' <=> Adds(k)
    <3>1. (\E p \in Procs : pc'[p] \in Adding /\ key'[p] = k) <=>
          (\E p \in Procs : pc[p] \in Adding /\ key[p] = k) \/ k = k0
      BY <2>1, <2>2, <1>t DEF Adding
    <3>2. (\E v \in Workers : hand[v].op = "create" /\ hand[v].key = k) <=>
          (\E v \in Workers : hand'[v].op = "create" /\ hand'[v].key = k) \/ k = k0
      BY <1>h, <1>c DEF NoCommit
    <3> QED
      BY <3>1, <3>2, <1>c DEF Adds
  <2>4. ASSUME NEW k \in RKeys, NEW steps \in SUBSET Removing
        PROVE  Removes(k, steps)' <=> Removes(k, steps)
    <3>1. (\E p \in Procs : pc'[p] \in steps /\ key'[p] = k) <=>
          (\E p \in Procs : pc[p] \in steps /\ key[p] = k)
      BY <2>1, <2>2, <1>t DEF Removing
    <3>2. (\E v \in Workers : hand[v].op = "delete" /\ hand[v].key = k) <=>
          (\E v \in Workers : hand'[v].op = "delete" /\ hand'[v].key = k)
      BY <1>h, <1>c DEF NoCommit
    <3> QED
      BY <3>1, <3>2 DEF Removes
  <2>5. At(pair, {"unindex"})' \subseteq At(pair, {"unindex"})
    BY <2>2, <1>t DEF At
  <2>6. {Removing, {"lookup", "delete", "forget"}, {"lookup", "delete"}} \subseteq SUBSET Removing
    BY DEF Removing
  <2>7. ASSUME NEW k \in RKeys, PairOf[k] = pair, k \in live, PairOf[k0] = pair
        PROVE  Settled(k)
    <3>1. Adds(k0) /\ AddsInv(k0) /\ AloneInv(k0) /\ QueueInv(k)
      BY <1>c, <2>7 DEF Here, PairInv, Adds
    <3>2. CASE k0 \in live
      BY <3>1, <3>2, <2>7, <1>c DEF AloneInv, Settled
    <3>3. CASE Waits("delete", k0)
      <4>1. PairOf[k] \in Queued
        BY <3>3, <2>7, <1>c, OnItsWay
      <4> QED
        BY <4>1, <3>1, <2>7 DEF QueueInv, Settled
    <3> QED
      BY <3>1, <3>2, <3>3 DEF AddsInv
  <2> QED
    BY <1>1, <1>c, <2>1, <2>3, <2>4, <2>5, <2>6, <2>7, NothingMoves
<1>2. CASE /\ unseen' = unseen \cup {PairOf[k0]}
           /\ tainted' = tainted \cup (IF Passed(k0) THEN {PairOf[k0]} ELSE {})
           /\ UNCHANGED storeVars
  <2>u. UNCHANGED <<blocksDB, blocks, blocksByRKey, pc, key>>
    BY <1>2 DEF storeVars
  <2>1. ASSUME NEW k \in RKeys
        PROVE  /\ Adds(k)' => Adds(k)
               /\ k # k0 => (Adds(k)' <=> Adds(k))
               /\ \A steps : Removes(k, steps)' <=> Removes(k, steps)
    <3>1. /\ \A v \in Workers : hand'[v].op # "none" => hand'[v] = hand[v]
          /\ \A v \in Workers : hand[v].key # k0 => hand'[v] = hand[v]
          /\ \A v \in Workers : hand[v].op = "delete" => hand'[v] = hand[v]
      BY <1>h, <1>c DEF NoCommit
    <3> QED
      BY <3>1, <2>u, <1>c DEF Adds, Removes
  <2>2. CASE PairOf[k0] # pair
    <3>1. \A k \in RKeys : PairOf[k] = pair => k # k0
      BY <2>2
    <3> QED
      BY <1>2, <1>c, <2>u, <2>1, <3>1, NothingMoves DEF At
  <2>3. CASE PairOf[k0] = pair
    <3>w. (\A op, k : Waits(op, k)' <=> Waits(op, k)) /\ Queued' = Queued
      BY <1>c DEF Waits, Queued
    <3>p. \A k \in RKeys : PairOf[k] = pair =>
             QueueInv(k) /\ AloneInv(k) /\ AddsInv(k) /\ LiveInv(k)
      BY DEF Here, PairInv
    <3>m. ~Passed(k0)
      BY <1>2, <2>3
    <3>1. ASSUME NEW k \in RKeys, PairOf[k] = pair PROVE QueueInv(k)'
      BY <3>1, <3>w, <3>p, <1>c DEF QueueInv
    <3>2. ASSUME NEW k \in RKeys, PairOf[k] = pair PROVE AloneInv(k)'
      BY <3>2, <2>1, <3>p, <1>c DEF AloneInv
    <3>3. ASSUME NEW k \in RKeys, PairOf[k] = pair PROVE AddsInv(k)'
      BY <3>3, <2>1, <3>w, <3>p, <1>c DEF AddsInv
    <3>4. ASSUME NEW k \in RKeys, PairOf[k] = pair PROVE LiveInv(k)'
      <4>1. pair \in unseen' /\ Author(k) = Author(k0)
        BY <1>2, <2>3, <3>4 DEF Author
      <4>2. CASE k = k0
        <5>1. Author(k0) \in DIDs /\ bfCursor[Author(k0)] \in Nat /\ k0 \in Nat
          BY <1>t, <1>c, Sides, SyncAssumption DEF SyncTypeOK
        <5>2. /\ bfStage[Author(k0)] # "page"
              /\ bfStage[Author(k0)] = "fetch" => k0 < bfCursor[Author(k0)]
          BY <5>1, <3>m DEF Passed
        <5> QED
          BY <4>1, <4>2, <5>2, <3>4, <1>c DEF LiveInv
      <4>3. CASE k # k0
        <5>1. Settled(k) => Settled(k)'
          BY <4>3, <3>w, <2>1, <2>u, <3>4 DEF Settled
        <5> QED
          BY <5>1, <4>1, <3>4, <3>p, <1>c DEF LiveInv
      <4> QED
        BY <4>2, <4>3
    <3>5. StoredInv(pair)'
      <4>1. StoredInv(pair) /\ blocksDB[pair] \in RKeys \cup {NoRKey} /\ blocksByRKey \subseteq RKeys
        BY DEF Here, PairInv, StoreTypeOK
      <4>2. \A k \in RKeys : \A steps : Relevant(k, steps) => Relevant(k, steps)'
        BY <3>w, <2>1, <1>c DEF Relevant
      <4> QED
        BY <4>1, <4>2, <2>u DEF StoredInv, At
    <3> QED
      BY <3>1, <3>2, <3>3, <3>4, <3>5 DEF PairInv
  <2> QED
    BY <2>2, <2>3
<1> QED
  BY <1>1, <1>2 DEF HandleCreate

\* A delete is passed to the store.
LEMMA HandleDeleteKeeps ==
    ASSUME NEW w \in Workers, HandleDelete(w), NEW pair, Here(pair), SyncTypeOK', StoreTypeOK'
    PROVE  PairInv(pair)'
<1> DEFINE k0 == hand[w].key
<1>t. SyncTypeOK /\ StoreTypeOK /\ w \in Procs
  BY SyncAssumption DEF Here
<1>c. /\ hand[w].op = "delete" /\ k0 \in RKeys
      /\ hand' = [hand EXCEPT ![w] = NoCommit]
      /\ UNCHANGED <<live, fresh, pending, unseen, bfStage, bfCursor, bfPage, bfLast>>
  BY <1>t DEF HandleDelete, network, backfill, ghosts, SyncTypeOK, Commit, NoCommit
<1>h. hand'[w] = NoCommit /\ \A v \in Workers \ {w} : hand'[v] = hand[v]
  BY <1>c, <1>t DEF SyncTypeOK
<1>1. /\ pc[w] = "idle" /\ pc' = [pc EXCEPT ![w] = "lookup"] /\ key' = [key EXCEPT ![w] = k0]
      /\ UNCHANGED <<blocksDB, blocks, blocksByRKey>>
  BY DEF HandleDelete, RemoveBlockByRKey, Begin
<1>2. /\ pc'[w] = "lookup" /\ key'[w] = k0
      /\ \A p \in Procs \ {w} : pc'[p] = pc[p] /\ key'[p] = key[p]
  BY <1>1, <1>t DEF StoreTypeOK
<1>3. ASSUME NEW k \in RKeys PROVE Adds(k)' <=> Adds(k)
  <2>1. (\E p \in Procs : pc'[p] \in Adding /\ key'[p] = k) <=>
        (\E p \in Procs : pc[p] \in Adding /\ key[p] = k)
    BY <1>1, <1>2, <1>t DEF Adding
  <2>2. (\E v \in Workers : hand[v].op = "create" /\ hand[v].key = k) <=>
        (\E v \in Workers : hand'[v].op = "create" /\ hand'[v].key = k)
    BY <1>h, <1>c DEF NoCommit
  <2> QED
    BY <2>1, <2>2, <1>c DEF Adds
<1>4. ASSUME NEW k \in RKeys, NEW steps, "lookup" \in steps, "idle" \notin steps
      PROVE  Removes(k, steps)' <=> Removes(k, steps)
  <2>1. (\E p \in Procs : pc'[p] \in steps /\ key'[p] = k) <=>
        (\E p \in Procs : pc[p] \in steps /\ key[p] = k) \/ k = k0
    BY <1>1, <1>2, <1>t, <1>4
  <2>2. (\E v \in Workers : hand[v].op = "delete" /\ hand[v].key = k) <=>
        (\E v \in Workers : hand'[v].op = "delete" /\ hand'[v].key = k) \/ k = k0
    BY <1>h, <1>c DEF NoCommit
  <2> QED
    BY <2>1, <2>2 DEF Removes
<1>5. At(pair, {"unindex"})' \subseteq At(pair, {"unindex"})
  BY <1>2, <1>t DEF At
<1>6. \A steps \in {Removing, {"lookup", "delete", "forget"}, {"lookup", "delete"}} :
         "lookup" \in steps /\ "idle" \notin steps
  BY DEF Removing
<1> QED
  BY <1>1, <1>c, <1>3, <1>4, <1>5, <1>6, NothingMoves

-----------------------------------------------------------------------------
\* What a step inside the store leaves alone.
Outside == <<live, fresh, pending, hand, unseen, bfStage, bfCursor, bfPage, bfLast>>

\* A step of the store on another pair moves nothing of this one.
LEMMA ElsewhereKeeps ==
    ASSUME NEW p \in Procs, Continue(p) \/ StoreError(p), UNCHANGED Outside,
           NEW pair, Here(pair), PairOf[key[p]] # pair, SyncTypeOK', StoreTypeOK'
    PROVE  PairInv(pair)'
<1>t. StoreTypeOK /\ pair \in Pairs
  BY DEF Here
<1> DEFINE kp == key[p]
<1>1. /\ pc[p] # "idle" /\ kp \in RKeys
      /\ key'[p] \in {kp, NoRKey}
      /\ \A q \in Procs \ {p} : pc'[q] = pc[q] /\ key'[q] = key[q]
  <2>1. pc[p] # "idle"
    BY DEF Continue, InsertBlock, RememberBlock, Lookup, DeleteBlock, ForgetBlock, UnindexBlock,
       StoreError
  <2>2. /\ \E step : pc' = [pc EXCEPT ![p] = step]
        /\ key' = key \/ key' = [key EXCEPT ![p] = NoRKey]
    BY DEF Continue, InsertBlock, RememberBlock, Lookup, DeleteBlock, ForgetBlock, UnindexBlock,
       StoreError, Return
  <2> QED
    BY <2>1, <2>2, <1>t DEF StoreTypeOK
<1>2. /\ blocksDB'[pair] = blocksDB[pair]
      /\ pair \in blocks' <=> pair \in blocks
      /\ \A k \in RKeys : PairOf[k] = pair => ((k \in blocksByRKey)' <=> k \in blocksByRKey)
  BY <1>t DEF Continue, InsertBlock, RememberBlock, Lookup, DeleteBlock, ForgetBlock, UnindexBlock,
     StoreError, StoreTypeOK
<1>3. ASSUME NEW k \in RKeys, PairOf[k] = pair, NEW steps
      PROVE  (\E q \in Procs : pc'[q] \in steps /\ key'[q] = k) <=>
             (\E q \in Procs : pc[q] \in steps /\ key[q] = k)
  <2>1. \A q \in Procs : key[q] = k \/ key'[q] = k => q # p
    BY <1>1, <1>3, NoRKeyAssumption
  <2> QED
    BY <1>1, <2>1
<1>4. \A k \in RKeys : PairOf[k] = pair =>
         /\ Adds(k)' <=> Adds(k)
         /\ \A steps : Removes(k, steps)' <=> Removes(k, steps)
  BY <1>3 DEF Adds, Removes, Outside
<1>5. At(pair, {"unindex"})' \subseteq At(pair, {"unindex"})
  <2>1. ASSUME pc'[p] = "unindex" PROVE key'[p] = kp
    BY <2>1, <1>1 DEF StoreTypeOK
  <2> QED
    BY <1>1, <2>1 DEF At
<1> QED
  BY <1>2, <1>4, <1>5, NothingMoves DEF Outside

\* The row is written for a record that exists or whose delete is still to come.
LEMMA InsertKeeps ==
    ASSUME NEW p \in Procs, InsertBlock(p), UNCHANGED Outside,
           NEW pair, Here(pair), PairOf[key[p]] = pair, SyncTypeOK', StoreTypeOK'
    PROVE  PairInv(pair)'
<1>t. StoreTypeOK /\ pair \in Pairs
  BY DEF Here
<1>1. /\ pc[p] = "insert" /\ pc'[p] = "remember" /\ key[p] \in RKeys /\ key' = key
      /\ \A q \in Procs \ {p} : pc'[q] = pc[q]
      /\ UNCHANGED <<blocks, blocksByRKey>>
  BY <1>t DEF InsertBlock, StoreTypeOK
<1>2. ASSUME NEW k \in RKeys
      PROVE  /\ Adds(k)' <=> Adds(k)
             /\ \A steps \in SUBSET Removing : Removes(k, steps)' <=> Removes(k, steps)
  <2>1. /\ \A q \in Procs : pc'[q] \in Adding <=> pc[q] \in Adding
        /\ \A steps \in SUBSET Removing : \A q \in Procs : pc'[q] \in steps <=> pc[q] \in steps
    BY <1>1 DEF Adding, Removing
  <2> QED
    BY <2>1, <1>1 DEF Adds, Removes, Outside
<1>3. {Removing, {"lookup", "delete", "forget"}, {"lookup", "delete"}} \subseteq SUBSET Removing
  BY DEF Removing
<1>4. At(pair, {"unindex"})' = At(pair, {"unindex"})
  BY <1>1 DEF At
<1>5. CASE blocksDB[pair] # NoRKey
  <2>1. blocksDB'[pair] = blocksDB[pair]
    BY <1>5, <1>t DEF InsertBlock, StoreTypeOK
  <2> QED
    BY <2>1, <1>1, <1>2, <1>3, <1>4, NothingMoves DEF Outside
<1>6. CASE blocksDB[pair] = NoRKey
  <2>w. (\A op, k : Waits(op, k)' <=> Waits(op, k)) /\ Queued' = Queued
    BY DEF Waits, Queued, Outside
  <2>1. blocksDB'[pair] = key[p]
    BY <1>6, <1>t DEF InsertBlock, StoreTypeOK
  <2>2. Adds(key[p]) /\ AddsInv(key[p])
    BY <1>1 DEF Adds, Adding, Here, PairInv
  <2>3. \A k \in RKeys : PairOf[k] = pair =>
           (QueueInv(k) /\ AloneInv(k) /\ AddsInv(k) /\ LiveInv(k))'
    <3> SUFFICES ASSUME NEW k \in RKeys, PairOf[k] = pair
                 PROVE  (QueueInv(k) /\ AloneInv(k) /\ AddsInv(k) /\ LiveInv(k))'
      OBVIOUS
    <3>p. QueueInv(k) /\ AloneInv(k) /\ AddsInv(k) /\ LiveInv(k)
      BY DEF Here, PairInv
    <3>1. QueueInv(k)'
      BY <2>w, <3>p DEF QueueInv, Outside
    <3>2. AloneInv(k)'
      BY <1>2, <1>3, <3>p DEF AloneInv, Outside
    <3>3. AddsInv(k)'
      BY <1>2, <2>w, <3>p DEF AddsInv, Outside
    <3>4. LiveInv(k)'
      <4>1. Settled(k) => Settled(k)'
        BY <1>1, <1>2, <1>3, <2>w DEF Settled
      <4> QED
        BY <4>1, <3>p DEF LiveInv, Outside
    <3> QED
      BY <3>1, <3>2, <3>3, <3>4
  <2>4. StoredInv(pair)'
    <3>1. StoredInv(pair) /\ blocksByRKey \subseteq RKeys
      BY <1>t DEF Here, PairInv, StoreTypeOK
    <3>2. \A k \in RKeys, steps \in SUBSET Removing : Relevant(k, steps) => Relevant(k, steps)'
      BY <1>2, <2>w DEF Relevant, Outside
    <3>3. Relevant(key[p], {"lookup", "delete"})'
      BY <1>1, <2>2, <2>w DEF AddsInv, Relevant, Outside
    <3> QED
      BY <3>1, <3>2, <3>3, <2>1, <1>1, <1>3, <1>4 DEF StoredInv
  <2> QED
    BY <2>3, <2>4 DEF PairInv
<1> QED
  BY <1>5, <1>6

\* The mirror learns of a record that exists or whose delete is still to come.
LEMMA RememberKeeps ==
    ASSUME NEW p \in Procs, RememberBlock(p), UNCHANGED Outside,
           NEW pair, Here(pair), PairOf[key[p]] = pair, SyncTypeOK', StoreTypeOK'
    PROVE  PairInv(pair)'
<1>t. StoreTypeOK /\ pair \in Pairs
  BY DEF Here
<1>k. PICK kp \in RKeys : kp = key[p]
  BY <1>t DEF RememberBlock, StoreTypeOK
<1>1. /\ pc[p] = "remember" /\ pc'[p] = "idle" /\ key[p] = kp /\ key'[p] = NoRKey
      /\ \A q \in Procs \ {p} : pc'[q] = pc[q] /\ key'[q] = key[q]
      /\ blocks' = blocks \cup {pair} /\ blocksByRKey' = blocksByRKey \cup {kp}
      /\ UNCHANGED blocksDB
  BY <1>t, <1>k DEF RememberBlock, Return, StoreTypeOK
<1>w. (\A op, k : Waits(op, k)' <=> Waits(op, k)) /\ Queued' = Queued
  BY DEF Waits, Queued, Outside
<1>2. ASSUME NEW k \in RKeys
      PROVE  /\ Adds(k)' => Adds(k)
             /\ k # kp => (Adds(k) => Adds(k)')
             /\ \A steps \in SUBSET Removing : Removes(k, steps)' <=> Removes(k, steps)
  <2>1. /\ \A q \in Procs : pc'[q] \in Adding => pc[q] \in Adding /\ key'[q] = key[q]
        /\ \A q \in Procs : key[q] # kp => pc'[q] = pc[q] /\ key'[q] = key[q]
        /\ \A steps \in SUBSET Removing : \A q \in Procs :
              /\ pc'[q] \in steps <=> pc[q] \in steps
              /\ pc'[q] \in steps => key'[q] = key[q]
    BY <1>1 DEF Adding, Removing
  <2> QED
    BY <2>1, <1>1 DEF Adds, Removes, Outside
<1>3. {Removing, {"lookup", "delete", "forget"}, {"lookup", "delete"}} \subseteq SUBSET Removing
  BY DEF Removing
<1>4. Adds(kp) /\ AddsInv(kp)
  BY <1>1 DEF Adds, Adding, Here, PairInv
<1>5. ASSUME NEW k \in RKeys, PairOf[k] = pair
      PROVE  (QueueInv(k) /\ AloneInv(k) /\ AddsInv(k) /\ LiveInv(k))'
  <2>p. QueueInv(k) /\ AloneInv(k) /\ AddsInv(k) /\ LiveInv(k)
    BY <1>5 DEF Here, PairInv
  <2>1. QueueInv(k)'
    BY <1>w, <2>p DEF QueueInv, Outside
  <2>2. AloneInv(k)'
    BY <1>2, <1>3, <2>p DEF AloneInv, Outside
  <2>3. AddsInv(k)'
    BY <1>2, <1>w, <2>p DEF AddsInv, Outside
  <2>4. LiveInv(k)'
    <3> SUFFICES ASSUME k \in live PROVE Settled(k) => Settled(k)'
      BY <2>p DEF LiveInv, Outside
    <3>1. PairOf[k] \in Queued => Waits("create", k)
      BY <2>p DEF QueueInv
    <3>2. \A j \in RKeys : PairOf[j] = pair => ~Removes(j, Removing)
      BY <1>4, <1>5, <1>1 DEF Here, PairInv, AloneInv
    <3> QED
      BY <3>1, <3>2, <1>1, <1>2, <1>3, <1>5, <1>w DEF Settled
  <2> QED
    BY <2>1, <2>2, <2>3, <2>4
<1>6. StoredInv(pair)'
  <2>1. /\ StoredInv(pair) /\ blocksByRKey \subseteq RKeys
        /\ blocksDB[pair] \in RKeys \cup {NoRKey} /\ PairOf[kp] = pair
    BY <1>t, <1>k DEF Here, PairInv, StoreTypeOK
  <2>2. \A k \in RKeys, steps \in SUBSET Removing : Relevant(k, steps) => Relevant(k, steps)'
    BY <1>2, <1>w DEF Relevant, Outside
  <2>3. Relevant(kp, {"lookup", "delete", "forget"})'
    BY <1>4, <1>w DEF AddsInv, Relevant, Outside
  <2>4. At(pair, {"unindex"})' = {}
    <3>1. At(pair, Removing) = {}
      BY <1>1 DEF Here, BlockMirrorAt, At, Adding
    <3> QED
      BY <3>1, <1>1 DEF At, Removing
  <2> QED
    BY <2>1, <2>2, <2>3, <2>4, <1>1, <1>3 DEF StoredInv
<1> QED
  BY <1>5, <1>6 DEF PairInv

\* A step of RemoveBlockByRKey on the pair ends no addition and begins no removal.
LEMMA RemovalStep ==
    ASSUME NEW p \in Procs, NEW kp \in RKeys, key[p] = kp, pc[p] \in Removing,
           pc'[p] \in Removing \cup {"idle"}, key'[p] \in {kp, NoRKey}, UNCHANGED Outside,
           \A q \in Procs \ {p} : pc'[q] = pc[q] /\ key'[q] = key[q],
           UNCHANGED blocks, NEW pair, Here(pair), PairOf[kp] = pair
    PROVE  /\ \A op, k : Waits(op, k)' <=> Waits(op, k)
           /\ \A k \in RKeys : Removes(k, Removing)' => Removes(k, Removing)
           /\ \A k \in RKeys : PairOf[k] = pair =>
                 (QueueInv(k) /\ AloneInv(k) /\ AddsInv(k) /\ LiveInv(k))'
<1>w. (\A op, k : Waits(op, k)' <=> Waits(op, k)) /\ Queued' = Queued
  BY DEF Waits, Queued, Outside
<1>1. ASSUME NEW k \in RKeys
      PROVE  /\ Adds(k)' <=> Adds(k)
             /\ Removes(k, Removing)' => Removes(k, Removing)
  <2>1. /\ \A q \in Procs : /\ pc[q] \in Adding \/ pc'[q] \in Adding => q # p
                            /\ pc'[q] \in Removing /\ key'[q] = k =>
                                  pc[q] \in Removing /\ key[q] = k
    BY NoRKeyAssumption DEF Adding, Removing
  <2> QED
    BY <2>1 DEF Adds, Removes, Outside
<1>2. ASSUME NEW k \in RKeys, PairOf[k] = pair
      PROVE  (QueueInv(k) /\ AloneInv(k) /\ AddsInv(k) /\ LiveInv(k))'
  <2>p. QueueInv(k) /\ AloneInv(k) /\ AddsInv(k) /\ LiveInv(k)
    BY <1>2 DEF Here, PairInv
  <2>1. QueueInv(k)'
    BY <1>w, <2>p DEF QueueInv, Outside
  <2>2. AloneInv(k)'
    BY <1>1, <2>p DEF AloneInv, Outside
  <2>3. AddsInv(k)'
    BY <1>1, <1>w, <2>p DEF AddsInv, Outside
  <2>4. LiveInv(k)'
    <3>1. Settled(k) => Settled(k)'
      BY <1>1, <1>w DEF Settled
    <3> QED
      BY <3>1, <2>p DEF LiveInv, Outside
  <2> QED
    BY <2>1, <2>2, <2>3, <2>4
<1> QED
  BY <1>w, <1>1, <1>2

\* A removal goes on, or ends because the record's key leads nowhere: then neither
\* the row nor the mirror is of this record.
LEMMA LookupKeeps ==
    ASSUME NEW p \in Procs, Lookup(p), UNCHANGED Outside,
           NEW pair, Here(pair), PairOf[key[p]] = pair, SyncTypeOK', StoreTypeOK'
    PROVE  PairInv(pair)'
<1>t. StoreTypeOK /\ pair \in Pairs
  BY DEF Here
<1>k. PICK kp \in RKeys : kp = key[p]
  BY <1>t DEF Lookup, StoreTypeOK
<1>1. /\ pc[p] = "lookup" /\ key[p] = kp
      /\ \/ pc'[p] = "delete" /\ key'[p] = kp
         \/ kp \notin blocksByRKey /\ pc'[p] = "idle" /\ key'[p] = NoRKey
      /\ \A q \in Procs \ {p} : pc'[q] = pc[q] /\ key'[q] = key[q]
      /\ UNCHANGED <<blocks, blocksDB, blocksByRKey>>
  BY <1>t, <1>k DEF Lookup, Return, StoreTypeOK
<1>2. /\ \A op, k : Waits(op, k)' <=> Waits(op, k)
      /\ \A k \in RKeys : PairOf[k] = pair =>
            (QueueInv(k) /\ AloneInv(k) /\ AddsInv(k) /\ LiveInv(k))'
  <2>1. pc[p] \in Removing /\ pc'[p] \in Removing \cup {"idle"}
    BY <1>1 DEF Removing
  <2> QED
    BY <1>1, <1>k, <2>1, RemovalStep
<1>3. StoredInv(pair)'
  <2>1. /\ StoredInv(pair) /\ blocksByRKey \subseteq RKeys
        /\ blocksDB[pair] \in RKeys \cup {NoRKey} /\ PairOf[kp] = pair
    BY <1>t, <1>k DEF Here, PairInv, StoreTypeOK
  <2>2. ASSUME NEW k \in RKeys, k \in blocksByRKey,
               NEW steps \in {{"lookup", "delete", "forget"}, {"lookup", "delete"}}
        PROVE  Relevant(k, steps) => Relevant(k, steps)'
    <3>1. Removes(k, steps) => Removes(k, steps)'
      <4>1. \A q \in Procs : pc[q] \in steps /\ key[q] = k => pc'[q] \in steps /\ key'[q] = k
        BY <2>2, <1>1
      <4> QED
        BY <4>1 DEF Removes, Outside
    <3> QED
      BY <3>1, <1>2 DEF Relevant, Outside
  <2>3. blocksDB[pair] # NoRKey => blocksDB[pair] \in blocksByRKey
    <3>1. At(pair, Adding) = {}
      BY <1>1, <1>k DEF Here, BlockMirrorAt, At, Removing
    <3>2. At(pair, {"remember"}) = {}
      BY <3>1 DEF At, Adding
    <3> QED
      BY <3>2 DEF Here, BlockMirrorAt
  <2>4. At(pair, {"unindex"})' \subseteq At(pair, {"unindex"})
    BY <1>1 DEF At
  <2> QED
    BY <2>1, <2>2, <2>3, <2>4, <1>1 DEF StoredInv
<1> QED
  BY <1>2, <1>3 DEF PairInv

\* The row goes; what is left in the mirror is about to be forgotten.
LEMMA DeleteKeeps ==
    ASSUME NEW p \in Procs, DeleteBlock(p), UNCHANGED Outside,
           NEW pair, Here(pair), PairOf[key[p]] = pair, SyncTypeOK', StoreTypeOK'
    PROVE  PairInv(pair)'
<1>t. StoreTypeOK /\ pair \in Pairs
  BY DEF Here
<1>k. PICK kp \in RKeys : kp = key[p]
  BY <1>t DEF DeleteBlock, StoreTypeOK
<1>1. /\ pc[p] = "delete" /\ key[p] = kp /\ pc'[p] = "forget" /\ key'[p] = kp
      /\ \A q \in Procs \ {p} : pc'[q] = pc[q] /\ key'[q] = key[q]
      /\ blocksDB'[pair] = NoRKey
      /\ UNCHANGED <<blocks, blocksByRKey>>
  BY <1>t, <1>k DEF DeleteBlock, StoreTypeOK
<1>2. /\ \A op, k : Waits(op, k)' <=> Waits(op, k)
      /\ \A k \in RKeys : PairOf[k] = pair =>
            (QueueInv(k) /\ AloneInv(k) /\ AddsInv(k) /\ LiveInv(k))'
  <2>1. pc[p] \in Removing /\ pc'[p] \in Removing \cup {"idle"}
    BY <1>1 DEF Removing
  <2> QED
    BY <1>1, <1>k, <2>1, RemovalStep
<1>3. StoredInv(pair)'
  <2>1. StoredInv(pair) /\ blocksByRKey \subseteq RKeys
    BY <1>t DEF Here, PairInv, StoreTypeOK
  <2>2. ASSUME NEW k \in RKeys
        PROVE  Relevant(k, {"lookup", "delete", "forget"}) =>
               Relevant(k, {"lookup", "delete", "forget"})'
    <3>1. \A q \in Procs : pc[q] \in {"lookup", "delete", "forget"} /\ key[q] = k =>
                              pc'[q] \in {"lookup", "delete", "forget"} /\ key'[q] = k
      BY <1>1
    <3> QED
      BY <3>1, <1>2 DEF Relevant, Removes, Outside
  <2>3. At(pair, {"unindex"})' \subseteq At(pair, {"unindex"})
    BY <1>1 DEF At
  <2> QED
    BY <2>1, <2>2, <2>3, <1>1 DEF StoredInv
<1> QED
  BY <1>2, <1>3 DEF PairInv

\* The mirror forgets the pair: no record of it counted on the mirror.
LEMMA ForgetKeeps ==
    ASSUME NEW p \in Procs, ForgetBlock(p), UNCHANGED Outside,
           NEW pair, Here(pair), PairOf[key[p]] = pair, SyncTypeOK', StoreTypeOK'
    PROVE  PairInv(pair)'
<1>t. StoreTypeOK /\ pair \in Pairs
  BY DEF Here
<1>k. PICK kp \in RKeys : kp = key[p]
  BY <1>t DEF ForgetBlock, StoreTypeOK
<1>1. /\ pc[p] = "forget" /\ key[p] = kp /\ pc'[p] = "unindex" /\ key'[p] = kp
      /\ \A q \in Procs \ {p} : pc'[q] = pc[q] /\ key'[q] = key[q]
      /\ blocks' = blocks \ {pair}
      /\ UNCHANGED <<blocksDB, blocksByRKey>>
  BY <1>t, <1>k DEF ForgetBlock, StoreTypeOK
<1>w. (\A op, k : Waits(op, k)' <=> Waits(op, k)) /\ Queued' = Queued
  BY DEF Waits, Queued, Outside
<1>2. ASSUME NEW k \in RKeys
      PROVE  /\ Adds(k)' <=> Adds(k)
             /\ Removes(k, Removing)' => Removes(k, Removing)
             /\ Removes(k, {"lookup", "delete"}) => Removes(k, {"lookup", "delete"})'
  <2>1. /\ \A q \in Procs : pc[q] \in Adding \/ pc'[q] \in Adding => q # p
        /\ \A q \in Procs : pc'[q] \in Removing => pc[q] \in Removing /\ key'[q] = key[q]
        /\ \A q \in Procs : pc[q] \in {"lookup", "delete"} => pc'[q] = pc[q] /\ key'[q] = key[q]
    BY <1>1 DEF Adding, Removing
  <2> QED
    BY <2>1, <1>1 DEF Adds, Removes, Outside
<1>3. ASSUME NEW k \in RKeys, PairOf[k] = pair
      PROVE  (QueueInv(k) /\ AloneInv(k) /\ AddsInv(k) /\ LiveInv(k))'
  <2>p. QueueInv(k) /\ AloneInv(k) /\ AddsInv(k) /\ LiveInv(k)
    BY <1>3 DEF Here, PairInv
  <2>1. QueueInv(k)'
    BY <1>w, <2>p DEF QueueInv, Outside
  <2>2. AloneInv(k)'
    BY <1>2, <2>p DEF AloneInv, Outside
  <2>3. AddsInv(k)'
    BY <1>2, <1>w, <2>p DEF AddsInv, Outside
  <2>4. LiveInv(k)'
    <3>1. Removes(kp, Removing)
      BY <1>1 DEF Removes, Removing
    <3>2. Settled(k) => Settled(k)'
      BY <3>1, <1>2, <1>3, <1>k, <1>w DEF Settled
    <3> QED
      BY <3>2, <2>p DEF LiveInv, Outside
  <2> QED
    BY <2>1, <2>2, <2>3, <2>4
<1>4. StoredInv(pair)'
  <2>1. StoredInv(pair) /\ blocksDB[pair] \in RKeys \cup {NoRKey}
    BY <1>t DEF Here, PairInv, StoreTypeOK
  <2> QED
    BY <2>1, <1>1, <1>2, <1>w DEF StoredInv, Relevant, Outside
<1> QED
  BY <1>3, <1>4 DEF PairInv

\* The key leaves the index: the mirror had forgotten the pair.
LEMMA UnindexKeeps ==
    ASSUME NEW p \in Procs, UnindexBlock(p), UNCHANGED Outside,
           NEW pair, Here(pair), PairOf[key[p]] = pair, SyncTypeOK', StoreTypeOK'
    PROVE  PairInv(pair)'
<1>t. StoreTypeOK /\ pair \in Pairs
  BY DEF Here
<1>k. PICK kp \in RKeys : kp = key[p]
  BY <1>t DEF UnindexBlock, StoreTypeOK
<1>1. /\ pc[p] = "unindex" /\ key[p] = kp /\ pc'[p] = "idle" /\ key'[p] = NoRKey
      /\ \A q \in Procs \ {p} : pc'[q] = pc[q] /\ key'[q] = key[q]
      /\ UNCHANGED <<blocks, blocksDB>>
  BY <1>t, <1>k DEF UnindexBlock, Return, StoreTypeOK
<1>2. /\ \A op, k : Waits(op, k)' <=> Waits(op, k)
      /\ \A k \in RKeys : PairOf[k] = pair =>
            (QueueInv(k) /\ AloneInv(k) /\ AddsInv(k) /\ LiveInv(k))'
  <2>1. pc[p] \in Removing /\ pc'[p] \in Removing \cup {"idle"}
    BY <1>1 DEF Removing
  <2> QED
    BY <1>1, <1>k, <2>1, RemovalStep
<1>3. StoredInv(pair)'
  <2>1. StoredInv(pair) /\ blocksDB[pair] \in RKeys \cup {NoRKey} /\ p \in At(pair, {"unindex"})
    BY <1>t, <1>1 DEF Here, PairInv, StoreTypeOK, At
  <2>2. \A k \in RKeys : Removes(k, {"lookup", "delete"}) => Removes(k, {"lookup", "delete"})'
    <3>1. \A q \in Procs : pc[q] \in {"lookup", "delete"} => pc'[q] = pc[q] /\ key'[q] = key[q]
      BY <1>1
    <3> QED
      BY <3>1 DEF Removes, Outside
  <2> QED
    BY <2>1, <2>2, <1>1, <1>2 DEF StoredInv, Relevant, Outside
<1> QED
  BY <1>2, <1>3 DEF PairInv

\* One step inside the store, which fails only on pairs that count as tainted.
LEMMA StoreStepKeeps ==
    ASSUME NEW p \in Procs, StoreStep(p) \/ StoreFails(p), NEW pair, Here(pair),
           pair \notin tainted', SyncTypeOK', StoreTypeOK'
    PROVE  PairInv(pair)'
<1>1. UNCHANGED Outside /\ (Continue(p) \/ StoreError(p))
  BY DEF StoreStep, StoreFails, Outside, network, backfill, ghosts
<1>2. CASE PairOf[key[p]] # pair
  BY <1>1, <1>2, ElsewhereKeeps
<1>3. CASE PairOf[key[p]] = pair /\ Continue(p)
  BY <1>1, <1>3, InsertKeeps, RememberKeeps, LookupKeeps, DeleteKeeps, ForgetKeeps, UnindexKeeps
  DEF Continue
<1>4. CASE PairOf[key[p]] = pair /\ StoreFails(p)
  BY <1>4 DEF StoreFails
<1> QED
  BY <1>2, <1>3, <1>4 DEF StoreStep

-----------------------------------------------------------------------------
\* A page is the newest part of what is left of the listing: whatever is left
\* over is older than its last record, and nothing is left over of an empty page.
LEMMA PageIsNewest ==
    ASSUME NEW older \in SUBSET RKeys,
           NEW page, page = {k \in older : Cardinality({j \in older : j > k}) < PageSize},
           NEW k \in older, k \notin page
    PROVE  page # {} /\ k < Oldest(page)
<1> DEFINE Above(i) == {j \in older : j > i}
<1>0. older \subseteq Nat /\ older # {} /\ IsFiniteSet(older) /\ PageSize \in Nat \ {0}
  BY SyncAssumption, FS_Subset
<1>1. Newest(older) \in page
  <2>1. PICK n \in older : n = Newest(older) /\ \A j \in older : j <= n
    BY <1>0, Extremes
  <2>2. \A j \in older : ~(j > n)
    <3>1. n \in Nat /\ \A j \in older : j \in Nat
      BY <1>0
    <3> QED
      BY <2>1, <3>1
  <2>3. Above(n) = {}
    BY <2>2
  <2> HIDE DEF Above
  <2>4. Cardinality(Above(n)) = 0
    BY <2>3, FS_EmptySet
  <2> QED
    BY <2>1, <2>4, <1>0 DEF Above
<1>2. \A i \in page : k < i
  <2> SUFFICES ASSUME NEW i \in page, ~(k < i) PROVE FALSE
    OBVIOUS
  <2>1. i \in older /\ i \in Nat /\ k \in Nat /\ i <= k
    BY <1>0
  <2>2. Above(k) \subseteq Above(i)
    <3> SUFFICES ASSUME NEW j \in older, j > k PROVE j > i
      OBVIOUS
    <3>1. j \in Nat
      BY <1>0
    <3> QED
      BY <3>1, <2>1
  <2>3. IsFiniteSet(Above(i)) /\ IsFiniteSet(Above(k))
    BY <1>0, FS_Subset
  <2>4. /\ Cardinality(Above(k)) <= Cardinality(Above(i))
        /\ Cardinality(Above(k)) \in Nat /\ Cardinality(Above(i)) \in Nat
    <3> HIDE DEF Above
    <3> QED
      BY <2>2, <2>3, FS_Subset, FS_CardinalityType
  <2>5. Cardinality(Above(i)) < PageSize /\ ~(Cardinality(Above(k)) < PageSize)
    OBVIOUS
  <2> HIDE DEF Above
  <2> QED
    BY <2>4, <2>5, <1>0
<1>3. page \subseteq RKeys /\ page # {}
  BY <1>1
<1> QED
  BY <1>2, <1>3, Extremes

\* Registrations move nothing of a pair; a claimed backfill will see every record.
LEMMA AccountKeeps ==
    ASSUME NEW d \in DIDs, Register(d) \/ Unregister(d) \/ Claim(d) \/ FetchFails(d),
           NEW pair, Here(pair), SyncTypeOK', StoreTypeOK'
    PROVE  PairInv(pair)'
<1>t. SyncTypeOK /\ BackfillInv /\ pair \in Pairs /\ pair[1] \in DIDs
  BY SyncAssumption DEF Here
<1>1. /\ UNCHANGED <<live, fresh, pending, hand, unseen, bfPage>>
      /\ UNCHANGED <<blocksDB, blocks, blocksByRKey, pc, key>>
  BY DEF Register, Unregister, Claim, FetchFails, EndBackfill, storeVars, network, backfill, ghosts
<1>2. \A k \in RKeys : /\ Adds(k)' <=> Adds(k)
                       /\ \A steps : Removes(k, steps)' <=> Removes(k, steps)
  BY <1>1 DEF Adds, Removes
<1>3. CASE \/ bfStage'[pair[1]] \notin {"fetch", "page"}
           \/ /\ bfStage'[pair[1]] = bfStage[pair[1]]
              /\ bfCursor'[pair[1]] = bfCursor[pair[1]]
              /\ bfLast'[pair[1]] = bfLast[pair[1]]
  BY <1>1, <1>2, <1>3, NothingMoves DEF At
<1>4. CASE /\ bfStage'[pair[1]] = "fetch" /\ bfCursor'[pair[1]] = Newest(RKeys) + 1
  <2>w. (\A op, k : Waits(op, k)' <=> Waits(op, k)) /\ Queued' = Queued
    BY <1>1 DEF Waits, Queued
  <2>1. ASSUME NEW k \in RKeys, PairOf[k] = pair
        PROVE  (QueueInv(k) /\ AloneInv(k) /\ AddsInv(k) /\ LiveInv(k))'
    <3>p. QueueInv(k) /\ AloneInv(k) /\ AddsInv(k) /\ LiveInv(k)
      BY <2>1 DEF Here, PairInv
    <3>1. QueueInv(k)'
      BY <1>1, <2>w, <3>p DEF QueueInv
    <3>2. AloneInv(k)'
      BY <1>1, <1>2, <3>p DEF AloneInv
    <3>3. AddsInv(k)'
      BY <1>1, <1>2, <2>w, <3>p DEF AddsInv
    <3>4. LiveInv(k)'
      <4>1. Settled(k) => Settled(k)'
        BY <1>1, <1>2, <2>w DEF Settled
      <4>2. Newest(RKeys) \in Nat /\ k \in Nat /\ k <= Newest(RKeys)
        BY Extremes, SyncAssumption
      <4>3. k < bfCursor'[pair[1]]
        BY <4>2, <1>4
      <4> QED
        BY <4>1, <4>3, <3>p, <2>1, <1>1, <1>4 DEF LiveInv, Author
    <3> QED
      BY <3>1, <3>2, <3>3, <3>4
  <2>2. StoredInv(pair)'
    <3>1. StoredInv(pair) /\ blocksDB[pair] \in RKeys \cup {NoRKey} /\ blocksByRKey \subseteq RKeys
      BY DEF Here, PairInv, StoreTypeOK
    <3>2. \A k \in RKeys : \A steps : Relevant(k, steps) => Relevant(k, steps)'
      BY <2>w, <1>1, <1>2 DEF Relevant
    <3> QED
      BY <3>1, <3>2, <1>1 DEF StoredInv, At
  <2> QED
    BY <2>1, <2>2 DEF PairInv
<1>5. \/ UNCHANGED <<bfStage, bfCursor, bfLast>>
      \/ /\ bfStage' = [bfStage EXCEPT ![d] = "fetch"]
         /\ bfCursor' = [bfCursor EXCEPT ![d] = Newest(RKeys) + 1]
         /\ UNCHANGED bfLast
      \/ /\ bfStage' = [bfStage EXCEPT ![d] = "done"]
         /\ bfCursor' = [bfCursor EXCEPT ![d] = 0]
         /\ bfLast' = [bfLast EXCEPT ![d] = FALSE]
  BY DEF Register, Unregister, Claim, FetchFails, EndBackfill, backfill
<1> QED
  BY <1>3, <1>4, <1>5, <1>t DEF SyncTypeOK

\* A fetched page holds live records only, and nothing newer is left to list.
LEMMA FetchPageKeeps ==
    ASSUME NEW d \in DIDs, FetchPage(d), NEW pair, Here(pair), pair \notin tainted',
           SyncTypeOK', StoreTypeOK'
    PROVE  PairInv(pair)'
<1> DEFINE older == {k \in live : Author(k) = d /\ k < bfCursor[d]}
           page  == {k \in older : Cardinality({j \in older : j > k}) < PageSize}
<1>t. SyncTypeOK /\ BackfillInv /\ pair \in Pairs /\ pair[1] \in DIDs /\ live \subseteq RKeys
  BY SyncAssumption DEF Here, SyncTypeOK
<1>1. /\ bfStage[d] = "fetch" /\ bfStage' = [bfStage EXCEPT ![d] = "page"]
      /\ bfPage' = [bfPage EXCEPT ![d] = page]
      /\ bfLast' = [bfLast EXCEPT ![d] = older = page]
      /\ bfCursor' = [bfCursor EXCEPT ![d] = IF page = {} THEN @ ELSE Oldest(page)]
      /\ tainted' = tainted \cup ({PairOf[k] : k \in page} \cap BeingRemoved)
      /\ UNCHANGED <<live, fresh, pending, hand, unseen>>
      /\ UNCHANGED <<blocksDB, blocks, blocksByRKey, pc, key>>
  BY DEF FetchPage, storeVars, network
<1> HIDE DEF page
<1>w. (\A op, k : Waits(op, k)' <=> Waits(op, k)) /\ Queued' = Queued
  BY <1>1 DEF Waits, Queued
<1>2. /\ bfPage'[d] = page /\ \A e \in DIDs \ {d} : bfPage'[e] = bfPage[e]
      /\ bfPage[d] = {}
  BY <1>1, <1>t DEF SyncTypeOK, BackfillInv
<1>3. \A k \in RKeys : /\ Adds(k)' <=> Adds(k) \/ k \in page
                       /\ \A steps : Removes(k, steps)' <=> Removes(k, steps)
  BY <1>1, <1>2 DEF Adds, Removes
<1>4. \A k \in page : k \in live /\ k \in RKeys
  BY <1>t DEF page
<1>5. ASSUME NEW k \in RKeys, PairOf[k] = pair
      PROVE  (QueueInv(k) /\ AloneInv(k) /\ AddsInv(k) /\ LiveInv(k))'
  <2>p. QueueInv(k) /\ AloneInv(k) /\ AddsInv(k) /\ LiveInv(k)
    BY <1>5 DEF Here, PairInv
  <2>1. QueueInv(k)'
    BY <1>1, <1>w, <2>p DEF QueueInv
  <2>2. AloneInv(k)'
    <3>1. ASSUME NEW j \in page, PairOf[j] = pair PROVE ~Removes(k, Removing)
      BY <3>1, <1>1, <1>5, OnItsWay
    <3> QED
      BY <3>1, <1>1, <1>3, <1>5, <2>p DEF AloneInv
  <2>3. AddsInv(k)'
    BY <1>1, <1>3, <1>4, <1>w, <2>p DEF AddsInv
  <2>4. LiveInv(k)'
    <3> SUFFICES ASSUME k \in live PROVE LiveInv(k)'
      BY <1>1 DEF LiveInv
    <3>1. Settled(k) => Settled(k)'
      BY <1>1, <1>3, <1>w DEF Settled
    <3>2. CASE Author(k) # d
      <4>1. /\ bfStage'[Author(k)] = bfStage[Author(k)]
            /\ bfCursor'[Author(k)] = bfCursor[Author(k)]
            /\ bfLast'[Author(k)] = bfLast[Author(k)]
        BY <3>2, <1>1, <1>t, Sides DEF SyncTypeOK
      <4> QED
        BY <4>1, <3>1, <2>p, <1>1 DEF LiveInv
    <3>3. CASE Author(k) = d
      <4>1. /\ bfStage'[d] = "page" /\ bfLast'[d] = (older = page)
            /\ bfCursor'[d] = IF page = {} THEN bfCursor[d] ELSE Oldest(page)
        BY <1>1, <1>t DEF SyncTypeOK
      <4>2. CASE k \in page
        BY <4>2, <1>3, <1>5 DEF LiveInv, Settled
      <4>3. CASE k \in older /\ k \notin page
        <5>1. page # {} /\ k < Oldest(page)
          BY <4>3, <1>t, PageIsNewest DEF page
        <5>2. k < bfCursor'[d] /\ ~bfLast'[d]
          BY <4>1, <4>3, <5>1
        <5> QED
          BY <5>2, <3>1, <3>3, <2>p, <1>1 DEF LiveInv
      <4>4. CASE k \notin older
        <5>1. Settled(k)
          BY <4>4, <3>3, <2>p, <1>1 DEF LiveInv
        <5> QED
          BY <5>1, <3>1 DEF LiveInv
      <4> QED
        BY <4>2, <4>3, <4>4
    <3> QED
      BY <3>2, <3>3
  <2> QED
    BY <2>1, <2>2, <2>3, <2>4
<1>6. StoredInv(pair)'
  <2>1. StoredInv(pair) /\ blocksDB[pair] \in RKeys \cup {NoRKey} /\ blocksByRKey \subseteq RKeys
    BY DEF Here, PairInv, StoreTypeOK
  <2>2. \A k \in RKeys : \A steps : Relevant(k, steps) => Relevant(k, steps)'
    BY <1>w, <1>1, <1>3 DEF Relevant
  <2> QED
    BY <2>1, <2>2, <1>1 DEF StoredInv, At
<1> QED
  BY <1>5, <1>6 DEF PairInv

\* The next record of the page is passed to the store.
LEMMA AddFromPageKeeps ==
    ASSUME NEW d \in DIDs, AddFromPage(d), NEW pair, Here(pair), SyncTypeOK', StoreTypeOK'
    PROVE  PairInv(pair)'
<1>t. SyncTypeOK /\ StoreTypeOK /\ d \in Procs
  BY SyncAssumption DEF Here
<1>k. PICK k0 \in RKeys : k0 = Newest(bfPage[d]) /\ k0 \in bfPage[d]
  BY <1>t, Extremes DEF AddFromPage, SyncTypeOK
<1>1. /\ pc[d] = "idle" /\ pc'[d] = "insert" /\ key'[d] = k0
      /\ \A p \in Procs \ {d} : pc'[p] = pc[p] /\ key'[p] = key[p]
      /\ bfPage'[d] = bfPage[d] \ {k0} /\ \A e \in DIDs \ {d} : bfPage'[e] = bfPage[e]
      /\ UNCHANGED <<blocksDB, blocks, blocksByRKey>>
      /\ UNCHANGED <<live, fresh, pending, hand, unseen, bfStage, bfCursor, bfLast>>
  BY <1>t, <1>k DEF AddFromPage, AddBlock, Begin, network, ghosts, SyncTypeOK, StoreTypeOK
<1>2. ASSUME NEW k \in RKeys PROVE Adds(k)' <=> Adds(k)
  <2>1. (\E p \in Procs : pc'[p] \in Adding /\ key'[p] = k) <=>
        (\E p \in Procs : pc[p] \in Adding /\ key[p] = k) \/ k = k0
    BY <1>1, <1>t DEF Adding
  <2>2. (\E e \in DIDs : k \in bfPage[e]) <=> (\E e \in DIDs : k \in bfPage'[e]) \/ k = k0
    BY <1>1, <1>k
  <2> QED
    BY <2>1, <2>2, <1>1 DEF Adds
<1>3. ASSUME NEW k \in RKeys, NEW steps \in SUBSET Removing
      PROVE  Removes(k, steps)' <=> Removes(k, steps)
  <2>1. (\E p \in Procs : pc'[p] \in steps /\ key'[p] = k) <=>
        (\E p \in Procs : pc[p] \in steps /\ key[p] = k)
    BY <1>1, <1>t DEF Removing
  <2> QED
    BY <2>1, <1>1 DEF Removes
<1>4. {Removing, {"lookup", "delete", "forget"}, {"lookup", "delete"}} \subseteq SUBSET Removing
  BY DEF Removing
<1>5. At(pair, {"unindex"})' \subseteq At(pair, {"unindex"})
  BY <1>1, <1>t DEF At
<1> QED
  BY <1>1, <1>2, <1>3, <1>4, <1>5, NothingMoves

\* A page is done: at the end of the listing every live record of the author is settled.
LEMMA PageDoneKeeps ==
    ASSUME NEW d \in DIDs, PageDone(d), NEW pair, Here(pair), SyncTypeOK', StoreTypeOK'
    PROVE  PairInv(pair)'
<1>t. SyncTypeOK /\ BackfillInv /\ pair \in Pairs /\ pair[1] \in DIDs
  BY SyncAssumption DEF Here
<1>1. /\ UNCHANGED <<live, fresh, pending, hand, bfPage>>
      /\ UNCHANGED <<blocksDB, blocks, blocksByRKey, pc, key>>
      /\ bfStage[d] = "page" /\ bfPage[d] = {}
  BY DEF PageDone, storeVars, network
<1>w. (\A op, k : Waits(op, k)' <=> Waits(op, k)) /\ Queued' = Queued
  BY <1>1 DEF Waits, Queued
<1>2. \A k \in RKeys : /\ Adds(k)' <=> Adds(k)
                       /\ \A steps : Removes(k, steps)' <=> Removes(k, steps)
  BY <1>1 DEF Adds, Removes
<1>3. /\ \A e \in DIDs \ {d} : /\ bfStage'[e] = bfStage[e] /\ bfCursor'[e] = bfCursor[e]
                               /\ bfLast'[e] = bfLast[e]
      /\ \/ bfStage'[d] = "done" /\ unseen' = unseen
         \/ bfStage'[d] = "done" /\ bfLast[d] /\ unseen' = unseen \ PairsBy(d)
         \/ bfStage'[d] = "fetch" /\ bfCursor'[d] = bfCursor[d] /\ unseen' = unseen
  BY <1>t DEF PageDone, EndBackfill, SyncTypeOK
<1>4. ASSUME NEW k \in RKeys, PairOf[k] = pair
      PROVE  (QueueInv(k) /\ AloneInv(k) /\ AddsInv(k) /\ LiveInv(k))'
  <2>p. QueueInv(k) /\ AloneInv(k) /\ AddsInv(k) /\ LiveInv(k)
    BY <1>4 DEF Here, PairInv
  <2>1. QueueInv(k)'
    BY <1>1, <1>w, <2>p DEF QueueInv
  <2>2. AloneInv(k)'
    BY <1>1, <1>2, <2>p DEF AloneInv
  <2>3. AddsInv(k)'
    BY <1>1, <1>2, <1>w, <2>p DEF AddsInv
  <2>4. LiveInv(k)'
    <3>1. Settled(k) => Settled(k)'
      BY <1>1, <1>2, <1>w DEF Settled
    <3>2. CASE Author(k) # d
      <4>1. PairOf[k] \in unseen' <=> PairOf[k] \in unseen
        BY <3>2, <1>3 DEF PairsBy, Author
      <4>2. /\ bfStage'[Author(k)] = bfStage[Author(k)]
            /\ bfCursor'[Author(k)] = bfCursor[Author(k)]
            /\ bfLast'[Author(k)] = bfLast[Author(k)]
        BY <3>2, <1>3, Sides
      <4> QED
        BY <4>1, <4>2, <3>1, <2>p, <1>1 DEF LiveInv
    <3>3. CASE Author(k) = d
      BY <3>1, <3>3, <2>p, <1>1, <1>3 DEF LiveInv
    <3> QED
      BY <3>2, <3>3
  <2> QED
    BY <2>1, <2>2, <2>3, <2>4
<1>5. StoredInv(pair)'
  <2>1. StoredInv(pair) /\ blocksDB[pair] \in RKeys \cup {NoRKey} /\ blocksByRKey \subseteq RKeys
    BY DEF Here, PairInv, StoreTypeOK
  <2>2. \A k \in RKeys : \A steps : Relevant(k, steps) => Relevant(k, steps)'
    BY <1>w, <1>1, <1>2 DEF Relevant
  <2> QED
    BY <2>1, <2>2, <1>1 DEF StoredInv, At
<1> QED
  BY <1>4, <1>5 DEF PairInv

\* A restart loses what was on its way; a pair that had nothing on its way is found
\* again in the rows.
LEMMA RestartKeeps ==
    ASSUME ProcessRestart, NEW pair, Here(pair), pair \notin tainted', SyncTypeOK', StoreTypeOK'
    PROVE  PairInv(pair)'
<1>t. SyncTypeOK /\ StoreTypeOK /\ pair \in Pairs /\ pair[1] \in DIDs
  BY SyncAssumption DEF Here
<1>1. /\ pending' = <<>> /\ UNCHANGED <<live, unseen, blocksDB>>
      /\ blocks' = {q \in Pairs : blocksDB[q] # NoRKey}
      /\ blocksByRKey' = {k \in RKeys : \E q \in Pairs : blocksDB[q] = k}
      /\ \A w \in Workers : hand'[w] = NoCommit
      /\ \A p \in Procs : pc'[p] = "idle"
      /\ \A d \in DIDs : bfPage'[d] = {} /\ bfStage'[d] \in {"done", "off"}
      /\ pair \notin Queued \cup BeingAdded \cup BeingRemoved
  BY DEF ProcessRestart, Restart
<1>2. \A k \in RKeys : /\ ~Adds(k)'
                       /\ \A steps \in SUBSET Removing : ~Removes(k, steps)'
                       /\ \A op : ~Waits(op, k)'
  <2>1. \A steps \in SUBSET Removing : "idle" \notin steps
    BY DEF Removing
  <2> QED
    BY <2>1, <1>1 DEF Adds, Removes, Waits, NoCommit, Adding
<1>3. \A k \in RKeys : PairOf[k] = pair =>
         /\ ~Waits("create", k) /\ ~Waits("delete", k) /\ ~Adds(k)
         /\ \A steps \in SUBSET Removing : ~Removes(k, steps)
  BY <1>1, OnItsWay
<1>4. Removing \in SUBSET Removing /\ {"lookup", "delete"} \in SUBSET Removing
  BY DEF Removing
<1>5. Queued' = {}
  BY <1>1 DEF Queued
<1>6. At(pair, Removing) = {} /\ At(pair, {"forget"}) = {}
  BY <1>1, <1>t DEF BeingRemoved, InStore, At, Removing
<1>7. ASSUME NEW k \in RKeys, PairOf[k] = pair
      PROVE  (QueueInv(k) /\ AloneInv(k) /\ AddsInv(k) /\ LiveInv(k))'
  <2>p. QueueInv(k) /\ AloneInv(k) /\ AddsInv(k) /\ LiveInv(k)
    BY <1>7 DEF Here, PairInv
  <2>1. QueueInv(k)'
    BY <1>1, <1>2, <1>5 DEF QueueInv
  <2>2. AloneInv(k)'
    BY <1>1, <1>2, <2>p DEF AloneInv
  <2>3. AddsInv(k)'
    BY <1>2 DEF AddsInv
  <2>4. LiveInv(k)'
    <3>1. Author(k) \in DIDs
      BY Sides
    <3> SUFFICES ASSUME k \in live, PairOf[k] \notin unseen PROVE Settled(k)'
      BY <3>1, <1>1 DEF LiveInv
    <3>2. pair \in blocks
      BY <1>3, <1>7, <2>p DEF LiveInv, Settled
    <3>3. pair \in blocks'
      BY <3>2, <1>1, <1>6, <1>t DEF Here, BlockMirrorAt
    <3> QED
      BY <3>3, <1>2, <1>4, <1>5, <1>7 DEF Settled
  <2> QED
    BY <2>1, <2>2, <2>3, <2>4
<1>8. StoredInv(pair)'
  <2>1. blocksDB[pair] # NoRKey =>
           blocksDB[pair] \in RKeys /\ PairOf[blocksDB[pair]] = pair /\ blocksDB[pair] \in live
    BY <1>3, <1>4, <1>t DEF Here, PairInv, StoredInv, Relevant, StoreTypeOK
  <2>2. pair \in blocks' => blocksDB[pair] # NoRKey /\ blocksDB[pair] \in blocksByRKey'
    BY <2>1, <1>1, <1>t
  <2>3. At(pair, {"unindex"})' = {}
    BY <1>1 DEF At
  <2> QED
    BY <2>1, <2>2, <2>3, <1>1 DEF StoredInv, Relevant
<1> QED
  BY <1>7, <1>8 DEF PairInv

-----------------------------------------------------------------------------
\* One step keeps the invariant of every pair that stays free of the causes.
LEMMA SyncStep == SyncInv /\ [Next]_vars => SyncInv'
<1> SUFFICES ASSUME SyncInv, [Next]_vars PROVE SyncInv'
  OBVIOUS
<1>t. /\ SyncTypeOK /\ BackfillInv /\ FeedInv /\ BInv
      /\ SyncTypeOK' /\ BackfillInv' /\ FeedInv' /\ BInv'
  BY SyncTypeStep, BackfillStep, FeedStep, StepOfStore, BlockMirrorStep DEF SyncInv
<1> SUFFICES ASSUME NEW pair \in Good' PROVE PairInv(pair)'
  BY <1>t DEF SyncInv
<1>g. pair \in Pairs /\ pair \notin tainted' /\ pair \notin disturbed'
  BY DEF Good
<1>1. pair \notin tainted /\ pair \notin disturbed
  <2>1. CASE ProcessRestart
    BY <2>1, <1>g DEF ProcessRestart
  <2>2. CASE ~ProcessRestart
    <3>1. tainted \subseteq tainted'
      BY <2>2 DEF Next, vars, ghosts, CreateRecord, DeleteRecord, Publish, Miss, Connect, Break, Take, HandleCreate,
         HandleDelete, StoreStep, StoreFails, Register, Unregister, Claim, FetchPage,
         FetchFails, AddFromPage, PageDone
    <3>2. disturbed \subseteq disturbed'
      <4>1. ASSUME NEW p, Continue(p) \/ StoreError(p) PROVE disturbed' = disturbed
        BY <4>1 DEF Continue, StoreError, InsertBlock, RememberBlock, Lookup, DeleteBlock,
           ForgetBlock, UnindexBlock
      <4>2. ASSUME NEW p, NEW k, AddBlock(p, k) \/ RemoveBlockByRKey(p, k)
            PROVE  disturbed \subseteq disturbed'
        BY <4>2 DEF AddBlock, RemoveBlockByRKey, Begin
      <4>3. \/ UNCHANGED storeVars
            \/ \E p : Continue(p) \/ StoreError(p)
            \/ \E p, k : AddBlock(p, k) \/ RemoveBlockByRKey(p, k)
        BY <2>2 DEF Next, vars, CreateRecord, DeleteRecord, Connect, Break, Take, HandleCreate, HandleDelete,
           StoreStep, StoreFails, Register, Unregister, Claim, FetchPage, FetchFails,
           AddFromPage, PageDone
      <4> QED
        BY <4>1, <4>2, <4>3 DEF storeVars
    <3> QED
      BY <3>1, <3>2, <1>g
  <2> QED
    BY <2>1, <2>2
<1>h. Here(pair) /\ SyncTypeOK' /\ StoreTypeOK'
  BY <1>t, <1>g, <1>1 DEF Here, SyncInv, Good, BInv, BlockMirrorInv
<1>2. ASSUME NEW k \in RKeys, CreateRecord(k) \/ DeleteRecord(k) PROVE PairInv(pair)'
  BY <1>2, <1>g, <1>h, CreateRecordKeeps, DeleteRecordKeeps
<1>3. ASSUME NEW w \in Workers, Take(w) \/ HandleCreate(w) \/ HandleDelete(w)
      PROVE  PairInv(pair)'
  BY <1>3, <1>g, <1>h, TakeKeeps, HandleCreateKeeps, HandleDeleteKeeps
<1>4. ASSUME NEW p \in Procs, StoreStep(p) \/ StoreFails(p) PROVE PairInv(pair)'
  BY <1>4, <1>g, <1>h, StoreStepKeeps
<1>5. ASSUME NEW d \in DIDs,
             \/ Register(d) \/ Unregister(d) \/ Claim(d)
             \/ FetchPage(d) \/ FetchFails(d) \/ AddFromPage(d) \/ PageDone(d)
      PROVE  PairInv(pair)'
  BY <1>5, <1>g, <1>h, AccountKeeps, FetchPageKeeps, AddFromPageKeeps, PageDoneKeeps
<1>6. CASE ProcessRestart
  BY <1>6, <1>g, <1>h, RestartKeeps
<1>7. CASE UNCHANGED vars \/ Connect \/ Break
  <2>1. /\ UNCHANGED <<live, fresh, pending, hand, unseen, bfStage, bfCursor, bfPage, bfLast>>
        /\ UNCHANGED <<blocksDB, blocks, blocksByRKey, pc, key>>
    BY <1>7 DEF vars, storeVars, network, backfill, ghosts, Connect, Break
  <2>2. \A k \in RKeys : /\ Adds(k)' <=> Adds(k)
                         /\ \A steps : Removes(k, steps)' <=> Removes(k, steps)
    BY <2>1 DEF Adds, Removes
  <2> QED
    BY <2>1, <2>2, <1>h, NothingMoves DEF At
<1> QED
  BY <1>2, <1>3, <1>4, <1>5, <1>6, <1>7 DEF Next

\* At the start nothing was seen, and a pair with two records is tainted.
LEMMA SyncInit == Init => SyncInv
<1> SUFFICES ASSUME Init PROVE SyncInv
  OBVIOUS
<1>1. BInv
  BY StoreTypeInit DEF Init, StoreInit, BInv, BlockMirrorInv, BlockMirrorAt, At, Adding, Removing
<1>2. SyncTypeOK /\ BackfillInv /\ FeedInv
  BY DEF Init, SyncTypeOK, BackfillInv, FeedInv
<1>3. ASSUME NEW k \in RKeys PROVE ~Adds(k) /\ \A op : ~Waits(op, k)
  BY DEF Init, StoreInit, Adds, Waits, NoCommit, Adding
<1>4. ASSUME NEW pair \in Good PROVE PairInv(pair)
  <2>1. StoredInv(pair)
    BY <1>4 DEF Good, Init, StoreInit, StoredInv, At
  <2>2. ASSUME NEW k \in RKeys, PairOf[k] = pair
        PROVE  QueueInv(k) /\ AloneInv(k) /\ AddsInv(k) /\ LiveInv(k)
    <3>1. QueueInv(k)
      BY <1>3 DEF Init, QueueInv, Queued
    <3>2. AloneInv(k)
      BY <1>3, <1>4, <2>2 DEF Good, Init, AloneInv
    <3>3. LiveInv(k)
      <4>1. Author(k) \in DIDs
        BY Sides
      <4> QED
        BY <4>1 DEF Init, LiveInv, LivePairs
    <3> QED
      BY <3>1, <3>2, <3>3, <1>3 DEF AddsInv
  <2> QED
    BY <2>1, <2>2 DEF PairInv
<1> QED
  BY <1>1, <1>2, <1>4 DEF SyncInv

LEMMA SyncInvariant == Spec => []SyncInv
  BY SyncInit, SyncStep, PTL DEF Spec

\* Every reachable state of the whole synchronisation leaves the store well typed.
THEOREM SyncStoreTypeCorrect == Spec => []StoreTypeOK
<1>1. SyncInv => StoreTypeOK
  BY DEF SyncInv, BInv
<1> QED
  BY <1>1, SyncInvariant, PTL

\* The workers, the backfills and the restarts use the store as its own
\* specification says: what is proved of the store holds of the gateway.
THEOREM SyncRefinesStore == Spec => StoreSpec
<1>1. Init => StoreInit
  BY DEF Init
<1>2. SyncInv => SyncTypeOK
  BY DEF SyncInv
<1> QED
  BY <1>1, <1>2, StepOfStore, SyncInvariant, PTL DEF Spec, StoreSpec

\* For every number of accounts, records and workers: between the calls on a pair,
\* memory and table agree, whatever the firehose and the backfills do.
THEOREM SyncMirrorKept == Spec => []BlockMirrorExact
  BY SyncRefinesStore, BlockMirrorKept, PTL

\* The block graph is the network's: unless one of the listed causes touched the
\* pair, and when nothing of it is on its way, the mirror holds it exactly when a
\* record of it exists.
THEOREM SyncIsExact == Spec => []SyncExact
<1>1. SyncInv => SyncExact
  <2> SUFFICES ASSUME SyncInv, NEW pair \in Pairs \ (tainted \cup disturbed \cup unseen),
                      Quiet(pair)
               PROVE  pair \in blocks <=> pair \in LivePairs
    BY DEF SyncExact
  <2>1. PairInv(pair)
    BY DEF SyncInv, Good
  <2>2. \A k \in RKeys : PairOf[k] = pair =>
           /\ ~Waits("create", k) /\ ~Waits("delete", k) /\ ~Adds(k)
           /\ ~Removes(k, {"lookup", "delete", "forget"})
    <3>1. {"lookup", "delete", "forget"} \in SUBSET Removing
      BY DEF Removing
    <3> QED
      BY <3>1, OnItsWay DEF Quiet
  <2>3. pair \in blocks => pair \in LivePairs
    BY <2>1, <2>2 DEF PairInv, StoredInv, Relevant, LivePairs, SyncInv, BInv, StoreTypeOK
  <2>4. pair \in LivePairs => pair \in blocks
    BY <2>1, <2>2 DEF PairInv, LiveInv, Settled, LivePairs, SyncInv, SyncTypeOK
  <2> QED
    BY <2>3, <2>4
<1> QED
  BY <1>1, SyncInvariant, PTL

\* Nobody is taken for blocked who is not, the creations nobody saw included.
THEOREM NoPhantom == Spec => []NoPhantomUnlessTainted
<1>1. SyncInv => NoPhantomUnlessTainted
  <2> SUFFICES ASSUME SyncInv, NEW pair \in Pairs \ (tainted \cup disturbed),
                      Quiet(pair), pair \in blocks
               PROVE  pair \in LivePairs
    BY DEF NoPhantomUnlessTainted
  <2>1. PairInv(pair)
    BY DEF SyncInv, Good
  <2>2. \A k \in RKeys : PairOf[k] = pair =>
           ~Waits("delete", k) /\ ~Removes(k, {"lookup", "delete", "forget"})
    <3>1. {"lookup", "delete", "forget"} \in SUBSET Removing
      BY DEF Removing
    <3> QED
      BY <3>1, OnItsWay DEF Quiet
  <2> QED
    BY <2>1, <2>2 DEF PairInv, StoredInv, Relevant, LivePairs, SyncInv, BInv, StoreTypeOK
<1> QED
  BY <1>1, SyncInvariant, PTL
=============================================================================
