------------------------------ MODULE BlockSync ------------------------------
(***************************************************************************)
(* How the block graph follows the network: block records are created and  *)
(* deleted in the authors' repositories; once connected, the firehose      *)
(* delivers their commits through the bounded queue to concurrent dispatch *)
(* workers (internal/jetstream); the first registration of a DID backfills *)
(* its historical blocks page by page (internal/xrpc/blocks.go); both      *)
(* write the BlockStore step by step, and the process may restart.         *)
(*                                                                         *)
(* The consumer dials after the first registration, without a cursor: what *)
(* is committed before the connection, or after the end of the process, is *)
(* never delivered.  Once an event came, a reconnect resumes behind it.    *)
(*                                                                         *)
(* Record keys are numbers: they are timestamps, so a later record has a   *)
(* larger key, and a listing goes from the newest to the oldest.           *)
(***************************************************************************)
EXTENDS BlockStore, Sequences, FiniteSets

CONSTANTS DIDs,      \* the two sides of Pairs
          Workers,   \* dispatch workers; a backfill is the goroutine of its DID
          QueueCap,  \* capacity of commitCh
          PageSize,  \* records in a page of the listing, 100 in the code
          MaxPages,  \* maxPages, 20 in the code
          Leavers,   \* DIDs that may unregister their last token in a run
          Faults     \* what may go wrong in a run

FaultKinds == {"drop", "restart", "storeError", "fetchError"}

ASSUME SyncAssumption == /\ RKeys \subseteq Nat \ {0}
                         /\ RKeys # {} /\ IsFiniteSet(RKeys)
                         /\ PageSize \in Nat \ {0}
                         /\ Pairs \subseteq DIDs \X DIDs
                         /\ Procs = Workers \cup DIDs
                         /\ Leavers \subseteq DIDs
                         /\ Faults \subseteq FaultKinds

VARIABLES
    live,        \* external: the block records that exist
    fresh,       \* external: the keys not used yet
    link,        \* "none": not connected, no cursor; "open": connected, no cursor yet
    started,     \* startCh is closed
    pending,     \* commitCh
    hand,        \* the commit each worker took, until it calls the store
    registered,  \* registeredDIDs
    claims,      \* DIDs whose registration is about to claim the backfill
    marked,      \* blocks_backfilled
    bfStage,     \* the backfill of each DID
    bfCursor,    \* its listing cursor: keys below it are still to come
    bfPage,      \* the records of the fetched page not yet added
    bfLast,      \* the page came without a cursor
    bfPages,     \* pages fetched
    unseen,      \* auxiliary: pairs whose last creation the gateway did not see
    missed,      \* auxiliary: pairs with a commit nobody delivered
    tainted      \* auxiliary: pairs with one of the causes of divergence listed below

network  == <<live, fresh, link, missed>>
accounts == <<registered, claims, marked, started>>
backfill == <<bfStage, bfCursor, bfPage, bfLast, bfPages>>
ghosts   == <<unseen, tainted>>
vars == <<storeVars, network, pending, hand, accounts, backfill, ghosts>>

Commit   == [op : {"create", "delete"}, key : RKeys]
NoCommit == [op |-> "none", key |-> NoRKey]

Author(k)  == PairOf[k][1]
Subject(k) == PairOf[k][2]
PairsBy(d) == {pair \in Pairs : pair[1] = d}
LivePairs  == {PairOf[k] : k \in live}

Newest(S) == CHOOSE k \in S : \A j \in S : j <= k
Oldest(S) == CHOOSE k \in S : \A j \in S : k <= j

\* Pairs with a commit of kind op in a worker's hand.
Held(op) == {PairOf[hand[w].key] : w \in {v \in Workers : hand[v].op = op}}
Paged    == {PairOf[k] : k \in UNION {bfPage[d] : d \in DIDs}}
InStore(steps)  == {PairOf[key[p]] : p \in {q \in Procs : pc[q] \in steps}}
BeingAdded   == Held("create") \cup Paged \cup InStore(Adding)
BeingRemoved == Held("delete") \cup InStore(Removing)
Queued == {PairOf[pending[i].key] : i \in 1..Len(pending)}

\* The gateway has a trace of a block of the pair.
Traced(pair) == pair \in blocks \cup Queued \cup BeingAdded \/ blocksDB[pair] # NoRKey

\* The listing of the author's records runs and does not reach record k any more.
Passed(k) == \/ bfStage[Author(k)] = "page"
             \/ bfStage[Author(k)] = "fetch" /\ k >= bfCursor[Author(k)]

-----------------------------------------------------------------------------
Init ==
    /\ StoreInit
    /\ live \in SUBSET RKeys
    /\ fresh = {k \in RKeys : \A j \in live : k > j}
    /\ link = "none" /\ started = FALSE
    /\ pending = <<>> /\ hand = [w \in Workers |-> NoCommit]
    /\ registered = {} /\ claims = {} /\ marked = {}
    /\ bfStage = [d \in DIDs |-> "off"] /\ bfCursor = [d \in DIDs |-> 0]
    /\ bfPage = [d \in DIDs |-> {}] /\ bfLast = [d \in DIDs |-> FALSE]
    /\ bfPages = [d \in DIDs |-> 0]
    /\ unseen = LivePairs /\ missed = {}
    /\ tainted = {PairOf[k] : k \in {j \in live : \E i \in live \ {j} : PairOf[i] = PairOf[j]}}

\* The connection delivers a commit: it reaches the queue, or is dropped when it is full.
Publish(op, k, taint) ==
    /\ link # "none" /\ link' = "cursor"
    /\ \/ /\ Len(pending) < QueueCap
          /\ pending' = Append(pending, [op |-> op, key |-> k])
          /\ tainted' = tainted \cup taint
       \/ /\ "drop" \in Faults /\ Len(pending) = QueueCap
          /\ tainted' = tainted \cup {PairOf[k]}
          /\ UNCHANGED pending
    /\ UNCHANGED <<unseen, missed>>

\* The commit precedes the connection, which will start without a cursor: nobody
\* delivers it.  A create that a listing does not find later either is a cause, and so
\* is a delete of what the gateway knows.
Miss(k, isCause) ==
    /\ link = "none"
    /\ missed' = missed \cup {PairOf[k]}
    /\ tainted' = tainted \cup (IF isCause THEN {PairOf[k]} ELSE {})
    /\ UNCHANGED <<link, pending>>

\* A user blocks; a second record of a pair that is blocked already is a cause.
CreateRecord(k) ==
    /\ k \in fresh
    /\ live' = live \cup {k} /\ fresh' = {j \in fresh : j > k}
    /\ \/ Publish("create", k, {PairOf[k]} \cap LivePairs)
       \/ /\ Miss(k, PairOf[k] \in LivePairs \/ Passed(k))
          /\ unseen' = unseen \cup {PairOf[k]}
    /\ UNCHANGED <<storeVars, hand, accounts, backfill>>

\* A user unblocks.
DeleteRecord(k) ==
    /\ k \in live
    /\ live' = live \ {k} /\ UNCHANGED fresh
    /\ \/ Publish("delete", k, {})
       \/ Miss(k, Traced(PairOf[k])) /\ UNCHANGED unseen
    /\ UNCHANGED <<storeVars, hand, accounts, backfill>>

\* connect: the consumer waits for startCh; with no cursor it sees what comes from now on.
Connect ==
    /\ started /\ link = "none"
    /\ link' = "open"
    /\ UNCHANGED <<storeVars, live, fresh, missed, pending, hand, accounts, backfill, ghosts>>

\* The connection ends before an event came (later ones resume at the cursor, and nothing
\* is lost but the time).
Break ==
    /\ link = "open"
    /\ link' = "none"
    /\ UNCHANGED <<storeVars, live, fresh, missed, pending, hand, accounts, backfill, ghosts>>

-----------------------------------------------------------------------------
\* dispatchWorker: the next commit.  An add and a remove of one pair in the hands
\* of two goroutines are a cause: nothing orders their calls.
Take(w) ==
    LET c == Head(pending)
        opposed == IF c.op = "create" THEN BeingRemoved ELSE BeingAdded
    IN /\ pc[w] = "idle" /\ hand[w] = NoCommit /\ pending # <<>>
       /\ hand' = [hand EXCEPT ![w] = c]
       /\ pending' = Tail(pending)
       /\ tainted' = tainted \cup ({PairOf[c.key]} \cap opposed)
       /\ UNCHANGED <<storeVars, network, accounts, backfill, unseen>>

\* handleBlockCreate: only if either side is registered, else the block is missed.
HandleCreateMutAuthorOnly(w) ==
    LET k == hand[w].key IN
    /\ hand[w].op = "create"
    /\ hand' = [hand EXCEPT ![w] = NoCommit]
    /\ IF Author(k) \in registered
          THEN /\ AddBlock(w, k)
               /\ unseen' = unseen \ {PairOf[k]} /\ UNCHANGED tainted
          ELSE /\ unseen' = IF Subject(k) \in registered THEN unseen
                                                         ELSE unseen \cup {PairOf[k]}
               /\ UNCHANGED <<storeVars, tainted>>
    /\ UNCHANGED <<network, pending, accounts, backfill>>
HandleCreate(w) ==
    LET k == hand[w].key IN
    /\ hand[w].op = "create"
    /\ hand' = [hand EXCEPT ![w] = NoCommit]
    /\ \/ /\ {Author(k), Subject(k)} \cap registered # {}
          /\ AddBlock(w, k)
          /\ unseen' = unseen \ {PairOf[k]}
          /\ UNCHANGED tainted
       \/ /\ {Author(k), Subject(k)} \cap registered = {}
          /\ unseen' = unseen \cup {PairOf[k]}
          /\ tainted' = tainted \cup (IF Passed(k) THEN {PairOf[k]} ELSE {})
          /\ UNCHANGED storeVars
    /\ UNCHANGED <<network, pending, accounts, backfill>>

\* handleBlockDelete: whoever is registered.
HandleDeleteMutGated(w) ==
    LET k == hand[w].key IN
    /\ hand[w].op = "delete"
    /\ hand' = [hand EXCEPT ![w] = NoCommit]
    /\ \/ /\ {Author(k), Subject(k)} \cap registered # {}
          /\ RemoveBlockByRKey(w, k)
       \/ /\ {Author(k), Subject(k)} \cap registered = {}
          /\ UNCHANGED storeVars
    /\ UNCHANGED <<network, pending, accounts, backfill, ghosts>>
HandleDelete(w) ==
    /\ hand[w].op = "delete"
    /\ hand' = [hand EXCEPT ![w] = NoCommit]
    /\ RemoveBlockByRKey(w, hand[w].key)
    /\ UNCHANGED <<network, pending, accounts, backfill, ghosts>>

\* A worker or a backfill goes on inside the store.
StoreStep(p) ==
    /\ Continue(p)
    /\ UNCHANGED <<network, pending, hand, accounts, backfill, ghosts>>

\* A SQL error: the callers log it and go on with their next commit or record.
StoreFails(p) ==
    /\ "storeError" \in Faults
    /\ StoreError(p)
    /\ tainted' = tainted \cup {PairOf[key[p]]}
    /\ UNCHANGED <<network, pending, hand, accounts, backfill, unseen>>

-----------------------------------------------------------------------------
\* RegisterToken of handleRegisterPush; the backfill is claimed right after it, and the
\* consumer told then (the claim of a DID that is marked would do nothing).
Register(d) ==
    /\ d \notin claims
    /\ registered' = registered \cup {d}
    /\ claims' = claims \cup ({d} \ marked)
    /\ started' = (started \/ d \in marked)
    /\ UNCHANGED <<storeVars, network, pending, hand, marked, backfill, ghosts>>

\* The DID's last token is unregistered.
Unregister(d) ==
    /\ d \in registered \cap Leavers
    /\ registered' = registered \ {d}
    /\ UNCHANGED <<storeVars, network, pending, hand, claims, marked, started, backfill, ghosts>>

\* maybeStartBlocksBackfill: the mark is tested and written before the listing; if
\* writing it fails, the next registration claims again.  NotifyTokenRegistered follows.
Claim(d) ==
    /\ d \in claims
    /\ claims' = claims \ {d} /\ started' = TRUE
    /\ \/ /\ marked' = marked \cup {d}
          /\ bfStage' = [bfStage EXCEPT ![d] = "fetch"]
          /\ bfCursor' = [bfCursor EXCEPT ![d] = Newest(RKeys) + 1]
          /\ UNCHANGED <<bfPage, bfLast, bfPages>>
       \/ /\ "storeError" \in Faults
          /\ UNCHANGED <<marked, backfill>>
    /\ UNCHANGED <<storeVars, network, pending, hand, registered, ghosts>>

\* backfillBlocks returns, and its locals are gone.
EndBackfill(d) ==
    /\ bfStage'  = [bfStage EXCEPT ![d] = "done"]
    /\ bfCursor' = [bfCursor EXCEPT ![d] = 0]
    /\ bfLast'   = [bfLast EXCEPT ![d] = FALSE]
    /\ bfPages'  = [bfPages EXCEPT ![d] = 0]

\* backfillBlocks: one page of the listing, newest first.  Records the worker is
\* about to remove may still be on it.
FetchPage(d) ==
    LET older == {k \in live : Author(k) = d /\ k < bfCursor[d]}
        page  == {k \in older : Cardinality({j \in older : j > k}) < PageSize}
    IN /\ bfStage[d] = "fetch"
       /\ bfStage'  = [bfStage EXCEPT ![d] = "page"]
       /\ bfPage'   = [bfPage EXCEPT ![d] = page]
       /\ bfLast'   = [bfLast EXCEPT ![d] = older = page]
       /\ bfPages'  = [bfPages EXCEPT ![d] = @ + 1]
       /\ bfCursor' = [bfCursor EXCEPT ![d] = IF page = {} THEN @ ELSE Oldest(page)]
       /\ tainted'  = tainted \cup ({PairOf[k] : k \in page} \cap BeingRemoved)
       /\ UNCHANGED <<storeVars, network, pending, hand, accounts, unseen>>

\* backfillBlocks: the request or its answer is unusable; there is no retry.
FetchFails(d) ==
    /\ "fetchError" \in Faults
    /\ bfStage[d] = "fetch"
    /\ EndBackfill(d)
    /\ UNCHANGED <<storeVars, network, pending, hand, accounts, bfPage, ghosts>>

\* backfillBlocks: the next record of the page.
AddFromPage(d) ==
    /\ bfStage[d] = "page" /\ bfPage[d] # {}
    /\ AddBlock(d, Newest(bfPage[d]))
    /\ bfPage' = [bfPage EXCEPT ![d] = @ \ {Newest(@)}]
    /\ UNCHANGED <<network, pending, hand, accounts, bfStage, bfCursor, bfLast, bfPages, ghosts>>

\* backfillBlocks: the page is done; stop at the end of the listing or at maxPages.
PageDone(d) ==
    /\ bfStage[d] = "page" /\ bfPage[d] = {} /\ pc[d] = "idle"
    /\ \/ /\ bfLast[d]
          /\ EndBackfill(d)
          /\ unseen' = unseen \ PairsBy(d)
       \/ /\ ~bfLast[d] /\ bfPages[d] >= MaxPages
          /\ EndBackfill(d)
          /\ UNCHANGED unseen
       \/ /\ ~bfLast[d] /\ bfPages[d] < MaxPages
          /\ bfStage' = [bfStage EXCEPT ![d] = "fetch"]
          /\ UNCHANGED <<bfCursor, bfLast, bfPages, unseen>>
    /\ UNCHANGED <<storeVars, network, pending, hand, accounts, bfPage, tainted>>

-----------------------------------------------------------------------------
\* The process ends and starts again: connection and cursor, queue, hands and backfills are
\* gone, rows and marks stay.  It is down, and then waits for a connection, as long as
\* nothing else happens but on the network.
ProcessRestart ==
    /\ "restart" \in Faults
    /\ Restart
    /\ pending' = <<>> /\ hand' = [w \in Workers |-> NoCommit]
    /\ claims' = {} /\ started' = (registered # {}) /\ link' = "none"
    /\ bfStage' = [d \in DIDs |-> IF d \in marked THEN "done" ELSE "off"]
    /\ bfCursor' = [d \in DIDs |-> 0]
    /\ bfPage' = [d \in DIDs |-> {}]
    /\ bfLast' = [d \in DIDs |-> FALSE]
    /\ bfPages' = [d \in DIDs |-> 0]
    /\ tainted' = tainted \cup disturbed \cup Queued \cup BeingAdded \cup BeingRemoved
    /\ UNCHANGED <<live, fresh, missed, registered, marked, unseen>>

Next ==
    \/ \E k \in RKeys : CreateRecord(k) \/ DeleteRecord(k)
    \/ Connect \/ Break
    \/ \E w \in Workers : Take(w) \/ HandleCreate(w) \/ HandleDelete(w)
    \/ \E p \in Procs : StoreStep(p) \/ StoreFails(p)
    \/ \E d \in DIDs : \/ Register(d) \/ Unregister(d) \/ Claim(d)
                       \/ FetchPage(d) \/ FetchFails(d) \/ AddFromPage(d) \/ PageDone(d)
    \/ ProcessRestart

Spec == Init /\ [][Next]_vars

-----------------------------------------------------------------------------
\* Nothing about the pair is on its way through the gateway.
Quiet(pair) == pair \notin Queued \cup BeingAdded \cup BeingRemoved

\* The block graph is the network's: for a pair with nothing on its way, the mirror
\* holds the block exactly when a record of it exists.  The causes of divergence
\* are the ones in the ghosts and no other: the last creation was not seen (unregistered
\* on both sides, no connection yet, or the process down, and no listing that reaches
\* it), a block that is known was deleted meanwhile, a second record of the pair, an add
\* and a remove in two goroutines at once, a dropped commit, a failed statement, a restart
\* with work in hand.
SyncExact ==
    \A pair \in Pairs \ (tainted \cup disturbed \cup unseen) :
        Quiet(pair) => (pair \in blocks <=> pair \in LivePairs)

\* Nobody is taken for blocked who is not: apart from the causes other than unseen
\* creations, a pair in the mirror with nothing on its way has a record.
NoPhantomUnlessTainted ==
    \A pair \in Pairs \ (tainted \cup disturbed) :
        Quiet(pair) /\ pair \in blocks => pair \in LivePairs

\* "expected block to be removed after delete" (TestHandleCommit_BlockCreateAndDelete):
\* once a delivered delete of the pair's record went through, nobody is taken for blocked,
\* for a pair that is known by its events alone (the author has no listing).
UnblockTakesEffect ==
    \A pair \in Pairs \ missed :
        pair[1] \notin marked /\ Quiet(pair) /\ pair \in blocks => pair \in LivePairs
=============================================================================
