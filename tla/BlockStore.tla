----------------------------- MODULE BlockStore -----------------------------
(***************************************************************************)
(* The block half of internal/store: the blocks table in SQLite, its       *)
(* in-memory mirror, and the rkey index that turns the delete event of a   *)
(* record back into a pair.  AddBlock and RemoveBlockByRKey change them in *)
(* separate steps and are called by the dispatch workers and by the        *)
(* backfill of the XRPC handler.                                           *)
(*                                                                         *)
(* A record key belongs to one record, hence to one (blocker, blocked)     *)
(* pair: the code keys all three structures by blocker, so keys of         *)
(* different blockers never meet.  Keys are not empty, as in the network.  *)
(***************************************************************************)
EXTENDS Naturals

CONSTANTS Pairs,    \* (blocker, blocked) pairs
          RKeys,    \* record keys of block records
          PairOf,   \* the pair each record is about
          NoRKey,   \* the absence of a row
          Procs     \* goroutines that may be inside the store

ASSUME PairAssumption   == PairOf \in [RKeys -> Pairs]
ASSUME NoRKeyAssumption == NoRKey \notin RKeys

VARIABLES
    blocksDB,      \* blocks: the rkey of each pair's row, or NoRKey
    blocks,        \* s.blocks, the pairs IsBlocked knows
    blocksByRKey,  \* s.blocksByRKey, the keys that lead to their pair
    pc,            \* the next step of each goroutine
    key,           \* the record each goroutine's call is about
    disturbed      \* auxiliary: pairs an add and a remove overlapped on

storeVars == <<blocksDB, blocks, blocksByRKey, pc, key, disturbed>>

Adding   == {"insert", "remember"}
Removing == {"lookup", "delete", "forget", "unindex"}

At(pair, steps) == {p \in Procs : pc[p] \in steps /\ PairOf[key[p]] = pair}

\* Store.IsBlocked: either direction.
IsBlocked(a, b) == <<a, b>> \in blocks \/ <<b, a>> \in blocks

-----------------------------------------------------------------------------
StoreInit ==
    /\ blocksDB = [pair \in Pairs |-> NoRKey]
    /\ blocks = {} /\ blocksByRKey = {}
    /\ pc  = [p \in Procs |-> "idle"]
    /\ key = [p \in Procs |-> NoRKey]
    /\ disturbed = {}

Return(p) ==
    /\ pc'  = [pc EXCEPT ![p] = "idle"]
    /\ key' = [key EXCEPT ![p] = NoRKey]

Begin(p, k, step, others) ==
    /\ pc[p] = "idle"
    /\ pc'  = [pc EXCEPT ![p] = step]
    /\ key' = [key EXCEPT ![p] = k]
    /\ disturbed' = IF At(PairOf[k], others) = {} THEN disturbed
                                                  ELSE disturbed \cup {PairOf[k]}
    /\ UNCHANGED <<blocksDB, blocks, blocksByRKey>>

AddBlock(p, k)          == Begin(p, k, "insert", Removing)
RemoveBlockByRKey(p, k) == Begin(p, k, "lookup", Adding)

\* AddBlock: INSERT OR IGNORE keeps the key of a row that is there already.
InsertBlock(p) ==
    LET pair == PairOf[key[p]] IN
    /\ pc[p] = "insert"
    /\ blocksDB' = [blocksDB EXCEPT ![pair] = IF @ = NoRKey THEN key[p] ELSE @]
    /\ pc' = [pc EXCEPT ![p] = "remember"]
    /\ UNCHANGED <<blocks, blocksByRKey, key, disturbed>>

\* AddBlock: the mirror and the index, in one critical section.
RememberBlock(p) ==
    /\ pc[p] = "remember"
    /\ blocks' = blocks \cup {PairOf[key[p]]}
    /\ blocksByRKey' = blocksByRKey \cup {key[p]}
    /\ Return(p)
    /\ UNCHANGED <<blocksDB, disturbed>>

\* RemoveBlockByRKey: the index under the read lock; an unknown key is not an error.
Lookup(p) ==
    /\ pc[p] = "lookup"
    /\ \/ /\ key[p] \in blocksByRKey
          /\ pc' = [pc EXCEPT ![p] = "delete"]
          /\ UNCHANGED key
       \/ /\ key[p] \notin blocksByRKey
          /\ Return(p)
    /\ UNCHANGED <<blocksDB, blocks, blocksByRKey, disturbed>>

\* RemoveBlock: DELETE by pair, whatever key the row carries.
DeleteBlock(p) ==
    /\ pc[p] = "delete"
    /\ blocksDB' = [blocksDB EXCEPT ![PairOf[key[p]]] = NoRKey]
    /\ pc' = [pc EXCEPT ![p] = "forget"]
    /\ UNCHANGED <<blocks, blocksByRKey, key, disturbed>>

\* RemoveBlock: the mirror.
ForgetBlock(p) ==
    /\ pc[p] = "forget"
    /\ blocks' = blocks \ {PairOf[key[p]]}
    /\ pc' = [pc EXCEPT ![p] = "unindex"]
    /\ UNCHANGED <<blocksDB, blocksByRKey, key, disturbed>>

\* RemoveBlockByRKey: the key leaves the index.
UnindexBlock(p) ==
    /\ pc[p] = "unindex"
    /\ blocksByRKey' = blocksByRKey \ {key[p]}
    /\ Return(p)
    /\ UNCHANGED <<blocksDB, blocks, disturbed>>

\* The SQL statement of either call fails and the call returns its error.
StoreErrorMutGhost(p) ==
    /\ pc[p] \in {"insert", "delete"}
    /\ pc' = [pc EXCEPT ![p] = "idle"]
    /\ UNCHANGED <<blocksDB, blocks, blocksByRKey, key, disturbed>>
StoreError(p) ==
    /\ pc[p] \in {"insert", "delete"}
    /\ Return(p)
    /\ UNCHANGED <<blocksDB, blocks, blocksByRKey, disturbed>>

\* The process ends; New rebuilds the mirror and the index from the rows.
RestartMutNoIndex ==
    /\ blocks' = {pair \in Pairs : blocksDB[pair] # NoRKey}
    /\ blocksByRKey' = {}
    /\ pc'  = [p \in Procs |-> "idle"]
    /\ key' = [p \in Procs |-> NoRKey]
    /\ disturbed' = {}
    /\ UNCHANGED blocksDB
Restart ==
    /\ blocks' = {pair \in Pairs : blocksDB[pair] # NoRKey}
    /\ blocksByRKey' = {k \in RKeys : \E pair \in Pairs : blocksDB[pair] = k}
    /\ pc'  = [p \in Procs |-> "idle"]
    /\ key' = [p \in Procs |-> NoRKey]
    /\ disturbed' = {}
    /\ UNCHANGED blocksDB

Continue(p) ==
    \/ InsertBlock(p) \/ RememberBlock(p)
    \/ Lookup(p) \/ DeleteBlock(p) \/ ForgetBlock(p) \/ UnindexBlock(p)

StoreNext ==
    \/ \E p \in Procs : \/ \E k \in RKeys : AddBlock(p, k) \/ RemoveBlockByRKey(p, k)
                        \/ Continue(p) \/ StoreError(p)
    \/ Restart

StoreSpec == StoreInit /\ [][StoreNext]_storeVars

-----------------------------------------------------------------------------
\* The state has its types, the index leads a key to no other pair than its
\* record's, and a goroutine outside the store holds no record.
StoreTypeOK ==
    /\ blocksDB \in [Pairs -> RKeys \cup {NoRKey}]
    /\ \A pair \in Pairs : blocksDB[pair] # NoRKey => PairOf[blocksDB[pair]] = pair
    /\ blocks \subseteq Pairs
    /\ blocksByRKey \subseteq RKeys
    /\ pc \in [Procs -> {"idle"} \cup Adding \cup Removing]
    /\ key \in [Procs -> RKeys \cup {NoRKey}]
    /\ \A p \in Procs : pc[p] = "idle" <=> key[p] = NoRKey
    /\ disturbed \subseteq Pairs

\* Who accounts for a disagreement on a pair of the table with the mirror or the
\* index: an AddBlock about to remember the row, or a RemoveBlock about to forget it.
BlockMirrorAt(pair) ==
    /\ At(pair, Adding) = {} \/ At(pair, Removing) = {}
    /\ blocksDB[pair] # NoRKey /\ pair \notin blocks => At(pair, {"remember"}) # {}
    /\ blocksDB[pair] # NoRKey =>
         \/ blocksDB[pair] \in blocksByRKey
         \/ \E p \in At(pair, {"remember"}) : key[p] = blocksDB[pair]
    /\ blocksDB[pair] = NoRKey /\ pair \in blocks => At(pair, {"forget"}) # {}
    /\ At(pair, {"remember"}) # {} => blocksDB[pair] # NoRKey
    /\ At(pair, {"forget", "unindex"}) # {} => blocksDB[pair] = NoRKey

\* As long as no add and remove of a pair overlapped, each divergence of memory
\* from the table has an AddBlock or RemoveBlockByRKey in flight that repairs it.
BlockMirrorInv == \A pair \in Pairs \ disturbed : BlockMirrorAt(pair)

\* Between the calls on a pair, IsBlocked answers what the table says, and the
\* row's key is indexed: the delete event of its record will find the pair.
BlockMirrorExact ==
    \A pair \in Pairs \ disturbed :
        At(pair, Adding \cup Removing) = {} =>
            /\ pair \in blocks <=> blocksDB[pair] # NoRKey
            /\ blocksDB[pair] # NoRKey => blocksDB[pair] \in blocksByRKey
=============================================================================
