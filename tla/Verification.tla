---------------------------- MODULE Verification ----------------------------
(***************************************************************************)
(* Verification records: handleVerificationCreate and -Delete of           *)
(* internal/jetstream, the verifications table of internal/store and its   *)
(* in-memory index verificationsByRKey, which gives a delete event the     *)
(* subject it does not name.  Dispatch workers take the events from the    *)
(* queue and handle them in steps between SQL statements and locks.        *)
(*                                                                         *)
(* External: the records, each created and deleted at most once, and the   *)
(* connection.  It begins without a cursor (Run), so that events before it *)
(* are missed, and resumes at the last event once it read one (module      *)
(* Consumer).  A record stands for (verifier, rkey), which names one       *)
(* subject.                                                                *)
(***************************************************************************)
EXTENDS Naturals, Sequences, SequencesExt

CONSTANTS Records, None,
          Workers,
          QueueCap,    \* dispatchQueueCapacity
          MaxReplays   \* bound: the reconnects

ASSUME VerificationAssumption ==
    /\ None \notin Records
    /\ QueueCap \in Nat \ {0} /\ MaxReplays \in Nat

VARIABLES
    life,                 \* external: "none", "live", or "deleted"
    following,            \* it is connected, or will resume at a cursor
    wire,                 \* events sent and not yet read
    last,                 \* the event read last, which a reconnect repeats, or None
    replays,              \* how often it reconnected
    queue,                \* commitCh
    pc, item,             \* the next step of each worker and its event
    verifications,        \* the table
    verificationsByRKey,  \* its index in memory
    due,                  \* auxiliary: what the subject was to be told of each record
    told,                 \* what it was told
    overlapped,           \* auxiliary: records that two workers handled at once
    lost,                 \* auxiliary: records of which an event was missed, dropped, or not
                          \* handled in full, or that had overlapped before a restart
    withheld              \* auxiliary: records of which sendNotification did not tell

stream == <<life, following, wire, last, replays, queue>>
store  == <<verifications, verificationsByRKey>>
words  == <<due, told, withheld>>
vars == <<stream, pc, item, store, words, overlapped, lost>>

Event(op, k) == [op |-> op, record |-> k]
Events == [op : {"create", "delete"}, record : Records]
NoEvent == [op |-> "none", record |-> None]

Awaited(k)  == \E e \in ToSet(wire \o queue) : e.record = k
Handling(k) == {w \in Workers : item[w].record = k}

Init ==
    /\ life = [k \in Records |-> "none"]
    /\ following = FALSE /\ wire = <<>> /\ last = NoEvent /\ replays = 0 /\ queue = <<>>
    /\ pc = [w \in Workers |-> "idle"] /\ item = [w \in Workers |-> NoEvent]
    /\ verifications = {} /\ verificationsByRKey = {}
    /\ due = [k \in Records |-> "nothing"] /\ told = due
    /\ overlapped = {} /\ lost = {} /\ withheld = {}

\* The event goes out on the connection; without one, and a cursor, it is missed for good.
Send(e) ==
    /\ \/ following /\ wire' = Append(wire, e) /\ UNCHANGED lost
       \/ ~following /\ lost' = lost \cup {e.record} /\ UNCHANGED wire
    /\ UNCHANGED <<following, last, replays, queue, pc, item, store, words, overlapped>>

\* A verifier creates a record, or deletes one.
Create(k) ==
    /\ life[k] = "none"
    /\ life' = [life EXCEPT ![k] = "live"]
    /\ Send(Event("create", k))

Delete(k) ==
    /\ life[k] = "live"
    /\ life' = [life EXCEPT ![k] = "deleted"]
    /\ Send(Event("delete", k))

\* readLoop: the cursor moves, and the commit is queued, or dropped by a full queue.
Read ==
    /\ wire # <<>>
    /\ wire' = Tail(wire) /\ last' = Head(wire)
    /\ \/ /\ Len(queue) < QueueCap
          /\ queue' = Append(queue, Head(wire)) /\ UNCHANGED lost
       \/ /\ Len(queue) >= QueueCap
          /\ lost' = lost \cup {Head(wire).record} /\ UNCHANGED queue
    /\ UNCHANGED <<life, following, replays, pc, item, store, words, overlapped>>

\* Run connects; a connection that ends before an event came leaves no cursor.
Connect ==
    /\ ~following /\ following' = TRUE
    /\ UNCHANGED <<life, wire, last, replays, queue, pc, item, store, words, overlapped, lost>>

Disconnect ==
    /\ following /\ last = NoEvent
    /\ following' = FALSE /\ wire' = <<>>
    /\ lost' = lost \cup {e.record : e \in ToSet(wire)}
    /\ UNCHANGED <<life, last, replays, queue, pc, item, store, words, overlapped>>

\* The connection breaks and resumes at the cursor, which is the last event, inclusively.
Reconnect ==
    /\ replays < MaxReplays /\ last # NoEvent
    /\ replays' = replays + 1
    /\ wire' = <<last>> \o wire
    /\ UNCHANGED <<life, following, last, queue, pc, item, store, words, overlapped, lost>>

-----------------------------------------------------------------------------
Goto(w, step) == pc' = [pc EXCEPT ![w] = step] /\ UNCHANGED item
Done(w) == pc' = [pc EXCEPT ![w] = "idle"] /\ item' = [item EXCEPT ![w] = NoEvent]

\* dispatchWorker: handleCommit calls handleVerificationCreate or -Delete.
Take(w) ==
    /\ pc[w] = "idle" /\ queue # <<>>
    /\ queue' = Tail(queue)
    /\ item' = [item EXCEPT ![w] = Head(queue)]
    /\ pc' = [pc EXCEPT ![w] = IF Head(queue).op = "create" THEN "insert" ELSE "lookup"]
    /\ overlapped' = IF Handling(Head(queue).record) = {} THEN overlapped
                     ELSE overlapped \cup {Head(queue).record}
    /\ UNCHANGED <<life, following, wire, last, replays, store, words, lost>>

\* AddVerification: INSERT OR REPLACE.  Its error is not looked at: the subject is told.
Insert(w) ==
    /\ pc[w] = "insert"
    /\ \/ /\ verifications' = verifications \cup {item[w].record}
          /\ Goto(w, "remember") /\ UNCHANGED lost
       \/ /\ lost' = lost \cup {item[w].record}
          /\ Goto(w, "notify") /\ UNCHANGED verifications
    /\ UNCHANGED <<stream, verificationsByRKey, words, overlapped>>

\* AddVerification: the index under the lock.
Remember(w) ==
    /\ pc[w] = "remember"
    /\ verificationsByRKey' = verificationsByRKey \cup {item[w].record}
    /\ Goto(w, "notify")
    /\ UNCHANGED <<stream, verifications, words, overlapped, lost>>

\* RemoveVerificationByRKey: the index under the read lock; an unknown record is no error.
Lookup(w) ==
    /\ pc[w] = "lookup"
    /\ IF item[w].record \in verificationsByRKey THEN Goto(w, "delete") ELSE Done(w)
    /\ UNCHANGED <<stream, store, words, overlapped, lost>>

\* RemoveVerificationByRKey: DELETE; an error is logged and ends the handler.
DeleteRow(w) ==
    /\ pc[w] = "delete"
    /\ \/ /\ verifications' = verifications \ {item[w].record}
          /\ Goto(w, "forget") /\ UNCHANGED lost
       \/ /\ lost' = lost \cup {item[w].record}
          /\ Done(w) /\ UNCHANGED verifications
    /\ UNCHANGED <<stream, verificationsByRKey, words, overlapped>>

\* RemoveVerificationByRKey: the index under the lock.
ForgetMutSkip(w) ==
    /\ pc[w] = "forget"
    /\ Goto(w, "notify")
    /\ UNCHANGED <<stream, store, words, overlapped, lost>>
Forget(w) ==
    /\ pc[w] = "forget"
    /\ verificationsByRKey' = verificationsByRKey \ {item[w].record}
    /\ Goto(w, "notify")
    /\ UNCHANGED <<stream, verifications, words, overlapped, lost>>

\* The word that follows what was due before; "muddled" if it makes no sense.
NextWord(before, op) ==
    IF op = "create" /\ before \in {"nothing", "verified"} THEN "verified"
    ELSE IF op = "delete" /\ before = "verified" THEN "unverified" ELSE "muddled"

\* IsRegistered, then sendNotification (module Delivery) with "verified" or "unverified": a
\* device of the subject gets it; or none does, since the subject is not registered at
\* either check or blocks the verifier, or its tokens cannot be read or take no push.
Notify(w) ==
    LET k == item[w].record IN
    /\ pc[w] = "notify"
    /\ due' = [due EXCEPT ![k] = NextWord(@, item[w].op)]
    /\ \/ told' = [told EXCEPT ![k] = due'[k]] /\ UNCHANGED withheld
       \/ withheld' = withheld \cup {k} /\ UNCHANGED told
    /\ Done(w)
    /\ UNCHANGED <<stream, store, overlapped, lost>>

\* The process ends, with the cursor, the queue and what the workers did; New loads the
\* index from the table, and until Run connects again the events are missed.
RestartMutNoIndex ==
    /\ verificationsByRKey' = {}
    /\ lost' = lost \cup overlapped \cup {k \in Records : Awaited(k) \/ Handling(k) # {}}
    /\ following' = FALSE /\ wire' = <<>> /\ last' = NoEvent /\ queue' = <<>>
    /\ pc' = [w \in Workers |-> "idle"] /\ item' = [w \in Workers |-> NoEvent]
    /\ overlapped' = {}
    /\ UNCHANGED <<life, replays, verifications, words>>
Restart ==
    /\ verificationsByRKey' = verifications
    /\ lost' = lost \cup overlapped \cup {k \in Records : Awaited(k) \/ Handling(k) # {}}
    /\ following' = FALSE /\ wire' = <<>> /\ last' = NoEvent /\ queue' = <<>>
    /\ pc' = [w \in Workers |-> "idle"] /\ item' = [w \in Workers |-> NoEvent]
    /\ overlapped' = {}
    /\ UNCHANGED <<life, replays, verifications, words>>

Handle(w) ==
    \/ Take(w) \/ Insert(w) \/ Remember(w) \/ Lookup(w) \/ DeleteRow(w) \/ Forget(w)
    \/ Notify(w)

Next ==
    \/ \E k \in Records : Create(k) \/ Delete(k)
    \/ Connect \/ Disconnect \/ Read \/ Reconnect \/ Restart
    \/ \E w \in Workers : Handle(w)

Spec == Init /\ [][Next]_vars

-----------------------------------------------------------------------------
\* The state has its types; a worker that is idle holds no event.
TypeOK ==
    /\ life \in [Records -> {"none", "live", "deleted"}]
    /\ following \in BOOLEAN /\ wire \in Seq(Events) /\ last \in Events \cup {NoEvent}
    /\ replays \in 0..MaxReplays
    /\ queue \in Seq(Events) /\ Len(queue) <= QueueCap
    /\ pc \in [Workers -> {"idle", "insert", "remember", "lookup", "delete", "forget",
                          "notify"}]
    /\ item \in [Workers -> Events \cup {NoEvent}]
    /\ \A w \in Workers : pc[w] = "idle" <=> item[w] = NoEvent
    /\ verifications \subseteq Records /\ verificationsByRKey \subseteq Records
    /\ {due, told} \subseteq [Records -> {"nothing", "verified", "unverified", "muddled"}]
    /\ overlapped \subseteq Records /\ lost \subseteq Records /\ withheld \subseteq Records

\* The index answers what the table holds for every record that no worker is at, also
\* after errors and restarts, unless two workers were at it at once (AddVerification and
\* RemoveVerificationByRKey change the two in separate steps).
IndexExact ==
    \A k \in Records \ overlapped :
        Handling(k) = {} => (k \in verificationsByRKey <=> k \in verifications)

\* What a subject hears of a record makes sense and has happened: verified, and unverified
\* once and nothing after that, in spite of events that a reconnect repeats and of
\* restarts between them.  The last word is true once every event was handled, or else
\* sendNotification did not tell the subject of one of them.  Except for records of which
\* an event was lost on the way, or that two workers were at at once
\* (handleVerificationCreate and -Delete).
LastWord ==
    \A k \in Records \ (overlapped \cup lost) :
        /\ told[k] # "muddled"
        /\ told[k] # "nothing" => life[k] # "none"
        /\ told[k] = "unverified" => life[k] = "deleted"
        /\ Handling(k) = {} /\ ~Awaited(k) /\ k \notin withheld =>
              told[k] = CASE life[k] = "none"    -> "nothing"
                          [] life[k] = "live"    -> "verified"
                          [] life[k] = "deleted" -> "unverified"
=============================================================================
