-------------------------- MODULE VerificationProofs --------------------------
(* Theorems about module Verification, for every value of its constants. *)
EXTENDS Verification, SequenceTheorems, TLAPS

\* What the table and the index say of record k, and the workers that are at it: there is
\* one at most, and the two differ only between its statement and its lock.
IndexFollows(k) ==
    /\ \A v, w \in Handling(k) : v = w
    /\ \A w \in Handling(k) : /\ pc[w] = "remember" => k \in verifications
                              /\ pc[w] = "forget"   => k \notin verifications
    /\ (\A w \in Handling(k) : pc[w] \notin {"remember", "forget"}) =>
          (k \in verificationsByRKey <=> k \in verifications)

IndexInv ==
    /\ TypeOK
    /\ \A k \in Records \ overlapped : IndexFollows(k)

-----------------------------------------------------------------------------
\* A step outside the workers and the store.
LEMMA StreamStep ==
    ASSUME IndexInv, UNCHANGED <<pc, item, store, overlapped>>, TypeOK'
    PROVE  IndexInv'
<1>1. UNCHANGED <<verifications, verificationsByRKey>>
  BY DEF store
<1> QED BY <1>1 DEF IndexInv, IndexFollows, Handling

\* Events move in sequences.
LEMMA EventsQueue ==
    ASSUME NEW s \in Seq(Events)
    PROVE  /\ \A e \in Events : /\ Append(s, e) \in Seq(Events) /\ Len(Append(s, e)) = Len(s) + 1
                                /\ <<e>> \o s \in Seq(Events)
           /\ s # <<>> => /\ Head(s) \in Events /\ Tail(s) \in Seq(Events)
                          /\ Len(Tail(s)) = Len(s) - 1
           /\ Len(s) \in Nat
<1>1. s # <<>> => /\ Head(s) \in Events /\ Tail(s) \in Seq(Events) /\ Len(Tail(s)) = Len(s) - 1
  BY HeadTailProperties
<1>2. ASSUME NEW e \in Events
      PROVE  /\ Append(s, e) \in Seq(Events) /\ Len(Append(s, e)) = Len(s) + 1
             /\ <<e>> \o s \in Seq(Events)
  <2>1. <<e>> \in Seq(Events)
    OBVIOUS
  <2> QED BY <2>1, AppendProperties, ConcatProperties
<1> QED BY <1>1, <1>2, LenProperties

LEMMA RecordStep ==
    ASSUME IndexInv, NEW k \in Records, Create(k) \/ Delete(k)
    PROVE  IndexInv'
<1>1. /\ Event("create", k) \in Events /\ Event("delete", k) \in Events
      /\ life \in [Records -> {"none", "live", "deleted"}] /\ wire \in Seq(Events)
  BY DEF Event, Events, IndexInv, TypeOK
<1>2. PICK e \in Events : Send(e)
  BY <1>1 DEF Create, Delete
<1>3. life' \in [Records -> {"none", "live", "deleted"}]
  BY <1>1 DEF Create, Delete
<1>4. wire' \in Seq(Events) /\ lost' \subseteq Records
  <2>1. e.record \in Records /\ lost \subseteq Records
    BY DEF Events, IndexInv, TypeOK
  <2> QED
    BY <1>1, <1>2, <2>1, EventsQueue DEF Send
<1>5. TypeOK' /\ UNCHANGED <<pc, item, store, overlapped>>
  BY <1>2, <1>3, <1>4 DEF Send, IndexInv, TypeOK, store, words
<1> QED BY <1>5, StreamStep

LEMMA ReadStep ==
    ASSUME IndexInv, Read
    PROVE  IndexInv'
<1>1. wire \in Seq(Events) /\ wire # <<>> /\ queue \in Seq(Events)
  BY DEF IndexInv, TypeOK, Read
<1>2. Head(wire) \in Events /\ Tail(wire) \in Seq(Events)
  BY <1>1, EventsQueue
<1>3. Head(wire).record \in Records
  BY <1>2 DEF Events
<1>4. queue' \in Seq(Events) /\ Len(queue') <= QueueCap
  <2>1. Len(queue) \in Nat /\ QueueCap \in Nat /\ Len(queue) <= QueueCap
    BY <1>1, EventsQueue, VerificationAssumption DEF IndexInv, TypeOK
  <2>2. \/ Len(queue) < QueueCap /\ queue' = Append(queue, Head(wire))
        \/ queue' = queue
    BY DEF Read
  <2> QED BY <1>1, <1>2, <2>1, <2>2, EventsQueue
<1>5. TypeOK'
  BY <1>2, <1>3, <1>4 DEF Read, IndexInv, TypeOK, store, words
<1> QED BY <1>5, StreamStep DEF Read

\* The connection begins, or ends without a cursor.
LEMMA LinkStep ==
    ASSUME IndexInv, Connect \/ Disconnect
    PROVE  IndexInv'
<1>1. lost' \subseteq Records /\ wire' \in Seq(Events)
  <2>1. wire \in Seq(Events) /\ <<>> \in Seq(Events) /\ lost \subseteq Records
    BY DEF IndexInv, TypeOK
  <2>2. \A e \in Events : e.record \in Records
    BY DEF Events
  <2>3. ToSet(wire) \subseteq Events
    BY <2>1 DEF ToSet
  <2>4. CASE Connect
    BY <2>1, <2>4 DEF Connect
  <2>5. CASE Disconnect
    BY <2>1, <2>2, <2>3, <2>5 DEF Disconnect
  <2> QED
    BY <2>4, <2>5
<1>2. following' \in BOOLEAN
  BY DEF Connect, Disconnect
<1>3. UNCHANGED <<life, last, replays, queue, pc, item, store, words, overlapped>>
  BY DEF Connect, Disconnect
<1>4. TypeOK'
  BY <1>1, <1>2, <1>3 DEF IndexInv, TypeOK, store, words
<1> QED BY <1>3, <1>4, StreamStep

LEMMA ReconnectStep ==
    ASSUME IndexInv, Reconnect
    PROVE  IndexInv'
<1>1. last \in Events /\ wire \in Seq(Events) /\ wire' = <<last>> \o wire
  BY DEF IndexInv, TypeOK, Reconnect
<1>2. wire' \in Seq(Events)
  BY <1>1, EventsQueue
<1>3. replays' \in 0..MaxReplays
  BY VerificationAssumption DEF IndexInv, TypeOK, Reconnect
<1>4. TypeOK'
  BY <1>2, <1>3 DEF Reconnect, IndexInv, TypeOK, store, words
<1> QED BY <1>4, StreamStep DEF Reconnect

\* A worker takes an event: a record that another one is at has overlapped.
LEMMA TakeStep ==
    ASSUME IndexInv, NEW w \in Workers, Take(w)
    PROVE  IndexInv'
<1> DEFINE e == Head(queue)
<1>1. queue \in Seq(Events) /\ queue # <<>> /\ TypeOK /\ pc[w] = "idle"
  BY DEF IndexInv, TypeOK, Take
<1>2. /\ e \in Events /\ Tail(queue) \in Seq(Events) /\ Len(Tail(queue)) <= QueueCap
  <2>1. Len(queue) \in Nat /\ QueueCap \in Nat /\ Len(queue) <= QueueCap
    BY <1>1, EventsQueue, VerificationAssumption DEF TypeOK
  <2> QED BY <1>1, <2>1, EventsQueue
<1> HIDE DEF e
<1>8. e.record \in Records /\ e.op \in {"create", "delete"}
  BY <1>2 DEF Events
<1>3. /\ queue' = Tail(queue) /\ item' = [item EXCEPT ![w] = e]
      /\ pc' = [pc EXCEPT ![w] = IF e.op = "create" THEN "insert" ELSE "lookup"]
      /\ overlapped' = IF Handling(e.record) = {} THEN overlapped
                       ELSE overlapped \cup {e.record}
      /\ UNCHANGED <<life, following, wire, last, replays, verifications,
                     verificationsByRKey, words, lost>>
  BY DEF Take, e, store
<1>4. e # NoEvent
  BY <1>8, VerificationAssumption DEF NoEvent
<1>5. /\ pc'[w] \in {"insert", "lookup"} /\ item'[w] = e
      /\ \A v \in Workers \ {w} : pc'[v] = pc[v] /\ item'[v] = item[v]
  BY <1>1, <1>3 DEF TypeOK
<1>6. TypeOK'
  BY <1>1, <1>2, <1>3, <1>4, <1>5, <1>8 DEF TypeOK, words
<1>7. ASSUME NEW k \in Records \ overlapped' PROVE IndexFollows(k)'
  <2>1. k \notin overlapped /\ IndexFollows(k)
    BY <1>3, <1>7 DEF IndexInv
  <2>2. CASE k = e.record
    <3>1. Handling(k) = {}
      BY <1>3, <1>7, <2>2
    <3>2. Handling(k)' = {w}
      BY <1>5, <2>2, <3>1 DEF Handling
    <3>3. k \in verificationsByRKey <=> k \in verifications
      BY <2>1, <3>1 DEF IndexFollows
    <3> QED BY <1>3, <1>5, <3>2, <3>3 DEF IndexFollows
  <2>3. CASE k # e.record
    <3>1. item[w].record = None /\ None \notin Records
      BY <1>1, VerificationAssumption DEF TypeOK, NoEvent
    <3>2. Handling(k)' = Handling(k) /\ w \notin Handling(k)
      BY <1>5, <2>3, <3>1 DEF Handling
    <3>3. \A v \in Handling(k) : pc'[v] = pc[v]
      BY <1>5, <3>2 DEF Handling
    <3> QED BY <1>3, <2>1, <3>2, <3>3 DEF IndexFollows
  <2> QED BY <2>2, <2>3
<1> QED BY <1>6, <1>7 DEF IndexInv

\* A step of a worker on its record x leaves the other workers and records alone.
LEMMA WorkerStep ==
    ASSUME IndexInv, NEW w \in Workers, NEW x, x = item[w].record, pc[w] # "idle",
           TypeOK', UNCHANGED overlapped, item'[w] \in {item[w], NoEvent},
           \A v \in Workers \ {w} : pc'[v] = pc[v] /\ item'[v] = item[v],
           \A k \in Records \ {x} : /\ k \in verifications' <=> k \in verifications
                                    /\ k \in verificationsByRKey' <=> k \in verificationsByRKey,
           x \notin overlapped /\ IndexFollows(x) /\ Handling(x) = {w} => IndexFollows(x)'
    PROVE  IndexInv'
<1>1. x \in Records /\ w \in Handling(x)
  BY VerificationAssumption DEF IndexInv, TypeOK, Events, NoEvent, Handling
<1>2. x \notin overlapped => IndexFollows(x) /\ Handling(x) = {w}
  <2>1. x \notin overlapped => IndexFollows(x)
    BY <1>1 DEF IndexInv
  <2> QED BY <1>1, <2>1 DEF IndexFollows
<1>3. ASSUME NEW k \in Records \ overlapped', k # x
      PROVE  IndexFollows(k)'
  <2>1. IndexFollows(k) /\ None \notin Records
    BY VerificationAssumption DEF IndexInv
  <2>2. Handling(k)' = Handling(k) /\ w \notin Handling(k)
    BY <1>3, <2>1 DEF Handling, NoEvent
  <2>3. \A v \in Handling(k) : pc'[v] = pc[v]
    BY <2>2 DEF Handling
  <2> QED BY <1>3, <2>1, <2>2, <2>3 DEF IndexFollows
<1>4. \A k \in Records \ overlapped' : IndexFollows(k)'
  BY <1>2, <1>3
<1> QED BY <1>4 DEF IndexInv

\* Where a worker goes, and what its record is.
LEMMA WorkerMoves ==
    ASSUME IndexInv, NEW w \in Workers, pc[w] # "idle",
           NEW step \in {"remember", "delete", "forget", "notify"}, Goto(w, step) \/ Done(w)
    PROVE  /\ pc' \in [Workers -> {"idle", "insert", "remember", "lookup", "delete", "forget",
                                  "notify"}]
           /\ item' \in [Workers -> Events \cup {NoEvent}]
           /\ \A v \in Workers : pc'[v] = "idle" <=> item'[v] = NoEvent
           /\ \A v \in Workers \ {w} : pc'[v] = pc[v] /\ item'[v] = item[v]
           /\ item[w].record \in Records /\ item'[w] \in {item[w], NoEvent}
           /\ Goto(w, step) => pc'[w] = step /\ item'[w] = item[w]
           /\ Done(w) => item'[w] = NoEvent
<1>1. /\ pc \in [Workers -> {"idle", "insert", "remember", "lookup", "delete", "forget", "notify"}]
      /\ item \in [Workers -> Events \cup {NoEvent}]
      /\ \A v \in Workers : pc[v] = "idle" <=> item[v] = NoEvent
  BY DEF IndexInv, TypeOK
<1>2. item[w].record \in Records
  BY <1>1 DEF Events
<1>3. CASE Goto(w, step)
  BY <1>1, <1>2, <1>3 DEF Goto, Done
<1>4. CASE Done(w) /\ ~Goto(w, step)
  BY <1>1, <1>2, <1>4 DEF Done
<1> QED BY <1>3, <1>4

\* AddVerification: the statement, then the lock.
LEMMA InsertStep ==
    ASSUME IndexInv, NEW w \in Workers, Insert(w)
    PROVE  IndexInv'
<1>0. PICK x : x = item[w].record
  OBVIOUS
<1>1. /\ pc[w] = "insert" /\ UNCHANGED <<stream, verificationsByRKey, words, overlapped>>
      /\ TypeOK /\ x \in Records
  BY <1>0 DEF Insert, IndexInv, TypeOK, Events
<1>2. UNCHANGED <<life, following, wire, last, replays, queue>>
  BY <1>1 DEF stream
<1>3. CASE verifications' = verifications \cup {x} /\ Goto(w, "remember") /\ UNCHANGED lost
  <2>1. TypeOK'
    BY <1>1, <1>2, <1>3, WorkerMoves DEF TypeOK, words
  <2>2. pc'[w] = "remember" /\ item'[w] = item[w]
        /\ \A v \in Workers \ {w} : pc'[v] = pc[v] /\ item'[v] = item[v]
    BY <1>1, <1>3, WorkerMoves
  <2>3. Handling(x) = {w} => IndexFollows(x)'
    BY <1>3, <2>2 DEF IndexFollows, Handling
  <2> QED BY <1>0, <1>1, <1>3, <2>1, <2>2, <2>3, WorkerStep
<1>4. CASE lost' = lost \cup {x} /\ Goto(w, "notify") /\ UNCHANGED verifications
  <2>1. TypeOK'
    BY <1>1, <1>2, <1>4, WorkerMoves DEF TypeOK, words
  <2>2. pc'[w] = "notify" /\ item'[w] = item[w]
        /\ \A v \in Workers \ {w} : pc'[v] = pc[v] /\ item'[v] = item[v]
    BY <1>1, <1>4, WorkerMoves
  <2>3. Handling(x) = {w} /\ IndexFollows(x) => IndexFollows(x)'
    BY <1>1, <1>4, <2>2 DEF IndexFollows, Handling
  <2> QED BY <1>0, <1>1, <1>4, <2>1, <2>2, <2>3, WorkerStep
<1> QED BY <1>0, <1>3, <1>4 DEF Insert

LEMMA RememberStep ==
    ASSUME IndexInv, NEW w \in Workers, Remember(w)
    PROVE  IndexInv'
<1>0. PICK x : x = item[w].record
  OBVIOUS
<1>1. /\ pc[w] = "remember" /\ UNCHANGED <<stream, verifications, words, overlapped, lost>>
      /\ TypeOK /\ x \in Records /\ Goto(w, "notify")
      /\ verificationsByRKey' = verificationsByRKey \cup {x}
  BY <1>0 DEF Remember, IndexInv, TypeOK, Events
<1>2. UNCHANGED <<life, following, wire, last, replays, queue>>
  BY <1>1 DEF stream
<1>3. TypeOK'
  BY <1>1, <1>2, WorkerMoves DEF TypeOK, words
<1>4. pc'[w] = "notify" /\ item'[w] = item[w]
      /\ \A v \in Workers \ {w} : pc'[v] = pc[v] /\ item'[v] = item[v]
  BY <1>1, WorkerMoves
<1>5. Handling(x) = {w} /\ IndexFollows(x) => IndexFollows(x)'
  BY <1>1, <1>4 DEF IndexFollows, Handling
<1> QED BY <1>0, <1>1, <1>3, <1>4, <1>5, WorkerStep

\* RemoveVerificationByRKey: a record that the index does not know is not in the table.
LEMMA LookupStep ==
    ASSUME IndexInv, NEW w \in Workers, Lookup(w)
    PROVE  IndexInv'
<1>0. PICK x : x = item[w].record
  OBVIOUS
<1>1. /\ pc[w] = "lookup" /\ UNCHANGED <<stream, store, words, overlapped, lost>> /\ TypeOK
      /\ x \in Records /\ (Goto(w, "delete") \/ Done(w)) /\ None \notin Records
  BY <1>0, VerificationAssumption DEF Lookup, IndexInv, TypeOK, Events
<1>2. UNCHANGED <<life, following, wire, last, replays, queue, verifications, verificationsByRKey>>
  BY <1>1 DEF stream, store
<1>3. TypeOK'
  BY <1>1, <1>2, WorkerMoves DEF TypeOK, words
<1>4. /\ (pc'[w] = "delete" /\ item'[w] = item[w]) \/ item'[w] = NoEvent
      /\ \A v \in Workers \ {w} : pc'[v] = pc[v] /\ item'[v] = item[v]
  BY <1>1, WorkerMoves
<1>5. Handling(x) = {w} /\ IndexFollows(x) => IndexFollows(x)'
  BY <1>1, <1>2, <1>4 DEF IndexFollows, Handling, NoEvent
<1> QED BY <1>0, <1>1, <1>2, <1>3, <1>4, <1>5, WorkerStep

LEMMA DeleteRowStep ==
    ASSUME IndexInv, NEW w \in Workers, DeleteRow(w)
    PROVE  IndexInv'
<1>0. PICK x : x = item[w].record
  OBVIOUS
<1>1. /\ pc[w] = "delete" /\ UNCHANGED <<stream, verificationsByRKey, words, overlapped>>
      /\ TypeOK /\ x \in Records /\ None \notin Records
  BY <1>0, VerificationAssumption DEF DeleteRow, IndexInv, TypeOK, Events
<1>2. UNCHANGED <<life, following, wire, last, replays, queue>>
  BY <1>1 DEF stream
<1>3. CASE verifications' = verifications \ {x} /\ Goto(w, "forget") /\ UNCHANGED lost
  <2>1. TypeOK'
    BY <1>1, <1>2, <1>3, WorkerMoves DEF TypeOK, words
  <2>2. pc'[w] = "forget" /\ item'[w] = item[w]
        /\ \A v \in Workers \ {w} : pc'[v] = pc[v] /\ item'[v] = item[v]
    BY <1>1, <1>3, WorkerMoves
  <2>3. Handling(x) = {w} => IndexFollows(x)'
    BY <1>3, <2>2 DEF IndexFollows, Handling
  <2> QED BY <1>0, <1>1, <1>3, <2>1, <2>2, <2>3, WorkerStep
<1>4. CASE lost' = lost \cup {x} /\ Done(w) /\ UNCHANGED verifications
  <2>1. TypeOK'
    BY <1>1, <1>2, <1>4, WorkerMoves DEF TypeOK, words
  <2>2. item'[w] = NoEvent /\ \A v \in Workers \ {w} : pc'[v] = pc[v] /\ item'[v] = item[v]
    BY <1>1, <1>4, WorkerMoves
  <2>3. Handling(x) = {w} /\ IndexFollows(x) => IndexFollows(x)'
    BY <1>1, <1>4, <2>2 DEF IndexFollows, Handling, NoEvent
  <2> QED BY <1>0, <1>1, <1>4, <2>1, <2>2, <2>3, WorkerStep
<1> QED BY <1>0, <1>3, <1>4 DEF DeleteRow

LEMMA ForgetStep ==
    ASSUME IndexInv, NEW w \in Workers, Forget(w)
    PROVE  IndexInv'
<1>0. PICK x : x = item[w].record
  OBVIOUS
<1>1. /\ pc[w] = "forget" /\ UNCHANGED <<stream, verifications, words, overlapped, lost>>
      /\ TypeOK /\ x \in Records /\ Goto(w, "notify")
      /\ verificationsByRKey' = verificationsByRKey \ {x}
  BY <1>0 DEF Forget, IndexInv, TypeOK, Events
<1>2. UNCHANGED <<life, following, wire, last, replays, queue>>
  BY <1>1 DEF stream
<1>3. TypeOK'
  BY <1>1, <1>2, WorkerMoves DEF TypeOK, words
<1>4. pc'[w] = "notify" /\ item'[w] = item[w]
      /\ \A v \in Workers \ {w} : pc'[v] = pc[v] /\ item'[v] = item[v]
  BY <1>1, WorkerMoves
<1>5. Handling(x) = {w} /\ IndexFollows(x) => IndexFollows(x)'
  BY <1>1, <1>4 DEF IndexFollows, Handling
<1> QED BY <1>0, <1>1, <1>3, <1>4, <1>5, WorkerStep

\* The notification is no concern of the index.
LEMMA NotifyStep ==
    ASSUME IndexInv, NEW w \in Workers, Notify(w)
    PROVE  IndexInv'
<1>0. PICK x : x = item[w].record
  OBVIOUS
<1>1. /\ pc[w] = "notify" /\ UNCHANGED <<stream, store, overlapped, lost>>
      /\ TypeOK /\ x \in Records /\ Done(w) /\ None \notin Records
  BY <1>0, VerificationAssumption DEF Notify, IndexInv, TypeOK, Events
<1>2. UNCHANGED <<life, following, wire, last, replays, queue, verifications, verificationsByRKey>>
  BY <1>1 DEF stream, store
<1>3. /\ {due, told}' \subseteq [Records -> {"nothing", "verified", "unverified", "muddled"}]
      /\ withheld' \subseteq Records
  <2>1. due' \in [Records -> {"nothing", "verified", "unverified", "muddled"}]
    BY <1>1 DEF Notify, TypeOK, NextWord
  <2>2. due'[x] \in {"nothing", "verified", "unverified", "muddled"}
    BY <1>1, <2>1
  <2> QED
    BY <1>0, <1>1, <2>1, <2>2 DEF Notify, TypeOK
<1>4. TypeOK'
  BY <1>1, <1>2, <1>3, WorkerMoves DEF TypeOK
<1>5. item'[w] = NoEvent /\ \A v \in Workers \ {w} : pc'[v] = pc[v] /\ item'[v] = item[v]
  BY <1>1, WorkerMoves
<1>6. Handling(x) = {w} /\ IndexFollows(x) => IndexFollows(x)'
  BY <1>1, <1>2, <1>5 DEF IndexFollows, Handling, NoEvent
<1> QED BY <1>0, <1>1, <1>2, <1>4, <1>5, <1>6, WorkerStep

\* New loads the index from the table.
LEMMA RestartStep ==
    ASSUME IndexInv, Restart
    PROVE  IndexInv'
<1>1. /\ verificationsByRKey' = verifications /\ UNCHANGED <<life, replays, verifications, words>>
      /\ following' = FALSE /\ wire' = <<>> /\ queue' = <<>> /\ last' = NoEvent /\ overlapped' = {}
      /\ pc' = [w \in Workers |-> "idle"] /\ item' = [w \in Workers |-> NoEvent]
      /\ TypeOK /\ None \notin Records
  BY VerificationAssumption DEF Restart, IndexInv
<1>2. lost' \subseteq Records
  BY <1>1 DEF Restart, TypeOK
<1>3. wire' \in Seq(Events) /\ queue' \in Seq(Events) /\ Len(queue') <= QueueCap
  BY <1>1, VerificationAssumption
<1>4. TypeOK'
  BY <1>1, <1>2, <1>3 DEF TypeOK, words
<1>5. \A k \in Records : Handling(k)' = {}
  BY <1>1 DEF Handling, NoEvent
<1>6. \A k \in Records : IndexFollows(k)'
  BY <1>1, <1>5 DEF IndexFollows
<1> QED BY <1>4, <1>6 DEF IndexInv

-----------------------------------------------------------------------------
LEMMA IndexInit ==
    ASSUME Init
    PROVE  IndexInv
<1>1. <<>> \in Seq(Events) /\ Len(<<>>) <= QueueCap /\ 0 \in 0..MaxReplays
  BY VerificationAssumption
<1>2. TypeOK
  BY <1>1 DEF Init, TypeOK
<1>3. \A k \in Records : Handling(k) = {}
  BY VerificationAssumption DEF Init, Handling, NoEvent
<1>4. \A k \in Records : IndexFollows(k)
  BY <1>3 DEF Init, IndexFollows
<1> QED BY <1>2, <1>4 DEF IndexInv

LEMMA IndexStep ==
    ASSUME IndexInv, [Next]_vars
    PROVE  IndexInv'
<1>1. CASE UNCHANGED vars
  <2>1. TypeOK' /\ UNCHANGED <<pc, item, store, overlapped>>
    BY <1>1 DEF vars, stream, store, words, IndexInv, TypeOK
  <2> QED BY <2>1, StreamStep
<1>2. CASE Next
  BY <1>2, RecordStep, LinkStep, ReadStep, ReconnectStep, RestartStep, TakeStep, InsertStep,
     RememberStep, LookupStep, DeleteRowStep, ForgetStep, NotifyStep DEF Next, Handle
<1> QED BY <1>1, <1>2

\* IndexInv is an invariant of the handlers.
THEOREM IndexInvariant == Spec => []IndexInv
<1>1. Init => IndexInv
  BY IndexInit
<1>2. IndexInv /\ [Next]_vars => IndexInv'
  BY IndexStep
<1> QED BY <1>1, <1>2, PTL DEF Spec

\* The state of the verification handlers has its types.
THEOREM TypeCorrect == Spec => []TypeOK
<1>1. IndexInv => TypeOK
  BY DEF IndexInv
<1> QED BY <1>1, IndexInvariant, PTL

\* verificationsByRKey mirrors the table for any number of records, workers, errors and
\* restarts.
THEOREM IndexMirrors == Spec => []IndexExact
<1>1. IndexInv => IndexExact
  BY DEF IndexInv, IndexFollows, IndexExact
<1> QED BY <1>1, IndexInvariant, PTL

-----------------------------------------------------------------------------
(***************************************************************************)
(* LastWord: what a subject was due, what the index says, and which       *)
(* events are still to come, for a record of which no event was lost and   *)
(* that no two workers handled at once.                                    *)
(***************************************************************************)
\* The two events of a record.
Made(k) == Event("create", k)
Gone(k) == Event("delete", k)

\* Whether event e is in s; whether k's create is before k's delete in s wherever both
\* are; whether it is before it wherever the delete is.
Has(s, e)     == \E i \in 1..Len(s) : s[i] = e
Ordered(s, k) == \A i, j \in 1..Len(s) : s[i] = Made(k) /\ s[j] = Gone(k) => i < j
Led(s, k)     == \A j \in 1..Len(s) : s[j] = Gone(k) => \E i \in 1..Len(s) : i < j /\ s[i] = Made(k)

Handled(e) == \E w \in Workers : item[w] = e

\* What was sent, told or taken has happened.
Happened(k) ==
    /\ Has(wire, Made(k)) \/ Has(queue, Made(k)) \/ Handled(Made(k)) \/ last = Made(k) \/ due[k] # "nothing"
          => life[k] # "none"
    /\ Has(wire, Gone(k)) \/ Has(queue, Gone(k)) \/ Handled(Gone(k)) \/ last = Gone(k)
          \/ due[k] = "unverified"
          => life[k] = "deleted"

\* No create comes after a delete, not even one that a reconnect repeats.
InOrder(k) ==
    /\ Ordered(wire, k) /\ Ordered(queue, k)
    /\ Has(queue, Gone(k)) \/ last = Gone(k) \/ Handled(Gone(k)) \/ due[k] = "unverified"
          => last # Made(k) /\ ~Has(wire, Made(k))
    /\ Handled(Gone(k)) \/ due[k] = "unverified" => ~Has(queue, Made(k))

\* What has happened and was not told yet is on its way, a create before a delete.
Coming(k) ==
    /\ life[k] # "none" /\ due[k] = "nothing"
          => Has(wire, Made(k)) \/ Has(queue, Made(k)) \/ Handled(Made(k))
    /\ life[k] = "deleted" /\ due[k] # "unverified"
          => Has(wire, Gone(k)) \/ Has(queue, Gone(k)) \/ Handled(Gone(k))
    /\ due[k] = "nothing" /\ ~Handled(Made(k)) =>
         /\ Led(queue, k)
         /\ ~Has(queue, Made(k)) => Led(wire, k) /\ last # Gone(k)

\* What was told agrees with the index at every step of the handler.
Settled(k) == due[k] = "verified" <=> k \in verificationsByRKey
Agreed(k) ==
    /\ due[k] # "muddled"
    /\ Handling(k) = {} => Settled(k)
    /\ \A w \in Handling(k) :
         \/ /\ item[w] = Made(k) /\ due[k] # "unverified"
            /\ \/ pc[w] = "insert" /\ Settled(k)
               \/ pc[w] = "remember"
               \/ pc[w] = "notify" /\ k \in verificationsByRKey
         \/ /\ item[w] = Gone(k)
            /\ \/ pc[w] = "lookup" /\ due[k] # "nothing" /\ Settled(k)
               \/ pc[w] \in {"delete", "forget"} /\ due[k] = "verified"
               \/ pc[w] = "notify" /\ due[k] = "verified" /\ k \notin verificationsByRKey

WordFollows(k) == Happened(k) /\ InOrder(k) /\ Coming(k) /\ Agreed(k)
WordInv == \A k \in Records \ (overlapped \cup lost) : WordFollows(k)

LEMMA EventFacts ==
    ASSUME NEW k \in Records
    PROVE  /\ Made(k) \in Events /\ Gone(k) \in Events /\ Made(k) # Gone(k)
           /\ Made(k) # NoEvent /\ Gone(k) # NoEvent
           /\ Made(k).op = "create" /\ Gone(k).op = "delete"
           /\ \A e \in Events \cup {NoEvent} : e.record = k <=> e \in {Made(k), Gone(k)}
  BY VerificationAssumption DEF Made, Gone, Event, Events, NoEvent

\* An event is sent, or queued.
LEMMA Appended ==
    ASSUME NEW s \in Seq(Events), NEW e \in Events, NEW k \in Records
    PROVE  /\ \A x : Has(Append(s, e), x) <=> Has(s, x) \/ x = e
           /\ Ordered(s, k) /\ (e = Made(k) => ~Has(s, Gone(k))) => Ordered(Append(s, e), k)
           /\ Led(s, k) /\ (e = Gone(k) => Has(s, Made(k))) => Led(Append(s, e), k)
<1>1. /\ Len(Append(s, e)) = Len(s) + 1 /\ Len(s) \in Nat
      /\ \A i \in 1..Len(s) : Append(s, e)[i] = s[i]
      /\ Append(s, e)[Len(s) + 1] = e
  BY AppendProperties, LenProperties
<1>c. Made(k) # Gone(k)
  BY EventFacts
<1> DEFINE n == Len(s)
<1>2. \A x : Has(Append(s, e), x) <=> Has(s, x) \/ x = e
  <2> SUFFICES ASSUME NEW x PROVE Has(Append(s, e), x) <=> Has(s, x) \/ x = e
    OBVIOUS
  <2>1. ASSUME NEW i \in 1..n + 1, Append(s, e)[i] = x PROVE Has(s, x) \/ x = e
    <3>1. i \in 1..n \/ i = n + 1
      BY <1>1
    <3> QED
      BY <1>1, <2>1, <3>1 DEF Has
  <2>2. ASSUME NEW i \in 1..n, s[i] = x PROVE Append(s, e)[i] = x /\ i \in 1..n + 1
    BY <1>1, <2>2
  <2>3. n + 1 \in 1..n + 1
    BY <1>1
  <2> QED
    BY <1>1, <2>1, <2>2, <2>3 DEF Has
<1>3. ASSUME Ordered(s, k), e = Made(k) => ~Has(s, Gone(k)) PROVE Ordered(Append(s, e), k)
  <2> SUFFICES ASSUME NEW i \in 1..n + 1, NEW j \in 1..n + 1,
                      Append(s, e)[i] = Made(k), Append(s, e)[j] = Gone(k)
               PROVE  i < j
    BY <1>1 DEF Ordered
  <2>1. (i \in 1..n \/ i = n + 1) /\ (j \in 1..n \/ j = n + 1)
    BY <1>1
  <2>2. CASE i \in 1..n /\ j \in 1..n
    BY <1>1, <1>3, <2>2 DEF Ordered
  <2>3. CASE i \in 1..n /\ j = n + 1
    BY <1>1, <2>3
  <2>4. CASE i = n + 1
    BY <1>1, <1>3, <1>c, <2>1, <2>4 DEF Has
  <2> QED
    BY <2>1, <2>2, <2>3, <2>4
<1>4. ASSUME Led(s, k), e = Gone(k) => Has(s, Made(k)) PROVE Led(Append(s, e), k)
  <2> SUFFICES ASSUME NEW j \in 1..n + 1, Append(s, e)[j] = Gone(k)
               PROVE  \E i \in 1..n + 1 : i < j /\ Append(s, e)[i] = Made(k)
    BY <1>1 DEF Led
  <2>1. PICK i \in 1..n : i < j /\ s[i] = Made(k)
    <3>1. CASE j \in 1..n
      BY <1>1, <1>4, <3>1 DEF Led
    <3>2. CASE j = n + 1
      BY <1>1, <1>4, <3>2 DEF Has
    <3> QED
      BY <1>1, <3>1, <3>2
  <2>2. i \in 1..n + 1 /\ Append(s, e)[i] = Made(k)
    BY <1>1, <2>1
  <2> QED
    BY <2>1, <2>2
<1> QED
  BY <1>2, <1>3, <1>4

\* An event is read, or taken.
LEMMA Removed ==
    ASSUME NEW s \in Seq(Events), s # <<>>, NEW k \in Records
    PROVE  /\ \A x : Has(s, x) <=> Has(Tail(s), x) \/ x = Head(s)
           /\ Ordered(s, k) => /\ Ordered(Tail(s), k)
                               /\ Head(s) = Gone(k) => ~Has(Tail(s), Made(k))
           /\ Led(s, k) => Head(s) # Gone(k) /\ (Head(s) # Made(k) => Led(Tail(s), k))
<1> DEFINE t == Tail(s)
<1>1. /\ Len(t) = Len(s) - 1 /\ Len(s) \in Nat /\ 1 \in 1..Len(s) /\ Head(s) = s[1]
      /\ \A i \in 1..Len(t) : i + 1 \in 1..Len(s) /\ t[i] = s[i + 1]
  BY HeadTailProperties, LenProperties, EmptySeq
<1> HIDE DEF t
<1>2. \A i \in 1..Len(s) : i = 1 \/ (i - 1 \in 1..Len(t) /\ t[i - 1] = s[i])
  BY <1>1
<1>3. \A x : Has(s, x) <=> Has(t, x) \/ x = Head(s)
  BY <1>1, <1>2 DEF Has
<1>4. ASSUME Ordered(s, k)
      PROVE  Ordered(t, k) /\ (Head(s) = Gone(k) => ~Has(t, Made(k)))
  <2>1. Ordered(t, k)
    <3> SUFFICES ASSUME NEW i \in 1..Len(t), NEW j \in 1..Len(t), t[i] = Made(k), t[j] = Gone(k)
                 PROVE  i < j
      BY DEF Ordered
    <3>1. i + 1 < j + 1
      BY <1>1, <1>4 DEF Ordered
    <3> QED
      BY <3>1
  <2>2. ASSUME Head(s) = Gone(k), NEW i \in 1..Len(t), t[i] = Made(k) PROVE FALSE
    <3>1. i + 1 < 1
      BY <1>1, <1>4, <2>2 DEF Ordered
    <3> QED
      BY <3>1
  <2> QED
    BY <2>1, <2>2 DEF Has
<1>5. ASSUME Led(s, k)
      PROVE  Head(s) # Gone(k) /\ (Head(s) # Made(k) => Led(t, k))
  <2>1. Head(s) # Gone(k)
    BY <1>1, <1>5 DEF Led
  <2>2. ASSUME Head(s) # Made(k), NEW j \in 1..Len(t), t[j] = Gone(k)
        PROVE  \E i \in 1..Len(t) : i < j /\ t[i] = Made(k)
    <3>1. PICK i \in 1..Len(s) : i < j + 1 /\ s[i] = Made(k)
      BY <1>1, <1>5, <2>2 DEF Led
    <3>2. i - 1 \in 1..Len(t) /\ t[i - 1] = Made(k) /\ i - 1 < j
      BY <1>1, <1>2, <2>2, <3>1
    <3> QED
      BY <3>2
  <2> QED
    BY <2>1, <2>2 DEF Led
<1> QED
  BY <1>3, <1>4, <1>5 DEF t

\* An event is repeated by a reconnect.
LEMMA Repeated ==
    ASSUME NEW s \in Seq(Events), NEW e \in Events, NEW k \in Records
    PROVE  /\ \A x : Has(<<e>> \o s, x) <=> Has(s, x) \/ x = e
           /\ Ordered(s, k) /\ (e = Gone(k) => ~Has(s, Made(k))) => Ordered(<<e>> \o s, k)
           /\ e = Made(k) \/ (Led(s, k) /\ e # Gone(k)) => Led(<<e>> \o s, k)
<1> DEFINE t == <<e>> \o s
<1>1. /\ Len(t) = Len(s) + 1 /\ Len(s) \in Nat /\ 1 \in 1..Len(t) /\ t[1] = e
      /\ \A i \in 1..Len(s) : i + 1 \in 1..Len(t) /\ t[i + 1] = s[i]
  <2>1. <<e>> \in Seq(Events) /\ Len(<<e>>) = 1 /\ <<e>>[1] = e /\ Len(s) \in Nat
    BY LenProperties
  <2>2. Len(t) = 1 + Len(s) /\ \A i \in 1..Len(t) : t[i] = IF i <= 1 THEN <<e>>[i] ELSE s[i - 1]
    BY <2>1, ConcatProperties
  <2> HIDE DEF t
  <2>3. ASSUME NEW i \in 1..Len(s) PROVE i + 1 \in 1..Len(t) /\ t[i + 1] = s[i]
    BY <2>1, <2>2
  <2> QED
    BY <2>1, <2>2, <2>3
<1> HIDE DEF t
<1>2. \A i \in 1..Len(t) : i = 1 \/ (i - 1 \in 1..Len(s) /\ s[i - 1] = t[i])
  BY <1>1
<1>c. Made(k) # Gone(k)
  BY EventFacts
<1>3. \A x : Has(t, x) <=> Has(s, x) \/ x = e
  BY <1>1, <1>2 DEF Has
<1>4. ASSUME Ordered(s, k), e = Gone(k) => ~Has(s, Made(k)) PROVE Ordered(t, k)
  <2> SUFFICES ASSUME NEW i \in 1..Len(t), NEW j \in 1..Len(t), t[i] = Made(k), t[j] = Gone(k)
               PROVE  i < j
    BY DEF Ordered
  <2>1. CASE i = 1
    BY <1>c, <2>1
  <2>2. CASE i # 1 /\ j = 1
    BY <1>1, <1>2, <1>4, <2>2 DEF Has
  <2>3. CASE i # 1 /\ j # 1
    <3>1. i - 1 < j - 1
      BY <1>2, <1>4, <2>3 DEF Ordered
    <3> QED
      BY <3>1, <1>1
  <2> QED
    BY <2>1, <2>2, <2>3
<1>5. ASSUME e = Made(k) \/ (Led(s, k) /\ e # Gone(k)) PROVE Led(t, k)
  <2> SUFFICES ASSUME NEW j \in 1..Len(t), t[j] = Gone(k)
               PROVE  \E i \in 1..Len(t) : i < j /\ t[i] = Made(k)
    BY DEF Led
  <2>1. j # 1
    BY <1>1, <1>5, <1>c
  <2>2. CASE e = Made(k)
    BY <1>1, <2>1, <2>2
  <2>3. CASE Led(s, k)
    <3>1. PICK i \in 1..Len(s) : i < j - 1 /\ s[i] = Made(k)
      BY <1>2, <2>1, <2>3 DEF Led
    <3>2. i + 1 \in 1..Len(t) /\ i + 1 < j /\ t[i + 1] = Made(k)
      BY <1>1, <3>1
    <3> QED
      BY <3>2
  <2> QED
    BY <1>5, <2>2, <2>3
<1> QED
  BY <1>3, <1>4, <1>5 DEF t

\* The records of which something is known.
Clear == Records \ (overlapped \cup lost)

\* What a step of the stream leaves alone.
LEMMA Aside ==
    ASSUME UNCHANGED <<pc, item, store, due>>, NEW k, Agreed(k)
    PROVE  Agreed(k)' /\ \A e : Handled(e)' <=> Handled(e)
  BY DEF Agreed, Settled, Handling, Handled, store

LEMMA CreateWord ==
    ASSUME IndexInv, WordInv, NEW r \in Records, Create(r), NEW k \in Clear'
    PROVE  WordFollows(k)'
<1>0. k \in Clear /\ k \in Records /\ WordFollows(k) /\ wire \in Seq(Events)
  BY DEF Create, Send, Clear, WordInv, IndexInv, TypeOK
<1>1. /\ life[r] = "none" /\ life' = [life EXCEPT ![r] = "live"]
      /\ wire' = Append(wire, Made(r)) \/ (r # k /\ wire' = wire)
      /\ UNCHANGED <<last, queue, pc, item, store, due>>
  <2>1. Made(r).record = r
    BY DEF Made, Event
  <2> QED
    BY <2>1 DEF Create, Send, Made, Clear, words
<1>2. Agreed(k)' /\ \A e : Handled(e)' <=> Handled(e)
  BY <1>0, <1>1, Aside DEF WordFollows
<1>3. Made(r) \in Events /\ Made(r) # Gone(k) /\ (Made(r) = Made(k) => r = k) /\ Made(k) # Gone(k)
  <2>1. Made(r).record = r /\ Made(k).record = k
    BY DEF Made, Event
  <2> QED
    BY <1>0, <2>1, EventFacts
<1>4. life[k] # "none" => life'[k] = life[k]
  BY <1>1, <1>0 DEF IndexInv, TypeOK
<1>5. life'[k] # "deleted" \/ life'[k] = life[k]
  BY <1>0, <1>1 DEF IndexInv, TypeOK
<1>6. /\ \A x \in {Made(k), Gone(k)} : Has(wire', x) <=> Has(wire, x) \/ x = Made(r)
      /\ Ordered(wire, k) /\ (Made(r) = Made(k) => ~Has(wire, Gone(k))) => Ordered(wire', k)
      /\ Led(wire, k) => Led(wire', k)
  <2>1. CASE wire' = Append(wire, Made(r))
    BY <1>0, <1>3, <2>1, Appended
  <2>2. CASE r # k /\ wire' = wire
    BY <1>3, <2>2
  <2> QED
    BY <1>1, <2>1, <2>2
<1>7. r = k => life'[k] = "live"
  BY <1>0, <1>1 DEF IndexInv, TypeOK
<1>8. r # k => life'[k] = life[k]
  BY <1>0, <1>1 DEF IndexInv, TypeOK
<1>h. Happened(k) /\ InOrder(k) /\ Coming(k)
  BY <1>0 DEF WordFollows
<1>9. Happened(k)'
  BY <1>h, <1>1, <1>2, <1>3, <1>4, <1>6, <1>7, <1>8 DEF Happened
<1>10. InOrder(k)'
  <2>1. r = k => ~Has(wire, Gone(k)) /\ ~Has(queue, Gone(k)) /\ last # Gone(k) /\ ~Handled(Gone(k))
                 /\ due[k] # "unverified"
    BY <1>h, <1>1 DEF Happened
  <2> QED
    BY <1>h, <1>1, <1>2, <1>3, <1>6, <2>1 DEF InOrder
<1>11. Coming(k)'
  <2>1. r = k => Has(wire', Made(k))
    BY <1>6
  <2> QED
    BY <1>h, <1>1, <1>2, <1>3, <1>6, <1>7, <1>8, <2>1 DEF Coming
<1> QED
  BY <1>2, <1>9, <1>10, <1>11 DEF WordFollows

LEMMA DeleteWord ==
    ASSUME IndexInv, WordInv, NEW r \in Records, Delete(r), NEW k \in Clear'
    PROVE  WordFollows(k)'
<1>0. k \in Clear /\ k \in Records /\ WordFollows(k) /\ wire \in Seq(Events)
  BY DEF Delete, Send, Clear, WordInv, IndexInv, TypeOK
<1>1. /\ life[r] = "live" /\ life' = [life EXCEPT ![r] = "deleted"]
      /\ wire' = Append(wire, Gone(r)) \/ (r # k /\ wire' = wire)
      /\ UNCHANGED <<last, queue, pc, item, store, due>>
  <2>1. Gone(r).record = r
    BY DEF Gone, Event
  <2> QED
    BY <2>1 DEF Delete, Send, Gone, Clear, words
<1>2. Agreed(k)' /\ \A e : Handled(e)' <=> Handled(e)
  BY <1>0, <1>1, Aside DEF WordFollows
<1>3. Gone(r) \in Events /\ Gone(r) # Made(k) /\ (Gone(r) = Gone(k) => r = k) /\ Made(k) # Gone(k)
  <2>1. Gone(r).record = r /\ Gone(k).record = k
    BY DEF Gone, Event
  <2> QED
    BY <1>0, <2>1, EventFacts
<1>4. /\ r = k => life[k] = "live" /\ life'[k] = "deleted"
      /\ r # k => life'[k] = life[k]
  BY <1>0, <1>1 DEF IndexInv, TypeOK
<1>6. /\ \A x \in {Made(k), Gone(k)} : Has(wire', x) <=> Has(wire, x) \/ x = Gone(r)
      /\ Ordered(wire, k) => Ordered(wire', k)
      /\ Led(wire, k) /\ (r = k => Has(wire, Made(k))) => Led(wire', k)
  <2>1. CASE wire' = Append(wire, Gone(r))
    BY <1>0, <1>3, <2>1, Appended
  <2>2. CASE r # k /\ wire' = wire
    BY <1>3, <2>2
  <2> QED
    BY <1>1, <2>1, <2>2
<1>h. Happened(k) /\ InOrder(k) /\ Coming(k)
  BY <1>0 DEF WordFollows
<1>9. Happened(k)'
  BY <1>h, <1>1, <1>2, <1>3, <1>4, <1>6 DEF Happened
<1>10. InOrder(k)'
  BY <1>h, <1>1, <1>2, <1>3, <1>6 DEF InOrder
<1>11. Coming(k)'
  <2>1. r = k => Has(wire', Gone(k))
    BY <1>6
  <2> QED
    BY <1>h, <1>1, <1>2, <1>3, <1>4, <1>6, <2>1 DEF Coming
<1> QED
  BY <1>2, <1>9, <1>10, <1>11 DEF WordFollows

LEMMA ReadWord ==
    ASSUME IndexInv, WordInv, Read, NEW k \in Clear'
    PROVE  WordFollows(k)'
<1> DEFINE e == Head(wire)
<1>0. wire \in Seq(Events) /\ wire # <<>> /\ queue \in Seq(Events) /\ k \in Records
  BY VerificationAssumption DEF Clear, Read, IndexInv, TypeOK
<1>1. /\ wire' = Tail(wire) /\ last' = e
      /\ UNCHANGED <<life, replays, pc, item, store, due, overlapped>>
      /\ \/ queue' = Append(queue, e) /\ lost' = lost
         \/ queue' = queue /\ lost' = lost \cup {e.record}
  BY DEF Read, words
<1>2. k \in Clear /\ WordFollows(k)
  BY <1>1 DEF Clear, WordInv
<1>3. Agreed(k)' /\ \A x : Handled(x)' <=> Handled(x)
  BY <1>1, <1>2, Aside DEF WordFollows
<1>h. Happened(k) /\ InOrder(k) /\ Coming(k) /\ e \in Events /\ Made(k) # Gone(k)
  BY <1>0, <1>2, EventsQueue, EventFacts DEF WordFollows
<1>4. /\ \A x : Has(wire, x) <=> Has(wire', x) \/ x = e
      /\ Ordered(wire, k) => Ordered(wire', k) /\ (e = Gone(k) => ~Has(wire', Made(k)))
      /\ Led(wire, k) => e # Gone(k) /\ (e # Made(k) => Led(wire', k))
  BY <1>0, <1>1, Removed
<1> HIDE DEF e
<1>5. CASE queue' = Append(queue, e)
  <2>1. /\ \A x : Has(queue', x) <=> Has(queue, x) \/ x = e
        /\ Ordered(queue, k) /\ (e = Made(k) => ~Has(queue, Gone(k))) => Ordered(queue', k)
        /\ Led(queue, k) /\ (e = Gone(k) => Has(queue, Made(k))) => Led(queue', k)
    BY <1>0, <1>5, <1>h, Appended
  <2>2. Happened(k)'
    BY <1>h, <1>1, <1>3, <1>4, <2>1 DEF Happened
  <2>3. InOrder(k)'
    BY <1>h, <1>1, <1>3, <1>4, <2>1 DEF InOrder
  <2>4. Coming(k)'
    BY <1>h, <1>1, <1>3, <1>4, <2>1 DEF Coming
  <2> QED
    BY <1>3, <2>2, <2>3, <2>4 DEF WordFollows
<1>6. CASE queue' = queue /\ lost' = lost \cup {e.record}
  <2>1. e # Made(k) /\ e # Gone(k)
    <3>1. k # e.record
      BY <1>6 DEF Clear
    <3> QED
      BY <1>0, <1>h, <3>1, EventFacts
  <2>2. Happened(k)'
    BY <1>h, <1>1, <1>3, <1>4, <1>6, <2>1 DEF Happened
  <2>3. InOrder(k)'
    BY <1>h, <1>1, <1>3, <1>4, <1>6, <2>1 DEF InOrder
  <2>4. Coming(k)'
    BY <1>h, <1>1, <1>3, <1>4, <1>6, <2>1 DEF Coming
  <2> QED
    BY <1>3, <2>2, <2>3, <2>4 DEF WordFollows
<1> QED
  BY <1>1, <1>5, <1>6

\* A connection that ends without a cursor takes nothing along of a record that is clear.
LEMMA LinkWord ==
    ASSUME IndexInv, WordInv, Connect \/ Disconnect, NEW k \in Clear'
    PROVE  WordFollows(k)'
<1>0. /\ k \in Records /\ lost \subseteq lost' /\ wire' \in {wire, <<>>}
      /\ UNCHANGED <<life, last, queue, pc, item, store, due, overlapped>>
      /\ wire' # wire => \A e \in ToSet(wire) : e.record \in lost'
  BY DEF Connect, Disconnect, Clear, words
<1>1. k \in Clear /\ WordFollows(k) /\ wire \in Seq(Events)
  BY <1>0 DEF Clear, WordInv, IndexInv, TypeOK
<1>h. Happened(k) /\ InOrder(k) /\ Coming(k)
  BY <1>1 DEF WordFollows
<1>2. Agreed(k)' /\ \A e : Handled(e)' <=> Handled(e)
  BY <1>0, <1>1, Aside DEF WordFollows
<1>3. \A e \in {Made(k), Gone(k)} : Has(wire', e) <=> Has(wire, e)
  <2>1. CASE wire' = wire
    BY <2>1
  <2>2. CASE wire' # wire
    <3>1. k \notin lost' /\ Made(k).record = k /\ Gone(k).record = k
      BY DEF Clear, Made, Gone, Event
    <3>2. ~Has(wire, Made(k)) /\ ~Has(wire, Gone(k))
      BY <1>0, <1>1, <2>2, <3>1 DEF Has, ToSet
    <3>3. ~Has(wire', Made(k)) /\ ~Has(wire', Gone(k))
      BY <1>0, <2>2 DEF Has
    <3> QED
      BY <3>2, <3>3
  <2> QED
    BY <2>1, <2>2
<1>4. (Ordered(wire, k) => Ordered(wire', k)) /\ (Led(wire, k) => Led(wire', k))
  BY <1>0 DEF Ordered, Led
<1>5. Happened(k)'
  BY <1>h, <1>0, <1>2, <1>3 DEF Happened
<1>6. InOrder(k)'
  BY <1>h, <1>0, <1>2, <1>3, <1>4 DEF InOrder
<1>7. Coming(k)'
  BY <1>h, <1>0, <1>2, <1>3, <1>4 DEF Coming
<1> QED
  BY <1>2, <1>5, <1>6, <1>7 DEF WordFollows

LEMMA ReconnectWord ==
    ASSUME IndexInv, WordInv, Reconnect, NEW k \in Clear
    PROVE  WordFollows(k)'
<1>0. k \in Records /\ WordFollows(k) /\ wire \in Seq(Events) /\ last \in Events
  BY VerificationAssumption DEF Clear, WordInv, IndexInv, TypeOK, Reconnect
<1>1. /\ wire' = <<last>> \o wire
      /\ UNCHANGED <<life, last, queue, pc, item, store, due, overlapped, lost>>
  BY DEF Reconnect, words
<1>2. Agreed(k)' /\ \A e : Handled(e)' <=> Handled(e)
  BY <1>0, <1>1, Aside DEF WordFollows
<1>3. /\ \A x : Has(wire', x) <=> Has(wire, x) \/ x = last
      /\ Ordered(wire, k) /\ (last = Gone(k) => ~Has(wire, Made(k))) => Ordered(wire', k)
      /\ last = Made(k) \/ (Led(wire, k) /\ last # Gone(k)) => Led(wire', k)
  BY <1>0, <1>1, Repeated
<1>h. Happened(k) /\ InOrder(k) /\ Coming(k) /\ Made(k) # Gone(k)
  BY <1>0, EventFacts DEF WordFollows
<1>4. Happened(k)'
  BY <1>h, <1>1, <1>2, <1>3 DEF Happened
<1>5. InOrder(k)'
  BY <1>h, <1>1, <1>2, <1>3 DEF InOrder
<1>6. Coming(k)'
  BY <1>h, <1>1, <1>2, <1>3 DEF Coming
<1> QED
  BY <1>2, <1>4, <1>5, <1>6 DEF WordFollows

\* A worker that is not at k leaves what is known of k alone.
LEMMA ElsewhereWord ==
    ASSUME IndexInv, NEW w \in Workers, NEW k \in Records, WordFollows(k),
           item[w].record # k, item'[w].record # k, UNCHANGED stream, due'[k] = due[k],
           k \in verificationsByRKey' <=> k \in verificationsByRKey,
           \A v \in Workers \ {w} : pc'[v] = pc[v] /\ item'[v] = item[v]
    PROVE  WordFollows(k)'
<1>1. UNCHANGED <<life, following, wire, last, replays, queue>>
  BY DEF stream
<1>2. Handling(k)' = Handling(k) /\ w \notin Handling(k)
  BY DEF Handling
<1>3. \A v \in Handling(k) : pc'[v] = pc[v] /\ item'[v] = item[v]
  BY <1>2 DEF Handling
<1>4. Agreed(k)'
  BY <1>2, <1>3 DEF WordFollows, Agreed, Settled
<1>5. Made(k).record = k /\ Gone(k).record = k
  BY DEF Made, Gone, Event
<1>6. (Handled(Made(k))' <=> Handled(Made(k))) /\ (Handled(Gone(k))' <=> Handled(Gone(k)))
  BY <1>5 DEF Handled
<1> QED
  BY <1>1, <1>4, <1>6 DEF WordFollows, Happened, InOrder, Coming

\* A worker that goes on with its record needs to agree with the index only.
LEMMA GoesOnWord ==
    ASSUME NEW k, WordFollows(k), UNCHANGED <<stream, item, due>>, Agreed(k)'
    PROVE  WordFollows(k)'
<1>1. UNCHANGED <<life, following, wire, last, replays, queue>>
  BY DEF stream
<1>2. (Handled(Made(k))' <=> Handled(Made(k))) /\ (Handled(Gone(k))' <=> Handled(Gone(k)))
  BY DEF Handled
<1> QED
  BY <1>1, <1>2 DEF WordFollows, Happened, InOrder, Coming

\* A worker takes an event that no other one is at.
LEMMA TakeWord ==
    ASSUME IndexInv, WordInv, NEW w \in Workers, Take(w), NEW k \in Clear'
    PROVE  WordFollows(k)'
<1> DEFINE e == Head(queue)
<1>0. /\ queue \in Seq(Events) /\ queue # <<>> /\ k \in Records /\ None \notin Records
      /\ pc[w] = "idle" /\ item[w] = NoEvent
  BY VerificationAssumption DEF Clear, Take, IndexInv, TypeOK
<1>1. /\ queue' = Tail(queue)
      /\ overlapped' = IF Handling(e.record) = {} THEN overlapped
                       ELSE overlapped \cup {e.record}
      /\ UNCHANGED <<life, wire, last, verificationsByRKey, due, lost>>
  BY DEF Take, store, words
<1>2. /\ item'[w] = e /\ pc'[w] = IF e.op = "create" THEN "insert" ELSE "lookup"
      /\ \A v \in Workers \ {w} : pc'[v] = pc[v] /\ item'[v] = item[v]
  BY DEF Take, IndexInv, TypeOK
<1>3. k \in Clear /\ WordFollows(k) /\ e \in Events
  BY <1>0, <1>1, EventsQueue DEF Clear, WordInv
<1>h. Happened(k) /\ InOrder(k) /\ Coming(k) /\ Agreed(k)
  BY <1>3 DEF WordFollows
<1>4. /\ \A x : Has(queue, x) <=> Has(queue', x) \/ x = e
      /\ Ordered(queue, k) => Ordered(queue', k) /\ (e = Gone(k) => ~Has(queue', Made(k)))
      /\ Led(queue, k) => e # Gone(k) /\ (e # Made(k) => Led(queue', k))
  BY <1>0, <1>1, Removed
<1>5. /\ Made(k) # Gone(k) /\ Made(k).op = "create" /\ Gone(k).op = "delete"
      /\ Made(k) # NoEvent /\ Gone(k) # NoEvent
      /\ e.record = k <=> e \in {Made(k), Gone(k)}
  BY <1>0, <1>3, EventFacts
<1> HIDE DEF e
<1>6. \A x : x # NoEvent => (Handled(x)' <=> Handled(x) \/ x = e)
  BY <1>0, <1>2 DEF Handled
<1>7. (Handled(Made(k)) \/ Handled(Gone(k))) => Handling(k) # {}
  <2>1. Made(k).record = k /\ Gone(k).record = k
    BY DEF Made, Gone, Event
  <2> QED
    BY <2>1 DEF Handled, Handling
<1>8. CASE e.record # k
  <2>1. Handling(k)' = Handling(k) /\ w \notin Handling(k)
    BY <1>0, <1>2, <1>8 DEF Handling, NoEvent
  <2>2. \A v \in Handling(k) : pc'[v] = pc[v] /\ item'[v] = item[v]
    BY <1>2, <2>1 DEF Handling
  <2>3. Agreed(k)'
    BY <1>1, <1>h, <2>1, <2>2 DEF Agreed, Settled
  <2>4. Happened(k)'
    BY <1>h, <1>1, <1>4, <1>5, <1>6, <1>8 DEF Happened
  <2>5. InOrder(k)'
    BY <1>h, <1>1, <1>4, <1>5, <1>6, <1>8 DEF InOrder
  <2>6. Coming(k)'
    BY <1>h, <1>1, <1>4, <1>5, <1>6, <1>8 DEF Coming
  <2> QED
    BY <2>3, <2>4, <2>5, <2>6 DEF WordFollows
<1>9. CASE e.record = k
  <2>1. Handling(k) = {}
    BY <1>1, <1>9 DEF Clear
  <2>2. Handling(k)' = {w}
    BY <1>2, <1>9, <2>1 DEF Handling
  <2>3. Settled(k) /\ Settled(k)' /\ due[k] # "muddled"
    BY <1>1, <1>h, <2>1 DEF Agreed, Settled
  <2>4. CASE e = Made(k)
    <3>1. due[k] # "unverified"
      BY <1>h, <1>4, <2>4 DEF InOrder
    <3>2. Agreed(k)'
      BY <1>1, <1>2, <1>5, <2>2, <2>3, <2>4, <3>1 DEF Agreed
    <3>3. Happened(k)'
      BY <1>h, <1>1, <1>4, <1>5, <1>6, <2>4 DEF Happened
    <3>4. InOrder(k)'
      BY <1>h, <1>1, <1>4, <1>5, <1>6, <1>7, <2>1, <2>4 DEF InOrder
    <3>5. Coming(k)'
      BY <1>h, <1>1, <1>4, <1>5, <1>6, <2>4 DEF Coming
    <3> QED
      BY <3>2, <3>3, <3>4, <3>5 DEF WordFollows
  <2>5. CASE e = Gone(k)
    <3>1. due[k] # "nothing"
      BY <1>h, <1>4, <1>7, <2>1, <2>5 DEF Coming
    <3>2. Agreed(k)'
      BY <1>1, <1>2, <1>5, <2>2, <2>3, <2>5, <3>1 DEF Agreed
    <3>3. Happened(k)'
      BY <1>h, <1>1, <1>4, <1>5, <1>6, <2>5 DEF Happened
    <3>4. InOrder(k)'
      BY <1>h, <1>1, <1>4, <1>5, <1>6, <2>5 DEF InOrder
    <3>5. Coming(k)'
      BY <1>h, <1>1, <1>4, <1>5, <1>6, <2>5, <3>1 DEF Coming
    <3> QED
      BY <3>2, <3>3, <3>4, <3>5 DEF WordFollows
  <2> QED
    BY <1>5, <1>9, <2>4, <2>5
<1> QED
  BY <1>8, <1>9

\* The steps of a handler on its record, and on the records of others.
Stepping(w) == Insert(w) \/ Remember(w) \/ Lookup(w) \/ DeleteRow(w) \/ Forget(w) \/ Notify(w)

LEMMA StepMoves ==
    ASSUME IndexInv, NEW w \in Workers, Stepping(w)
    PROVE  /\ pc[w] # "idle" /\ item[w] \in Events /\ item'[w] \in {item[w], NoEvent}
           /\ \A v \in Workers \ {w} : pc'[v] = pc[v] /\ item'[v] = item[v]
           /\ \A k \in Records : k # item[w].record =>
                 /\ due'[k] = due[k]
                 /\ k \in verificationsByRKey' <=> k \in verificationsByRKey
           /\ UNCHANGED <<stream, overlapped>> /\ lost \subseteq lost'
<1>1. /\ pc[w] # "idle" /\ item[w] \in Events
  BY DEF Stepping, Insert, Remember, Lookup, DeleteRow, Forget, Notify, IndexInv, TypeOK
<1>2. \E step \in {"remember", "delete", "forget", "notify"} : Goto(w, step) \/ Done(w)
  BY DEF Stepping, Insert, Remember, Lookup, DeleteRow, Forget, Notify
<1>3. /\ item'[w] \in {item[w], NoEvent}
      /\ \A v \in Workers \ {w} : pc'[v] = pc[v] /\ item'[v] = item[v]
  BY <1>1, <1>2, WorkerMoves
<1>4. UNCHANGED <<stream, overlapped>> /\ lost \subseteq lost'
  BY DEF Stepping, Insert, Remember, Lookup, DeleteRow, Forget, Notify
<1>5. ASSUME NEW k \in Records, k # item[w].record
      PROVE  due'[k] = due[k] /\ (k \in verificationsByRKey' <=> k \in verificationsByRKey)
  <2>1. due \in [Records -> {"nothing", "verified", "unverified", "muddled"}]
    BY DEF IndexInv, TypeOK
  <2> QED
    BY <1>5, <2>1 DEF Stepping, Insert, Remember, Lookup, DeleteRow, Forget, Notify, store,
       words
<1> QED
  BY <1>1, <1>3, <1>4, <1>5

\* The one worker at k goes on with it.
LEMMA AgreedStep ==
    ASSUME NEW w, NEW k, item[w].record = k, Handling(k) = {w},
           UNCHANGED item, due'[k] # "muddled",
           \/ /\ item[w] = Made(k) /\ due'[k] # "unverified"
              /\ \/ pc'[w] = "remember"
                 \/ pc'[w] = "notify" /\ k \in verificationsByRKey'
           \/ /\ item[w] = Gone(k) /\ due'[k] = "verified"
              /\ \/ pc'[w] \in {"delete", "forget"}
                 \/ pc'[w] = "notify" /\ k \notin verificationsByRKey'
    PROVE  Agreed(k)'
<1>1. Handling(k)' = {w}
  BY DEF Handling
<1> QED
  BY <1>1 DEF Agreed

\* The handlers of k: what they tell follows what was due, and agrees with the index.
LEMMA HandlerWord ==
    ASSUME IndexInv, WordInv, NEW w \in Workers, Stepping(w), NEW k \in Clear',
           item[w].record = k
    PROVE  WordFollows(k)'
<1>0. k \in Records /\ k \in Records /\ None \notin Records
  BY VerificationAssumption DEF Clear
<1>1. k \in Clear /\ WordFollows(k)
  BY StepMoves DEF Clear, WordInv
<1>2. Handling(k) = {w}
  <2>1. IndexFollows(k)
    BY <1>0, <1>1 DEF Clear, IndexInv
  <2>2. w \in Handling(k)
    BY DEF Handling
  <2> QED
    BY <2>1, <2>2 DEF IndexFollows
<1>3. /\ item[w] \in {Made(k), Gone(k)} /\ Made(k) # Gone(k)
      /\ Made(k).op = "create" /\ Gone(k).op = "delete"
  BY <1>0, StepMoves, EventFacts
<1>h. Happened(k) /\ InOrder(k) /\ Coming(k) /\ Agreed(k)
  BY <1>1 DEF WordFollows
<1>a. /\ due[k] # "muddled"
      /\ \/ /\ item[w] = Made(k) /\ due[k] # "unverified"
            /\ \/ pc[w] = "insert" /\ Settled(k)
               \/ pc[w] = "remember"
               \/ pc[w] = "notify" /\ k \in verificationsByRKey
         \/ /\ item[w] = Gone(k)
            /\ \/ pc[w] = "lookup" /\ due[k] # "nothing" /\ Settled(k)
               \/ pc[w] \in {"delete", "forget"} /\ due[k] = "verified"
               \/ pc[w] = "notify" /\ due[k] = "verified" /\ k \notin verificationsByRKey
  BY <1>2, <1>h DEF Agreed
<1>m. \A step \in {"remember", "delete", "forget", "notify"} :
         Goto(w, step) => pc'[w] = step /\ UNCHANGED item
  BY DEF Goto, IndexInv, TypeOK
<1>d. /\ Handled(Made(k)) <=> item[w] = Made(k)
      /\ Handled(Gone(k)) <=> item[w] = Gone(k)
  <2>1. Made(k).record = k /\ Gone(k).record = k
    BY DEF Made, Gone, Event
  <2> QED
    BY <1>2, <2>1 DEF Handled, Handling
<1>e. ASSUME Done(w) PROVE Handling(k)' = {} /\ ~Handled(Made(k))' /\ ~Handled(Gone(k))'
  <2>1. item'[w] = NoEvent /\ \A v \in Workers \ {w} : item'[v] = item[v]
    BY <1>e DEF Done, IndexInv, TypeOK
  <2>2. Handling(k)' = {}
    BY <1>0, <1>2, <2>1 DEF Handling, NoEvent
  <2>3. Made(k).record = k /\ Gone(k).record = k
    BY DEF Made, Gone, Event
  <2> QED
    BY <2>2, <2>3 DEF Handled, Handling
<1>k. due[k] \in {"nothing", "verified", "unverified", "muddled"}
  BY <1>0 DEF IndexInv, TypeOK
<1>4. CASE Insert(w)
  <2>1. pc[w] = "insert" /\ k \notin lost'
    BY <1>4 DEF Insert, Clear
  <2>2. Goto(w, "remember") /\ UNCHANGED <<stream, due>>
    BY <1>4, <2>1 DEF Insert, words
  <2>3. Agreed(k)'
    BY <1>2, <1>a, <1>m, <2>1, <2>2, AgreedStep
  <2> QED
    BY <1>1, <1>m, <2>2, <2>3, GoesOnWord
<1>5. CASE Remember(w)
  <2>1. /\ pc[w] = "remember" /\ Goto(w, "notify") /\ UNCHANGED <<stream, due>>
        /\ k \in verificationsByRKey'
    BY <1>5 DEF Remember, words
  <2>3. Agreed(k)'
    BY <1>2, <1>a, <1>m, <2>1, AgreedStep
  <2> QED
    BY <1>1, <1>m, <2>1, <2>3, GoesOnWord
<1>6. CASE Lookup(w)
  <2>1. pc[w] = "lookup" /\ UNCHANGED <<stream, due, verificationsByRKey>>
    BY <1>6 DEF Lookup, store, words
  <2>2. CASE k \in verificationsByRKey
    <3>1. Goto(w, "delete") /\ due[k] = "verified"
      BY <1>6, <1>a, <2>1, <2>2 DEF Lookup, Settled
    <3>2. Agreed(k)'
      BY <1>2, <1>a, <1>m, <2>1, <3>1, AgreedStep
    <3> QED
      BY <1>1, <1>m, <2>1, <3>1, <3>2, GoesOnWord
  <2>3. CASE k \notin verificationsByRKey
    <3>1. Done(w) /\ due[k] = "unverified"
      BY <1>6, <1>a, <1>k, <2>1, <2>3 DEF Lookup, Settled
    <3>2. Agreed(k)'
      BY <1>a, <1>e, <2>1, <2>3, <3>1 DEF Agreed, Settled
    <3>3. UNCHANGED <<life, wire, last, queue, due>>
      BY <2>1 DEF stream
    <3>4. (Happened(k) /\ InOrder(k) /\ Coming(k))'
      BY <1>h, <1>e, <3>1, <3>3 DEF Happened, InOrder, Coming
    <3> QED
      BY <3>2, <3>4 DEF WordFollows
  <2> QED
    BY <2>2, <2>3
<1>7. CASE DeleteRow(w)
  <2>1. pc[w] = "delete" /\ k \notin lost'
    BY <1>7 DEF DeleteRow, Clear
  <2>2. Goto(w, "forget") /\ UNCHANGED <<stream, due>>
    BY <1>7, <2>1 DEF DeleteRow, words
  <2>3. Agreed(k)'
    BY <1>2, <1>a, <1>m, <2>1, <2>2, AgreedStep
  <2> QED
    BY <1>1, <1>m, <2>2, <2>3, GoesOnWord
<1>8. CASE Forget(w)
  <2>1. /\ pc[w] = "forget" /\ Goto(w, "notify") /\ UNCHANGED <<stream, due>>
        /\ k \notin verificationsByRKey'
    BY <1>8 DEF Forget, words
  <2>3. Agreed(k)'
    BY <1>2, <1>a, <1>m, <2>1, AgreedStep
  <2> QED
    BY <1>1, <1>m, <2>1, <2>3, GoesOnWord
<1>9. CASE Notify(w)
  <2>1. /\ pc[w] = "notify" /\ Done(w) /\ UNCHANGED <<stream, store>>
        /\ due'[k] = NextWord(due[k], item[w].op)
    BY <1>0, <1>9 DEF Notify, IndexInv, TypeOK
  <2>2. UNCHANGED <<life, wire, last, queue, verificationsByRKey>>
    BY <2>1 DEF stream, store
  <2>3. CASE item[w] = Made(k)
    <3>1. due'[k] = "verified" /\ k \in verificationsByRKey
      BY <1>3, <1>a, <1>k, <2>1, <2>3 DEF NextWord
    <3>2. Agreed(k)'
      BY <1>e, <2>1, <2>2, <3>1 DEF Agreed, Settled
    <3>3. (Happened(k) /\ InOrder(k) /\ Coming(k))'
      BY <1>h, <1>a, <1>d, <1>e, <1>3, <2>1, <2>2, <2>3, <3>1 DEF Happened, InOrder, Coming
    <3> QED
      BY <3>2, <3>3 DEF WordFollows
  <2>4. CASE item[w] = Gone(k)
    <3>1. due'[k] = "unverified" /\ k \notin verificationsByRKey
      BY <1>3, <1>a, <2>1, <2>4 DEF NextWord
    <3>2. Agreed(k)'
      BY <1>e, <2>1, <2>2, <3>1 DEF Agreed, Settled
    <3>3. (Happened(k) /\ InOrder(k) /\ Coming(k))'
      BY <1>h, <1>a, <1>d, <1>e, <1>3, <2>1, <2>2, <2>4, <3>1 DEF Happened, InOrder, Coming
    <3> QED
      BY <3>2, <3>3 DEF WordFollows
  <2> QED
    BY <1>3, <2>3, <2>4
<1> QED
  BY <1>4, <1>5, <1>6, <1>7, <1>8, <1>9 DEF Stepping

\* An event of k that is in the stream is awaited.
LEMMA NotAwaited ==
    ASSUME IndexInv, NEW k \in Records, ~Awaited(k), Handling(k) = {}
    PROVE  /\ ~Has(wire, Made(k)) /\ ~Has(wire, Gone(k)) /\ ~Has(queue, Made(k)) /\ ~Has(queue, Gone(k))
           /\ ~Handled(Made(k)) /\ ~Handled(Gone(k))
<1>0. wire \in Seq(Events) /\ queue \in Seq(Events)
  BY DEF IndexInv, TypeOK
<1>1. Made(k).record = k /\ Gone(k).record = k
  BY DEF Made, Gone, Event
<1>2. /\ Len(wire) \in Nat /\ Len(queue) \in Nat /\ Len(wire \o queue) = Len(wire) + Len(queue)
      /\ \A i \in 1..Len(wire \o queue) :
            (wire \o queue)[i] = IF i <= Len(wire) THEN wire[i] ELSE queue[i - Len(wire)]
      /\ DOMAIN (wire \o queue) = 1..Len(wire \o queue)
  BY <1>0, ConcatProperties, LenProperties
<1>3. \A i \in 1..Len(wire \o queue) : (wire \o queue)[i].record # k
  BY <1>2 DEF Awaited, ToSet
<1>4. ASSUME NEW i \in 1..Len(wire) PROVE wire[i].record # k
  BY <1>2, <1>3
<1>5. ASSUME NEW i \in 1..Len(queue) PROVE queue[i].record # k
  <2>1. Len(wire) + i \in 1..Len(wire \o queue) /\ (wire \o queue)[Len(wire) + i] = queue[i]
    BY <1>2
  <2> QED
    BY <1>3, <2>1
<1> QED
  BY <1>1, <1>4, <1>5 DEF Has, Handled, Handling

\* A record that is at rest was told of as it is.
LEMMA AtRest ==
    ASSUME IndexInv, WordInv, NEW k \in Clear, ~Awaited(k), Handling(k) = {}
    PROVE  /\ due[k] = CASE life[k] = "none"    -> "nothing"
                          [] life[k] = "live"    -> "verified"
                          [] life[k] = "deleted" -> "unverified"
           /\ Settled(k)
<1>0. k \in Records /\ WordFollows(k)
  BY VerificationAssumption DEF Clear, WordInv
<1>1. /\ ~Has(wire, Made(k)) /\ ~Has(wire, Gone(k)) /\ ~Has(queue, Made(k)) /\ ~Has(queue, Gone(k))
      /\ ~Handled(Made(k)) /\ ~Handled(Gone(k))
  BY <1>0, NotAwaited
<1>2. /\ life[k] \in {"none", "live", "deleted"}
      /\ due[k] \in {"nothing", "verified", "unverified", "muddled"}
  BY <1>0 DEF IndexInv, TypeOK
<1>3. /\ due[k] # "muddled" /\ Settled(k)
      /\ due[k] # "nothing" => life[k] # "none"
      /\ due[k] = "unverified" => life[k] = "deleted"
      /\ life[k] # "none" => due[k] # "nothing"
      /\ life[k] = "deleted" => due[k] = "unverified"
  BY <1>0, <1>1 DEF WordFollows, Happened, Coming, Agreed
<1> QED
  BY <1>2, <1>3

\* A restart forgets what was not handled, and reads the index back from the table.
LEMMA RestartWord ==
    ASSUME IndexInv, WordInv, Restart, NEW k \in Clear'
    PROVE  WordFollows(k)'
<1>0. k \in Records /\ None \notin Records
  BY VerificationAssumption DEF Clear
<1>1. /\ verificationsByRKey' = verifications /\ UNCHANGED <<life, due>>
      /\ wire' = <<>> /\ queue' = <<>> /\ last' = NoEvent /\ overlapped' = {}
      /\ lost' = lost \cup overlapped \cup {r \in Records : Awaited(r) \/ Handling(r) # {}}
      /\ item' = [w \in Workers |-> NoEvent]
  BY DEF Restart, words
<1>2. k \in Clear /\ ~Awaited(k) /\ Handling(k) = {}
  BY <1>0, <1>1 DEF Clear
<1>3. WordFollows(k) /\ IndexFollows(k)
  BY <1>0, <1>2 DEF WordInv, Clear, IndexInv
<1>4. /\ life[k] \in {"none", "live", "deleted"} /\ due[k] # "muddled"
      /\ due[k] = CASE life[k] = "none"    -> "nothing"
                     [] life[k] = "live"    -> "verified"
                     [] life[k] = "deleted" -> "unverified"
      /\ Settled(k)
  BY <1>0, <1>2, <1>3, AtRest DEF WordFollows, Agreed, IndexInv, TypeOK
<1>5. /\ ~Has(wire, Made(k))' /\ ~Has(wire, Gone(k))' /\ ~Has(queue, Made(k))' /\ ~Has(queue, Gone(k))'
      /\ (Ordered(wire, k) /\ Ordered(queue, k) /\ Led(wire, k) /\ Led(queue, k))'
  BY <1>1 DEF Has, Ordered, Led
<1>6. ~Handled(Made(k))' /\ ~Handled(Gone(k))' /\ Handling(k)' = {} /\ last' \notin {Made(k), Gone(k)}
  <2>1. Made(k) # NoEvent /\ Gone(k) # NoEvent
    BY <1>0, EventFacts
  <2> QED
    BY <1>0, <1>1, <2>1 DEF Handled, Handling, NoEvent
<1>7. Agreed(k)'
  <2>1. k \in verificationsByRKey' <=> k \in verificationsByRKey
    BY <1>1, <1>2, <1>3 DEF IndexFollows
  <2> QED
    BY <1>1, <1>4, <1>6, <2>1 DEF Agreed, Settled
<1>8. Happened(k)' /\ InOrder(k)' /\ Coming(k)'
  <2>1. /\ due[k] # "nothing" <=> life[k] # "none"
        /\ due[k] = "unverified" <=> life[k] = "deleted"
    BY <1>4
  <2> QED
    BY <1>1, <1>5, <1>6, <2>1 DEF Happened, InOrder, Coming
<1> QED
  BY <1>7, <1>8 DEF WordFollows

LEMMA WordStep ==
    ASSUME IndexInv, WordInv, [Next]_vars
    PROVE  WordInv'
<1> SUFFICES ASSUME NEW k \in Clear' PROVE WordFollows(k)'
  BY DEF WordInv, Clear
<1>0. k \in Records
  BY VerificationAssumption DEF Clear
<1>1. CASE UNCHANGED vars
  <2>1. UNCHANGED <<stream, pc, item, verificationsByRKey, due, overlapped, lost>>
    BY <1>1 DEF vars, store, words
  <2>2. k \in Clear /\ WordFollows(k)
    BY <2>1 DEF Clear, WordInv
  <2>3. Agreed(k)'
    BY <2>1, <2>2 DEF WordFollows, Agreed, Settled, Handling
  <2> QED
    BY <2>1, <2>2, <2>3, GoesOnWord
<1>2. ASSUME NEW r \in Records, Create(r) \/ Delete(r) PROVE WordFollows(k)'
  BY <1>2, CreateWord, DeleteWord
<1>3. CASE Reconnect
  <2>1. k \in Clear
    BY <1>3 DEF Reconnect, Clear
  <2> QED
    BY <1>3, <2>1, ReconnectWord
<1>4. ASSUME NEW w \in Workers, Stepping(w) PROVE WordFollows(k)'
  <2>1. CASE item[w].record = k
    BY <1>4, <2>1, HandlerWord
  <2>2. CASE item[w].record # k
    <3>1. k \in Clear /\ WordFollows(k)
      BY <1>4, StepMoves DEF Clear, WordInv
    <3>2. item'[w].record # k
      BY <1>0, <1>4, <2>2, StepMoves, VerificationAssumption DEF NoEvent
    <3>3. /\ due'[k] = due[k] /\ UNCHANGED stream
          /\ k \in verificationsByRKey' <=> k \in verificationsByRKey
          /\ \A v \in Workers \ {w} : pc'[v] = pc[v] /\ item'[v] = item[v]
      BY <1>0, <1>4, <2>2, StepMoves
    <3> QED
      BY <1>0, <2>2, <3>1, <3>2, <3>3, ElsewhereWord
  <2> QED
    BY <2>1, <2>2
<1>5. CASE Connect \/ Disconnect
  BY <1>5, LinkWord
<1> QED
  BY <1>1, <1>2, <1>3, <1>4, <1>5, ReadWord, RestartWord, TakeWord DEF Next, Handle, Stepping

\* What the subject heard is what was due, or as much of it as was not withheld.
Heard(k) ==
    /\ \/ told[k] = due[k]
       \/ told[k] = "nothing"
       \/ told[k] = "verified" /\ due[k] = "unverified"
    /\ k \notin withheld => told[k] = due[k]
HeardInv == \A k \in Clear : Heard(k)

LEMMA HeardStep ==
    ASSUME IndexInv, WordInv, HeardInv, [Next]_vars
    PROVE  HeardInv'
<1> SUFFICES ASSUME NEW k \in Clear' PROVE Heard(k)'
  BY DEF HeardInv, Clear
<1>1. k \in Records /\ WordFollows(k)'
  BY WordStep DEF WordInv, Clear
<1>2. k \in Clear
  <2>1. CASE Next
    <3>1. CASE Restart
      BY <3>1 DEF Restart, Clear
    <3>2. ASSUME NEW w \in Workers, Take(w) PROVE k \in Clear
      BY <3>2 DEF Take, Clear
    <3>3. ASSUME NEW w \in Workers, Stepping(w) PROVE k \in Clear
      BY <3>3, StepMoves DEF Clear
    <3>4. ASSUME NEW r \in Records, Create(r) \/ Delete(r) PROVE k \in Clear
      BY <3>4 DEF Create, Delete, Send, Clear
    <3>5. CASE Connect \/ Disconnect \/ Read \/ Reconnect
      BY <3>5 DEF Connect, Disconnect, Read, Reconnect, Clear
    <3> QED
      BY <2>1, <3>1, <3>2, <3>3, <3>4, <3>5 DEF Next, Handle, Stepping
  <2>2. CASE UNCHANGED vars
    BY <2>2 DEF vars, Clear
  <2> QED
    BY <2>1, <2>2
<1>3. Heard(k) /\ due[k] # "muddled" /\ due'[k] # "muddled"
  <2>1. Heard(k) /\ Agreed(k) /\ Agreed(k)'
    BY <1>1, <1>2 DEF HeardInv, WordInv, Clear, WordFollows
  <2>2. (Agreed(k) => due[k] # "muddled") /\ (Agreed(k)' => due'[k] # "muddled")
    BY DEF Agreed
  <2> QED
    BY <2>1, <2>2
<1>4. CASE UNCHANGED words
  BY <1>3, <1>4 DEF Heard, words
<1>5. ASSUME NEW w \in Workers, Notify(w) PROVE Heard(k)'
  <2>1. /\ due \in [Records -> {"nothing", "verified", "unverified", "muddled"}]
        /\ told \in [Records -> {"nothing", "verified", "unverified", "muddled"}]
        /\ item[w].record \in Records
    BY <1>5 DEF IndexInv, TypeOK, Notify, Events
  <2>2. CASE item[w].record # k
    BY <1>1, <1>3, <1>5, <2>1, <2>2 DEF Notify, Heard
  <2>3. CASE item[w].record = k
    <3>1. due'[k] = NextWord(due[k], item[w].op)
      BY <1>1, <1>5, <2>1, <2>3 DEF Notify
    <3>2. \/ due[k] \in {"nothing", "verified"} /\ due'[k] = "verified"
          \/ due[k] = "verified" /\ due'[k] = "unverified"
      BY <1>3, <3>1 DEF NextWord
    <3>3. told'[k] = due'[k] \/ (told'[k] = told[k] /\ k \in withheld')
      BY <1>1, <1>5, <2>1, <2>3 DEF Notify
    <3> QED
      BY <1>3, <3>2, <3>3 DEF Heard
  <2> QED
    BY <2>2, <2>3
<1> QED
  BY <1>4, <1>5 DEF Next, Handle, vars, Create, Delete, Send, Connect, Disconnect, Read, Reconnect,
     Restart, Take, Insert, Remember, Lookup, DeleteRow, Forget

\* What a subject is told of a record makes sense and has happened, and it is true in the
\* end unless something was withheld, however often events are repeated, connections end,
\* the process restarts and other records are handled.
THEOREM LastWordTrue == Spec => []LastWord
<1>1. Init => IndexInv /\ WordInv /\ HeardInv
  <2> SUFFICES ASSUME Init, NEW k \in Records PROVE WordFollows(k) /\ Heard(k)
    BY IndexInit DEF WordInv, HeardInv, Clear
  <2>0. k \in Records /\ None \notin Records /\ Made(k) # NoEvent /\ Gone(k) # NoEvent
    BY VerificationAssumption, EventFacts
  <2>1. /\ life[k] = "none" /\ wire = <<>> /\ queue = <<>> /\ last = NoEvent
        /\ due[k] = "nothing" /\ told[k] = due[k] /\ verificationsByRKey = {}
        /\ item = [w \in Workers |-> NoEvent]
    BY <2>0 DEF Init
  <2>2. Handling(k) = {} /\ ~Handled(Made(k)) /\ ~Handled(Gone(k))
    BY <2>0, <2>1 DEF Handling, Handled, NoEvent
  <2>3. Agreed(k)
    BY <2>1, <2>2 DEF Agreed, Settled
  <2>4. /\ ~Has(wire, Made(k)) /\ ~Has(wire, Gone(k)) /\ ~Has(queue, Made(k)) /\ ~Has(queue, Gone(k))
        /\ Ordered(wire, k) /\ Ordered(queue, k) /\ Led(wire, k) /\ Led(queue, k)
    BY <2>1 DEF Has, Ordered, Led
  <2> QED
    BY <2>0, <2>1, <2>2, <2>3, <2>4 DEF WordFollows, Happened, InOrder, Coming, Heard
<1>2. IndexInv /\ WordInv /\ HeardInv /\ [Next]_vars => (IndexInv /\ WordInv /\ HeardInv)'
  BY IndexStep, WordStep, HeardStep
<1>3. IndexInv /\ WordInv /\ HeardInv => LastWord
  <2> SUFFICES ASSUME IndexInv, WordInv, HeardInv, NEW k \in Clear
               PROVE  /\ told[k] # "muddled"
                      /\ told[k] # "nothing" => life[k] # "none"
                      /\ told[k] = "unverified" => life[k] = "deleted"
                      /\ Handling(k) = {} /\ ~Awaited(k) /\ k \notin withheld =>
                            told[k] = CASE life[k] = "none"    -> "nothing"
                                        [] life[k] = "live"    -> "verified"
                                        [] life[k] = "deleted" -> "unverified"
    BY DEF LastWord, Clear
  <2>1. /\ Heard(k) /\ due[k] # "muddled"
        /\ due[k] # "nothing" => life[k] # "none"
        /\ due[k] = "unverified" => life[k] = "deleted"
    BY DEF HeardInv, WordInv, Clear, WordFollows, Agreed, Happened
  <2> QED
    BY <2>1, AtRest DEF Heard
<1> QED
  BY <1>1, <1>2, <1>3, PTL DEF Spec
=============================================================================
