---------------------------- MODULE ConsumerProofs ----------------------------
(* Theorems about module Consumer, for every value of its constants. *)
EXTENDS Consumer, SequenceTheorems, TLAPS

\* What a start goes back to: a handler that stored a token, or a token in the store.
StartInv ==
    /\ hpc \in [Handlers -> {"idle", "notify", "close"}]
    /\ stored \/ started \/ (\E h \in Handlers : hpc[h] # "idle") => tokenEver
    /\ NoTrafficBeforeToken
    /\ WaitingIsAccounted

\* A connection and its ping loop are connect's.
ConnectionInv == run \notin {"check", "read", "closing"} => ~connOpen /\ ~pinger

\* The steps that leave the start of the consumer alone.
Runs == \/ LoopDials \/ DialFails \/ Dial \/ ReadCheck \/ ReadMessage
        \/ \E how \in {"closed", "error"} : ReadFails(how)
        \/ ConnectReturns \/ Decide \/ BackoffElapses
Works == \E w \in Workers : Take(w) \/ AskToken(w) \/ Finish(w) \/ WorkerStops(w)

LEMMA StartStep ==
    ASSUME StartInv, [Next]_vars
    PROVE  StartInv'
<1>1. CASE UNCHANGED <<hpc, stored, started, tokenEver, run>>
  BY <1>1 DEF StartInv, NoTrafficBeforeToken, WaitingIsAccounted
<1>2. CASE Runs
  <2>1. /\ UNCHANGED <<hpc, stored, started, tokenEver>> /\ run \notin {"down", "waiting", "exited"}
        /\ run' # "waiting"
    BY <1>2 DEF Runs, LoopDials, DialFails, Dial, ReadCheck, ReadMessage, ReadFails, ConnectReturns,
                Decide, BackoffElapses, startup
  <2> QED BY <2>1 DEF StartInv, NoTrafficBeforeToken, WaitingIsAccounted
<1>3. CASE Start \/ RunStops \/ Crash
  <2>1. /\ UNCHANGED <<stored, tokenEver>>
        /\ \/ UNCHANGED <<hpc, started>> /\ started /\ run' # "waiting"
           \/ UNCHANGED <<hpc, started>> /\ run' = "exited"
           \/ hpc' = [h \in Handlers |-> "idle"] /\ started' = FALSE /\ run' = "down"
    BY <1>3 DEF Start, RunStops, Crash, startup
  <2> QED BY <2>1 DEF StartInv, NoTrafficBeforeToken, WaitingIsAccounted
<1>4. CASE NewConsumer
  BY <1>4 DEF NewConsumer, StartInv, NoTrafficBeforeToken, WaitingIsAccounted
<1>5. ASSUME NEW h \in Handlers, TokenStored(h)
      PROVE  StartInv'
  <2>1. /\ stored' /\ tokenEver' /\ hpc' = [hpc EXCEPT ![h] = "notify"] /\ UNCHANGED <<started, run>>
    BY <1>5 DEF TokenStored, connection
  <2>2. hpc'[h] = "notify"
    BY <2>1 DEF StartInv
  <2> QED BY <2>1, <2>2 DEF StartInv, NoTrafficBeforeToken, WaitingIsAccounted
<1>6. ASSUME NEW h \in Handlers, NotifySelect(h)
      PROVE  StartInv'
  <2>1. /\ hpc[h] = "notify" /\ hpc' = [hpc EXCEPT ![h] = IF started THEN "idle" ELSE "close"]
        /\ UNCHANGED <<stored, tokenEver, started, run>>
    BY <1>6 DEF NotifySelect, connection
  <2>2. ~started => hpc'[h] = "close"
    BY <2>1 DEF StartInv
  <2>3. tokenEver
    BY <2>1 DEF StartInv
  <2> QED BY <2>1, <2>2, <2>3 DEF StartInv, NoTrafficBeforeToken, WaitingIsAccounted
<1>7. ASSUME NEW h \in Handlers, NotifyClose(h)
      PROVE  StartInv'
  <2>1. /\ hpc[h] = "close" /\ hpc' = [hpc EXCEPT ![h] = "idle"] /\ started'
        /\ UNCHANGED <<stored, tokenEver, run>>
    BY <1>7 DEF NotifyClose, connection
  <2>2. tokenEver
    BY <2>1 DEF StartInv
  <2> QED BY <2>1, <2>2 DEF StartInv, NoTrafficBeforeToken, WaitingIsAccounted
<1>8. CASE TokensGone
  BY <1>8 DEF TokensGone, connection, StartInv, NoTrafficBeforeToken, WaitingIsAccounted
<1>9. \/ UNCHANGED <<hpc, stored, started, tokenEver, run>> \/ Runs
      \/ Start \/ RunStops \/ Crash \/ NewConsumer \/ TokensGone
      \/ \E h \in Handlers : TokenStored(h) \/ NotifySelect(h) \/ NotifyClose(h)
  <2>1. UNCHANGED vars => UNCHANGED <<hpc, stored, started, tokenEver, run>>
    BY DEF vars, startup, connection
  <2>2. (\E k \in Kinds : Publish(k)) \/ Stop \/ PingFails \/ PingerStops \/ Works
           => UNCHANGED <<hpc, stored, started, tokenEver, run>>
    BY DEF Publish, Stop, PingFails, PingerStops, Works, Take, AskToken, Finish, WorkerStops, startup, connection
  <2> QED BY <2>1, <2>2 DEF Next, RunStep, Runs, Works
<1> QED BY <1>1, <1>2, <1>3, <1>4, <1>5, <1>6, <1>7, <1>8, <1>9

LEMMA ConnectionStep ==
    ASSUME ConnectionInv, [Next]_vars
    PROVE  ConnectionInv'
<1>1. CASE RunStep
  BY <1>1 DEF RunStep, Start, RunStops, LoopDials, DialFails, Dial, ReadCheck, ReadMessage, ReadFails,
     PingFails, ConnectReturns, Decide, BackoffElapses, ConnectionInv
<1>2. CASE PingerStops \/ Crash \/ NewConsumer
  BY <1>2 DEF PingerStops, Crash, NewConsumer, ConnectionInv
<1>3. CASE UNCHANGED <<run, connOpen, pinger>>
  BY <1>3 DEF ConnectionInv
<1>4. RunStep \/ PingerStops \/ Crash \/ NewConsumer \/ UNCHANGED <<run, connOpen, pinger>>
  <2>1. UNCHANGED vars => UNCHANGED <<run, connOpen, pinger>>
    BY DEF vars, connection
  <2>2. \/ \E k \in Kinds : Publish(k)
        \/ \E h \in Handlers : TokenStored(h) \/ NotifySelect(h) \/ NotifyClose(h)
        \/ TokensGone \/ Stop \/ Works
        => UNCHANGED <<run, connOpen, pinger>>
    BY DEF Publish, TokenStored, NotifySelect, NotifyClose, TokensGone, Stop, Works, Take, AskToken, Finish,
           WorkerStops, connection
  <2> QED BY <2>1, <2>2 DEF Next, Works
<1> QED BY <1>1, <1>2, <1>3, <1>4

-----------------------------------------------------------------------------
\* The types, what a worker holds, and where the cursor and the connection stand.
TypeInv ==
    /\ TypeOK
    /\ next <= Len(stream) + 1 /\ cursor <= Len(stream)
    /\ \A w \in Workers : IF wpc[w] \in {"busy", "oauth"} THEN item[w] \in Events ELSE item[w] = 0
    /\ run \in {"waiting", "down"} => \A w \in Workers : wpc[w] = "none"

\* Bounds are natural numbers, and so are the positions of events.
LEMMA Numbers ==
    /\ MaxEvents \in Nat /\ MaxCrashes \in Nat /\ QueueCap \in Nat /\ QueueCap > 0
    /\ MaxBackoff \in Nat /\ MaxBackoff > 0 /\ Events = 1..MaxEvents
  BY QueueAssumption, BackoffAssumption, BoundAssumption DEF Events

\* Events move in sequences.
LEMMA QueueFacts ==
    ASSUME NEW S, NEW s \in Seq(S)
    PROVE  /\ Len(s) \in Nat
           /\ \A e \in S : Append(s, e) \in Seq(S) /\ Len(Append(s, e)) = Len(s) + 1
           /\ s # <<>> => /\ Head(s) \in S /\ Tail(s) \in Seq(S) /\ Len(Tail(s)) = Len(s) - 1
  BY LenProperties, AppendProperties, HeadTailProperties

\* The steps outside connect's reading and the workers.
LEMMA EnvironmentTypes ==
    ASSUME TypeInv, \/ \E k \in Kinds : Publish(k)
                    \/ \E h \in Handlers : TokenStored(h) \/ NotifySelect(h) \/ NotifyClose(h)
                    \/ TokensGone \/ Stop
    PROVE  TypeInv'
<1>1. UNCHANGED <<next, connection, dispatch, since, crashes>>
  BY DEF Publish, TokenStored, NotifySelect, NotifyClose, TokensGone, Stop, environment
<1>2. UNCHANGED <<next, run, connOpen, pinger, ended, backoff, cursor, queue, wpc, item, handled,
                  dropped, since, crashes>>
  BY <1>1 DEF connection, dispatch
<1>3. CASE \E k \in Kinds : Publish(k)
  <2>1. PICK k \in Kinds : Publish(k)
    BY <1>3
  <2>2. stream \in Seq(Kinds) /\ Len(stream) < MaxEvents /\ stream' = Append(stream, k)
    BY <2>1 DEF Publish, TypeInv, TypeOK
  <2>3. /\ stream' \in Seq(Kinds) /\ Len(stream) \in Nat /\ Len(stream') = Len(stream) + 1
        /\ Len(stream') <= MaxEvents
    BY <2>2, QueueFacts, Numbers
  <2>4. UNCHANGED <<stored, tokenEver, hpc, panicked, started, stopped>>
    BY <2>1 DEF Publish, startup
  <2>5. cursor <= Len(stream') /\ next <= Len(stream') + 1
    BY <2>3, Numbers DEF TypeInv, TypeOK
  <2>6. TypeOK'
    BY <1>2, <2>3, <2>4 DEF TypeInv, TypeOK
  <2> QED BY <1>2, <2>5, <2>6 DEF TypeInv
<1>4. CASE ~\E k \in Kinds : Publish(k)
  <2>1. UNCHANGED stream
    BY <1>4 DEF TokenStored, NotifySelect, NotifyClose, TokensGone, Stop, environment
  <2>2. /\ stored' \in BOOLEAN /\ tokenEver' \in BOOLEAN /\ started' \in BOOLEAN
        /\ stopped' \in BOOLEAN /\ panicked' \subseteq Handlers
        /\ hpc' \in [Handlers -> {"idle", "notify", "close"}]
    BY <1>4 DEF TokenStored, NotifySelect, NotifyClose, TokensGone, Stop, startup, TypeInv, TypeOK
  <2>3. TypeOK'
    BY <1>2, <2>1, <2>2 DEF TypeInv, TypeOK
  <2> QED BY <1>2, <2>1, <2>3 DEF TypeInv
<1> QED BY <1>3, <1>4

\* The steps of Run, connect and the ping loop, but for the message read.
LEMMA RunTypes ==
    ASSUME TypeInv, \/ Start \/ RunStops \/ LoopDials \/ DialFails \/ Dial \/ ReadCheck
                    \/ \E how \in {"closed", "error"} : ReadFails(how)
                    \/ PingFails \/ PingerStops \/ ConnectReturns \/ Decide \/ BackoffElapses
    PROVE  TypeInv'
<1>1. /\ UNCHANGED <<stream, startup, stopped, cursor, queue, item, handled, dropped, crashes>>
      /\ TypeOK
  BY DEF Start, RunStops, LoopDials, DialFails, Dial, ReadCheck, ReadFails, PingFails, PingerStops,
         ConnectReturns, Decide, BackoffElapses, environment, dispatch, TypeInv
<1>2. UNCHANGED <<stream, stored, tokenEver, hpc, panicked, started, stopped, cursor, queue, item,
                  handled, dropped, crashes>>
  BY <1>1 DEF startup
<1>3. /\ run' \in {"loop", "dial", "check", "read", "closing", "decide", "backoff", "exited", run}
      /\ run' \in {"waiting", "down"} => run' = run
      /\ connOpen' \in BOOLEAN /\ pinger' \in BOOLEAN /\ ended' \in {"never", "nil", "closed", "error"}
  BY DEF Start, RunStops, LoopDials, DialFails, Dial, ReadCheck, ReadFails, PingFails, PingerStops,
         ConnectReturns, Decide, BackoffElapses, TypeInv, TypeOK
<1>4. backoff' \in 1..MaxBackoff
  <2>1. backoff \in 1..MaxBackoff
    BY <1>1 DEF TypeOK
  <2>2. backoff' \in {backoff, 1, IF 2 * backoff > MaxBackoff THEN MaxBackoff ELSE 2 * backoff}
    BY DEF Start, RunStops, LoopDials, DialFails, Dial, ReadCheck, ReadFails, PingFails,
           PingerStops, ConnectReturns, Decide, BackoffElapses
  <2> QED BY <2>1, <2>2, Numbers
<1>5. next' \in 1..(MaxEvents + 1) /\ next' <= Len(stream) + 1 /\ since' \in 0..(MaxEvents + 1)
  <2>1. /\ Len(stream) \in Nat /\ Len(stream) <= MaxEvents /\ cursor \in Nat
        /\ cursor <= Len(stream) /\ next \in 1..(MaxEvents + 1) /\ next <= Len(stream) + 1
        /\ since \in 0..(MaxEvents + 1)
    BY QueueFacts, Numbers DEF TypeInv, TypeOK
  <2>2. CASE Dial
    <3>1. \/ cursor > 0 /\ next' \in {cursor, cursor + 1} /\ since' = since
          \/ next' = Len(stream) + 1 /\ since' = Len(stream) + 1
      BY <2>2 DEF Dial
    <3> QED BY <2>1, <3>1, Numbers
  <2>3. CASE ~Dial
    <3>1. UNCHANGED <<next, since>>
      BY <2>3 DEF Start, RunStops, LoopDials, DialFails, ReadCheck, ReadFails, PingFails,
             PingerStops, ConnectReturns, Decide, BackoffElapses, environment
    <3> QED BY <2>1, <3>1
  <2> QED BY <2>2, <2>3
<1>6. /\ \A w \in Workers : wpc'[w] = wpc[w] \/ (wpc[w] = "none" /\ wpc'[w] = "idle")
      /\ wpc' \in [Workers -> {"none", "idle", "busy", "oauth", "exited"}]
  <2>1. CASE Start
    BY <2>1 DEF Start, TypeInv
  <2>2. CASE ~Start
    <3>1. UNCHANGED wpc
      BY <2>2 DEF RunStops, LoopDials, DialFails, Dial, ReadCheck, ReadFails, PingFails,
             PingerStops, ConnectReturns, Decide, BackoffElapses, dispatch
    <3>2. wpc \in [Workers -> {"none", "idle", "busy", "oauth", "exited"}]
      BY <1>1 DEF TypeOK
    <3> QED BY <3>1, <3>2
  <2> QED BY <2>1, <2>2
<1>7. run' \in {"waiting", "down"} => UNCHANGED wpc
  BY <1>3 DEF Start, RunStops, LoopDials, DialFails, Dial, ReadCheck, ReadFails, PingFails,
         PingerStops, ConnectReturns, Decide, BackoffElapses, dispatch
<1>8. TypeOK'
  BY <1>1, <1>2, <1>3, <1>4, <1>5, <1>6 DEF TypeOK
<1>9. \A w \in Workers : IF wpc'[w] \in {"busy", "oauth"} THEN item'[w] \in Events ELSE item'[w] = 0
  BY <1>2, <1>6 DEF TypeInv
<1> QED BY <1>2, <1>3, <1>5, <1>7, <1>8, <1>9 DEF TypeInv

\* The message read, the workers, and the process.
LEMMA ReadTypes ==
    ASSUME TypeInv, ReadMessage
    PROVE  TypeInv'
<1>1. /\ TypeOK /\ run' = "check" /\ next' = next + 1 /\ next <= Len(stream)
      /\ cursor' \in {cursor, next}
      /\ UNCHANGED <<stream, stored, tokenEver, hpc, panicked, started, stopped, connOpen, pinger,
                     ended, backoff, wpc, item, handled, since, crashes>>
      /\ \/ Len(queue) < QueueCap /\ queue' = Append(queue, next) /\ UNCHANGED dropped
         \/ UNCHANGED queue /\ dropped' \in {dropped, dropped \cup {next}}
  BY DEF ReadMessage, startup, TypeInv
<1>2. /\ Len(stream) \in Nat /\ Len(stream) <= MaxEvents /\ next \in Events
      /\ Len(queue) \in Nat /\ Len(queue) <= QueueCap
  BY <1>1, QueueFacts, Numbers DEF TypeOK
<1>3. queue' \in Seq(Events) /\ Len(queue') <= QueueCap
  <2>1. queue \in Seq(Events)
    BY <1>1 DEF TypeOK
  <2>2. Append(queue, next) \in Seq(Events) /\ Len(Append(queue, next)) = Len(queue) + 1
    BY <1>2, <2>1, QueueFacts
  <2> QED BY <1>1, <1>2, <2>1, <2>2, Numbers
<1>4. /\ next' \in 1..(MaxEvents + 1) /\ next' <= Len(stream) + 1
      /\ cursor' \in 0..MaxEvents /\ cursor' <= Len(stream)
  BY <1>1, <1>2, Numbers DEF TypeOK, TypeInv
<1>5. dropped' \subseteq Events
  BY <1>1, <1>2 DEF TypeOK
<1>6. TypeOK'
  BY <1>1, <1>3, <1>4, <1>5 DEF TypeOK
<1> QED BY <1>1, <1>4, <1>6 DEF TypeInv

LEMMA WorkTypes ==
    ASSUME TypeInv, NEW w \in Workers, Take(w) \/ AskToken(w) \/ Finish(w) \/ WorkerStops(w)
    PROVE  TypeInv'
<1>1. /\ TypeOK /\ UNCHANGED <<environment, startup, stopped, connection, dropped, since, crashes>>
  BY DEF Take, AskToken, Finish, WorkerStops, TypeInv
<1>2. UNCHANGED <<stream, next, stored, tokenEver, hpc, panicked, started, stopped, run, connOpen,
                  pinger, ended, backoff, cursor, dropped, since, crashes>>
  BY <1>1 DEF environment, startup, connection
<1>3. queue \in Seq(Events) /\ Len(queue) \in Nat /\ Len(queue) <= QueueCap
  BY <1>1, QueueFacts DEF TypeOK
<1>4. queue # <<>> => Head(queue) \in Events /\ Tail(queue) \in Seq(Events)
                      /\ Len(Tail(queue)) <= QueueCap
  BY <1>3, QueueFacts, Numbers
<1>5. /\ queue' \in Seq(Events) /\ Len(queue') <= QueueCap
      /\ wpc' \in [Workers -> {"none", "idle", "busy", "oauth", "exited"}]
      /\ wpc[w] \in {"idle", "busy", "oauth"}
      /\ \A v \in Workers \ {w} : wpc'[v] = wpc[v] /\ item'[v] = item[v]
  BY <1>1, <1>3, <1>4 DEF Take, AskToken, Finish, WorkerStops, TypeOK
<1>6. IF wpc'[w] \in {"busy", "oauth"} THEN item'[w] \in Events ELSE item'[w] = 0
  BY <1>1, <1>4 DEF Take, AskToken, Finish, WorkerStops, TypeOK, TypeInv
<1>7. \A v \in Workers : IF wpc'[v] \in {"busy", "oauth"} THEN item'[v] \in Events ELSE item'[v] = 0
  BY <1>5, <1>6 DEF TypeInv
<1>8. item' \in [Workers -> 0..MaxEvents]
  <2>1. DOMAIN item' = Workers /\ item' = [v \in Workers |-> item'[v]]
    BY <1>1 DEF Take, AskToken, Finish, WorkerStops, TypeOK
  <2>2. \A v \in Workers : item'[v] \in 0..MaxEvents
    BY <1>7, Numbers
  <2> QED BY <2>1, <2>2
<1>9. handled' \subseteq Events
  BY <1>1 DEF Take, AskToken, Finish, WorkerStops, TypeOK, TypeInv
<1>10. TypeOK'
  BY <1>1, <1>2, <1>5, <1>8, <1>9 DEF TypeOK
<1>11. run \notin {"waiting", "down"}
  BY <1>5 DEF TypeInv
<1> QED BY <1>2, <1>7, <1>10, <1>11 DEF TypeInv

LEMMA ProcessTypes ==
    ASSUME TypeInv, Crash \/ NewConsumer
    PROVE  TypeInv'
<1>1. CASE Crash
  <2>1. /\ UNCHANGED <<stream, next, stored, tokenEver, panicked>> /\ crashes' \in 0..MaxCrashes
        /\ TypeOK /\ <<>> \in Seq(Events) /\ Len(<<>>) <= QueueCap /\ Len(stream) \in Nat
    BY <1>1, QueueFacts, Numbers DEF Crash, environment, TypeInv, TypeOK
  <2>3. /\ hpc' \in [Handlers -> {"idle", "notify", "close"}]
        /\ wpc' \in [Workers -> {"none", "idle", "busy", "oauth", "exited"}]
        /\ item' \in [Workers -> 0..MaxEvents] /\ queue' \in Seq(Events) /\ Len(queue') <= QueueCap
        /\ backoff' \in 1..MaxBackoff /\ cursor' \in 0..MaxEvents /\ since' \in 0..(MaxEvents + 1)
    BY <1>1, <2>1, Numbers DEF Crash
  <2>2. TypeOK'
    BY <1>1, <2>1, <2>3 DEF Crash, TypeOK
  <2> QED BY <1>1, <2>1, <2>2 DEF Crash, TypeInv
<1>2. CASE NewConsumer
  <2>1. UNCHANGED <<stream, next, stored, tokenEver, hpc, panicked, stopped, connOpen, pinger,
                    ended, backoff, cursor, queue, wpc, item, handled, dropped, since, crashes>>
    BY <1>2 DEF NewConsumer, environment, dispatch
  <2>2. TypeOK' /\ run' = "waiting" /\ run = "down"
    BY <1>2, <2>1 DEF NewConsumer, TypeInv, TypeOK
  <2> QED BY <2>1, <2>2 DEF TypeInv
<1> QED BY <1>1, <1>2

LEMMA TypeStep ==
    ASSUME TypeInv, [Next]_vars
    PROVE  TypeInv'
<1>1. CASE UNCHANGED vars
  BY <1>1 DEF vars, environment, startup, connection, dispatch, TypeInv, TypeOK
<1>2. CASE Next
  BY <1>2, EnvironmentTypes, RunTypes, ReadTypes, WorkTypes, ProcessTypes DEF Next, RunStep
<1> QED BY <1>1, <1>2

-----------------------------------------------------------------------------
\* The commits that NoGap speaks of.
Due(i) == i \in Commits /\ since > 0 /\ since <= i /\ (i <= cursor \/ i < next)
Kept(i) == i \in handled \cup InFlight \cup dropped

\* A step that makes no commit due and forgets none.
LEMMA GapKept ==
    ASSUME NoGap, \A i : Due(i)' => Due(i), \A i : Kept(i) => Kept(i)'
    PROVE  NoGap'
  BY DEF NoGap, Due, Kept

\* What is in the queue and in the hands of workers.
LEMMA InFlightIs ==
    ASSUME NEW i
    PROVE  i \in InFlight <=> \/ \E j \in 1..Len(queue) : queue[j] = i
                              \/ i # 0 /\ \E w \in Workers : item[w] = i
  BY DEF InFlight

\* An event that is published is beyond the cursor and the connection's position.
LEMMA PublishGap ==
    ASSUME TypeInv, NoGap, NEW k \in Kinds, Publish(k)
    PROVE  NoGap'
<1>1. /\ stream \in Seq(Kinds) /\ stream' = Append(stream, k)
      /\ UNCHANGED <<next, cursor, since, handled, queue, item, dropped>>
  BY DEF Publish, TypeInv, TypeOK, connection, dispatch
<1>2. /\ Len(stream) \in Nat /\ Len(stream') = Len(stream) + 1
      /\ \A i \in 1..Len(stream) : stream'[i] = stream[i]
  BY <1>1, QueueFacts, AppendProperties
<1>3. next \in Nat /\ cursor \in Nat /\ next <= Len(stream) + 1 /\ cursor <= Len(stream)
  BY Numbers DEF TypeInv, TypeOK
<1>4. ASSUME NEW i, Due(i)' PROVE Due(i)
  <2>1. i \in 1..Len(stream') /\ stream'[i] = "commit" /\ since > 0 /\ since <= i
        /\ (i <= cursor \/ i < next)
    BY <1>1, <1>4 DEF Due, Commits
  <2>2. i \in 1..Len(stream)
    BY <1>2, <1>3, <2>1
  <2> QED BY <1>2, <2>1, <2>2 DEF Due, Commits
<1>5. \A i : Kept(i) => Kept(i)'
  BY <1>1 DEF Kept, InFlight
<1> QED BY <1>4, <1>5, GapKept

\* A dial goes back to the cursor at most one event behind it, or starts anew.
LEMMA DialGap ==
    ASSUME TypeInv, NoGap, Dial
    PROVE  NoGap'
<1>1. /\ UNCHANGED <<stream, cursor, handled, queue, item, dropped>>
      /\ \/ cursor > 0 /\ next' \in {cursor, cursor + 1} /\ since' = since
         \/ next' = Len(stream) + 1 /\ since' = Len(stream) + 1
  BY DEF Dial, dispatch
<1>2. cursor \in Nat /\ Len(stream) \in Nat
  BY Numbers, QueueFacts DEF TypeInv, TypeOK
<1>3. ASSUME NEW i, Due(i)' PROVE Due(i)
  <2>1. i \in 1..Len(stream) /\ stream[i] = "commit" /\ since' > 0 /\ since' <= i
        /\ (i <= cursor \/ i < next')
    BY <1>1, <1>3 DEF Due, Commits
  <2>2. next' \in {cursor, cursor + 1} /\ since' = since
    BY <1>1, <1>2, <2>1
  <2>3. i <= cursor
    BY <1>2, <2>1, <2>2
  <2> QED BY <2>1, <2>2, <2>3 DEF Due, Commits
<1>4. \A i : Kept(i) => Kept(i)'
  BY <1>1 DEF Kept, InFlight
<1> QED BY <1>3, <1>4, GapKept

\* The one commit that a message makes due is queued or counted.
LEMMA ReadGap ==
    ASSUME TypeInv, NoGap, ReadMessage
    PROVE  NoGap'
<1>1. /\ UNCHANGED <<stream, since, handled, item>> /\ next' = next + 1 /\ cursor' \in {cursor, next}
      /\ \/ queue' = Append(queue, next) /\ UNCHANGED dropped
         \/ UNCHANGED queue /\ dropped' = dropped \cup {next}
         \/ UNCHANGED <<queue, dropped>> /\ stream[next] # "commit"
      /\ next \in Nat /\ cursor \in Nat /\ Len(stream) \in Nat /\ queue \in Seq(Events)
      /\ next \in Events
  BY QueueFacts, Numbers DEF ReadMessage, TypeInv, TypeOK
<1>2. /\ Len(queue) \in Nat /\ Len(Append(queue, next)) = Len(queue) + 1
      /\ \A j \in 1..Len(queue) : Append(queue, next)[j] = queue[j]
      /\ Append(queue, next)[Len(queue) + 1] = next
  BY <1>1, LenProperties, AppendProperties
<1>3. ASSUME NEW i, Due(i)' PROVE Due(i) \/ (i = next /\ stream[next] = "commit")
  <2>1. i \in 1..Len(stream) /\ stream[i] = "commit" /\ since > 0 /\ since <= i
        /\ (i <= cursor' \/ i < next + 1)
    BY <1>1, <1>3 DEF Due, Commits
  <2>2. i = next \/ i < next \/ i <= cursor
    BY <1>1, <2>1
  <2> QED BY <2>1, <2>2 DEF Due, Commits
<1>4. ASSUME NEW i, i \in InFlight PROVE i \in InFlight'
  <2>1. CASE \E w \in Workers : item[w] = i /\ i # 0
    BY <1>1, <2>1 DEF InFlight
  <2>2. CASE \E j \in 1..Len(queue) : queue[j] = i
    <3>1. PICK j \in 1..Len(queue) : queue[j] = i
      BY <2>2
    <3>2. j \in 1..Len(queue') /\ queue'[j] = i
      BY <1>1, <1>2, <3>1
    <3> QED BY <3>2 DEF InFlight
  <2> QED BY <1>4, <2>1, <2>2, InFlightIs
<1>5. \A i : Kept(i) => Kept(i)'
  BY <1>1, <1>4 DEF Kept
<1>6. ASSUME NEW i, i = next, stream[next] = "commit" PROVE Kept(i)'
  <2>1. CASE dropped' = dropped \cup {next}
    BY <1>6, <2>1 DEF Kept
  <2>2. CASE queue' = Append(queue, next)
    <3>1. Len(queue) + 1 \in 1..Len(queue') /\ queue'[Len(queue) + 1] = i
      BY <1>2, <1>6, <2>2
    <3> QED BY <3>1 DEF Kept, InFlight
  <2> QED BY <1>1, <1>6, <2>1, <2>2
<1> QED BY <1>3, <1>5, <1>6 DEF NoGap, Due, Kept

\* A worker passes its event on.
LEMMA WorkGap ==
    ASSUME TypeInv, NoGap, NEW w \in Workers, Take(w) \/ AskToken(w) \/ Finish(w) \/ WorkerStops(w)
    PROVE  NoGap'
<1>1. UNCHANGED <<stream, next, cursor, since, dropped>>
  BY DEF Take, AskToken, Finish, WorkerStops, environment, connection
<1>2. \A i : Due(i)' => Due(i)
  BY <1>1 DEF Due, Commits
<1>3. item \in [Workers -> 0..MaxEvents] /\ queue \in Seq(Events)
  BY DEF TypeInv, TypeOK
<1>4. CASE Take(w)
  <2>1. /\ queue # <<>> /\ queue' = Tail(queue) /\ item' = [item EXCEPT ![w] = Head(queue)]
        /\ UNCHANGED handled /\ item[w] = 0
    BY <1>4 DEF Take, TypeInv
  <2>2. /\ Len(queue) \in Nat /\ Len(Tail(queue)) = Len(queue) - 1 /\ Head(queue) = queue[1]
        /\ \A j \in 1..Len(Tail(queue)) : Tail(queue)[j] = queue[j + 1]
        /\ Head(queue) \in Events
    BY <1>3, <2>1, LenProperties, HeadTailProperties
  <2>3. /\ item'[w] = queue[1] /\ item'[w] # 0 /\ \A v \in Workers \ {w} : item'[v] = item[v]
    BY <1>3, <2>1, <2>2, Numbers
  <2>4. ASSUME NEW i, i \in InFlight PROVE i \in InFlight'
    <3>1. CASE \E v \in Workers : item[v] = i /\ i # 0
      BY <2>1, <2>3, <3>1 DEF InFlight
    <3>2. CASE \E j \in 1..Len(queue) : queue[j] = i
      <4>1. PICK j \in 1..Len(queue) : queue[j] = i
        BY <3>2
      <4>2. CASE j = 1
        BY <2>3, <4>1, <4>2 DEF InFlight
      <4>3. CASE j # 1
        <5>1. j - 1 \in 1..Len(queue') /\ queue'[j - 1] = i
          BY <2>1, <2>2, <4>1, <4>3
        <5> QED BY <5>1 DEF InFlight
      <4> QED BY <4>2, <4>3
    <3> QED BY <2>4, <3>1, <3>2, InFlightIs
  <2> QED BY <1>1, <1>2, <2>1, <2>4, GapKept DEF Kept
<1>5. CASE Finish(w)
  <2>1. /\ handled' = handled \cup {item[w]} /\ UNCHANGED queue
        /\ \A v \in Workers \ {w} : item'[v] = item[v]
    BY <1>3, <1>5 DEF Finish
  <2>2. \A i : i \in InFlight => i \in InFlight' \/ i = item[w]
    BY <2>1 DEF InFlight
  <2> QED BY <1>1, <1>2, <2>1, <2>2, GapKept DEF Kept
<1>6. CASE WorkerStops(w)
  BY <1>1, <1>2, <1>6, GapKept DEF WorkerStops, Kept, InFlight
<1>7. CASE AskToken(w)
  BY <1>1, <1>2, <1>7, GapKept DEF AskToken, Kept, InFlight
<1> QED BY <1>4, <1>5, <1>6, <1>7

LEMMA GapStep ==
    ASSUME TypeInv, NoGap, [Next]_vars
    PROVE  NoGap'
<1>1. CASE \E k \in Kinds : Publish(k)
  BY <1>1, PublishGap
<1>2. CASE Dial
  BY <1>2, DialGap
<1>3. CASE ReadMessage
  BY <1>3, ReadGap
<1>4. CASE Works
  BY <1>4, WorkGap DEF Works
<1>5. CASE Crash
  BY <1>5 DEF Crash, NoGap
<1>6. CASE UNCHANGED <<stream, next, cursor, since, handled, queue, item, dropped>>
  BY <1>6 DEF NoGap, Commits, InFlight
<1>7. \/ (\E k \in Kinds : Publish(k)) \/ Dial \/ ReadMessage \/ Works \/ Crash
      \/ UNCHANGED <<stream, next, cursor, since, handled, queue, item, dropped>>
  <2>1. UNCHANGED vars => UNCHANGED <<stream, next, cursor, since, handled, queue, item, dropped>>
    BY DEF vars, environment, connection, dispatch
  <2>2. \/ \E h \in Handlers : TokenStored(h) \/ NotifySelect(h) \/ NotifyClose(h)
        \/ TokensGone \/ Stop \/ Start \/ RunStops \/ LoopDials \/ DialFails \/ ReadCheck
        \/ \E how \in {"closed", "error"} : ReadFails(how)
        \/ PingFails \/ PingerStops \/ ConnectReturns \/ Decide \/ BackoffElapses \/ NewConsumer
        => UNCHANGED <<stream, next, cursor, since, handled, queue, item, dropped>>
    BY DEF TokenStored, NotifySelect, NotifyClose, TokensGone, Stop, Start, RunStops, LoopDials,
           DialFails, ReadCheck, ReadFails, PingFails, PingerStops, ConnectReturns, Decide,
           BackoffElapses, NewConsumer, environment, connection, dispatch
  <2> QED BY <2>1, <2>2 DEF Next, RunStep, Works
<1> QED BY <1>1, <1>2, <1>3, <1>4, <1>5, <1>6, <1>7

-----------------------------------------------------------------------------
\* All of it together.
ConsumerInv == StartInv /\ ConnectionInv /\ TypeInv /\ NoGap

LEMMA ConsumerInit ==
    ASSUME Init
    PROVE  ConsumerInv
<1>1. <<>> \in Seq(Kinds) /\ <<>> \in Seq(Events) /\ Len(<<>>) = 0
  OBVIOUS
<1>2. TypeOK
  <2>1. /\ 0 <= MaxEvents /\ 0 <= QueueCap /\ 1 \in 1..MaxBackoff /\ 1 \in 1..(MaxEvents + 1)
        /\ 0 \in 0..MaxEvents /\ 0 \in 0..(MaxEvents + 1) /\ 0 \in 0..MaxCrashes
    BY Numbers
  <2>2. /\ stream \in Seq(Kinds) /\ Len(stream) = 0 /\ queue \in Seq(Events) /\ Len(queue) = 0
    BY <1>1 DEF Init
  <2> QED BY <2>1, <2>2 DEF Init, TypeOK
<1>3. TypeInv
  BY <1>1, <1>2 DEF Init, TypeInv
<1>4. StartInv /\ ConnectionInv /\ NoGap
  BY DEF Init, StartInv, NoTrafficBeforeToken, WaitingIsAccounted, ConnectionInv, NoGap
<1> QED BY <1>3, <1>4 DEF ConsumerInv

\* ConsumerInv is an invariant of the consumer.
THEOREM ConsumerInvariant == Spec => []ConsumerInv
<1>1. Init => ConsumerInv
  BY ConsumerInit
<1>2. ConsumerInv /\ [Next]_vars => ConsumerInv'
  BY StartStep, ConnectionStep, TypeStep, GapStep DEF ConsumerInv
<1> QED BY <1>1, <1>2, PTL DEF Spec

\* The state of the consumer has its types, and commitCh and the backoff their bounds.
THEOREM TypeCorrect == Spec => []TypeOK
<1>1. ConsumerInv => TypeOK
  BY DEF ConsumerInv, TypeInv
<1> QED BY <1>1, ConsumerInvariant, PTL

\* Run dials only after a token was stored, whichever handlers and crashes came between.
THEOREM TrafficNeedsToken == Spec => []NoTrafficBeforeToken
<1>1. ConsumerInv => NoTrafficBeforeToken
  BY DEF ConsumerInv, StartInv
<1> QED BY <1>1, ConsumerInvariant, PTL

\* A consumer that waits although the store has a token has a handler about to notify it.
THEOREM WaitingAccounted == Spec => []WaitingIsAccounted
<1>1. ConsumerInv => WaitingIsAccounted
  BY DEF ConsumerInv, StartInv
<1> QED BY <1>1, ConsumerInvariant, PTL

\* connect leaves no connection and no ping loop behind.
THEOREM ConnectionsEnd == Spec => []OneConnection
<1>1. ConsumerInv => OneConnection
  BY DEF ConsumerInv, ConnectionInv, OneConnection
<1> QED BY <1>1, ConsumerInvariant, PTL

\* Over any number of events, workers and reconnects, connect and the workers account for
\* every commit since the last connection without a cursor.
THEOREM NoCommitVanishes == Spec => []NoGap
<1>1. ConsumerInv => NoGap
  BY DEF ConsumerInv
<1> QED BY <1>1, ConsumerInvariant, PTL
=============================================================================
