------------------------------ MODULE Consumer ------------------------------
(***************************************************************************)
(* internal/jetstream: the lazily started consumer of the Jetstream        *)
(* firehose.  Run waits for the first token, then dials, reads and         *)
(* reconnects with exponential backoff; connect tracks the cursor and      *)
(* hands commits to a bounded queue without ever blocking; dispatch        *)
(* workers empty the queue.  XRPC handlers call NotifyTokenRegistered,     *)
(* main calls Stop, and the process may crash and start again.             *)
(*                                                                         *)
(* Jetstream and the network are external.  An event is its position in    *)
(* the stream, which stands for its time_us.                               *)
(***************************************************************************)
EXTENDS Naturals, Sequences, FiniteSets

CONSTANTS Handlers,     \* concurrent XRPC register handlers
          Workers,      \* numWorkers goroutines, 8 in the code
          QueueCap,     \* capacity of commitCh, 1024 in the code
          MaxBackoff,   \* maxBackoff in seconds, 60 in the code
          Kinds,        \* the kinds of events published in a run
          MaxEvents,    \* bound: events published
          MaxCrashes    \* bound: crashes of the process

ASSUME QueueAssumption   == QueueCap \in Nat \ {0}
ASSUME BackoffAssumption == MaxBackoff \in Nat \ {0}
ASSUME KindAssumption    == Kinds \subseteq {"commit", "other", "garbled"}
ASSUME BoundAssumption   == MaxEvents \in Nat /\ MaxCrashes \in Nat

VARIABLES
    stream,     \* external: the kinds of the events published so far
    next,       \* external: the position the connection delivers next
    stored,     \* the store has a registered DID
    tokenEver,  \* auxiliary: a token was stored at some time
    hpc,        \* the register handlers
    panicked,   \* auxiliary: handlers that closed a closed startCh
    started,    \* startCh is closed
    stopped,    \* stopCh is closed
    run,        \* where Run and connect stand
    connOpen,   \* the WebSocket is not closed on this side
    pinger,     \* the ping loop of the connection runs
    ended,      \* how the last connect ended
    backoff,    \* seconds
    cursor,     \* lastCursor
    queue,      \* commitCh
    wpc,        \* the dispatch workers
    item,       \* the event each worker handles, 0 for none
    handled,    \* auxiliary: events given to handleCommit and finished
    dropped,    \* auxiliary: events dropped on a full queue
    since,      \* auxiliary: first position of the last cursorless connection
    crashes

environment == <<stream, next>>
startup     == <<stored, tokenEver, hpc, panicked, started>>
connection  == <<run, connOpen, pinger, ended, backoff, cursor>>
dispatch    == <<queue, wpc, item, handled, dropped>>
vars == <<environment, startup, stopped, connection, dispatch, since, crashes>>

Events == 1..MaxEvents

\* The events connect passes on, and those it may lose on a full queue.
Commits == {i \in 1..Len(stream) : stream[i] = "commit"}
InFlight == {queue[i] : i \in 1..Len(queue)} \cup ({item[w] : w \in Workers} \ {0})

Up == run # "down"

-----------------------------------------------------------------------------
Init ==
    /\ stream = <<>> /\ next = 1
    /\ stored = FALSE /\ tokenEver = FALSE
    /\ hpc = [h \in Handlers |-> "idle"] /\ panicked = {}
    /\ started = FALSE /\ stopped = FALSE
    /\ run = "waiting" /\ connOpen = FALSE /\ pinger = FALSE
    /\ ended = "never" /\ backoff = 1 /\ cursor = 0
    /\ queue = <<>> /\ wpc = [w \in Workers |-> "none"] /\ item = [w \in Workers |-> 0]
    /\ handled = {} /\ dropped = {} /\ since = 0
    /\ crashes = 0

\* The network publishes an event, watched or not.
Publish(k) ==
    /\ Len(stream) < MaxEvents
    /\ stream' = Append(stream, k)
    /\ UNCHANGED <<next, startup, stopped, connection, dispatch, since, crashes>>

\* A handler's RegisterToken has succeeded; the notification comes after it.
TokenStored(h) ==
    /\ Up /\ hpc[h] = "idle"
    /\ stored' = TRUE /\ tokenEver' = TRUE
    /\ hpc' = [hpc EXCEPT ![h] = "notify"]
    /\ UNCHANGED <<environment, panicked, started, stopped, connection, dispatch, since, crashes>>

\* The last token is unregistered; nothing tells the consumer.
TokensGone ==
    /\ Up /\ stored
    /\ stored' = FALSE
    /\ UNCHANGED <<environment, tokenEver, hpc, panicked, started, stopped, connection,
                   dispatch, since, crashes>>

\* The select of NotifyTokenRegistered: closed already, or the default branch.
NotifySelect(h) ==
    /\ hpc[h] = "notify"
    /\ hpc' = [hpc EXCEPT ![h] = IF started THEN "idle" ELSE "close"]
    /\ UNCHANGED <<environment, stored, tokenEver, panicked, started, stopped, connection,
                   dispatch, since, crashes>>

\* close(c.startCh): closing it twice panics, which net/http recovers.
NotifyClose(h) ==
    /\ hpc[h] = "close"
    /\ hpc' = [hpc EXCEPT ![h] = "idle"]
    /\ panicked' = IF started THEN panicked \cup {h} ELSE panicked
    /\ started' = TRUE
    /\ UNCHANGED <<environment, stored, tokenEver, stopped, connection, dispatch, since, crashes>>

Stop ==
    /\ Up /\ ~stopped
    /\ stopped' = TRUE
    /\ UNCHANGED <<environment, startup, connection, dispatch, since, crashes>>

-----------------------------------------------------------------------------
\* Run: wait for startCh or stopCh, then start the workers.
StartMutEager ==
    /\ run = "waiting" /\ ~stopped
    /\ run' = "loop"
    /\ wpc' = [w \in Workers |-> "idle"]
    /\ UNCHANGED <<environment, startup, stopped, connOpen, pinger, ended, backoff, cursor,
                   queue, item, handled, dropped, since, crashes>>
Start ==
    /\ run = "waiting" /\ started
    /\ run' = "loop"
    /\ wpc' = [w \in Workers |-> "idle"]
    /\ UNCHANGED <<environment, startup, stopped, connOpen, pinger, ended, backoff, cursor,
                   queue, item, handled, dropped, since, crashes>>

\* Run: every place that looks at stopCh and returns.  The check after connect
\* comes after the reset of the backoff on a nil error.
RunStops ==
    /\ stopped
    /\ run \in {"waiting", "loop", "decide", "backoff"}
    /\ run' = "exited"
    /\ backoff' = IF run = "decide" /\ ended = "nil" THEN 1 ELSE backoff
    /\ UNCHANGED <<environment, startup, stopped, connOpen, pinger, ended, cursor,
                   dispatch, since, crashes>>

LoopDials ==
    /\ run = "loop" /\ ~stopped
    /\ run' = "dial"
    /\ UNCHANGED <<environment, startup, stopped, connOpen, pinger, ended, backoff, cursor,
                   dispatch, since, crashes>>

DialFails ==
    /\ run = "dial"
    /\ run' = "decide" /\ ended' = "error"
    /\ UNCHANGED <<environment, startup, stopped, connOpen, pinger, backoff, cursor,
                   dispatch, since, crashes>>

\* Dial: with a cursor Jetstream replays from it, inclusively or not; without
\* one it delivers what is published from now on.
DialMutNoCursor ==
    /\ run = "dial"
    /\ run' = "check" /\ connOpen' = TRUE /\ pinger' = TRUE
    /\ \/ /\ cursor > 0
          /\ next' = Len(stream) + 1
          /\ UNCHANGED since
       \/ /\ cursor = 0
          /\ next' = Len(stream) + 1
          /\ since' = next'
    /\ UNCHANGED <<stream, startup, stopped, ended, backoff, cursor, dispatch, crashes>>
Dial ==
    /\ run = "dial"
    /\ run' = "check" /\ connOpen' = TRUE /\ pinger' = TRUE
    /\ \/ /\ cursor > 0
          /\ next' \in {cursor, cursor + 1}
          /\ UNCHANGED since
       \/ /\ cursor = 0
          /\ next' = Len(stream) + 1
          /\ since' = next'
    /\ UNCHANGED <<stream, startup, stopped, ended, backoff, cursor, dispatch, crashes>>

\* connect: the check of stopCh before each ReadMessage; nil is returned here only.
ReadCheck ==
    /\ run = "check"
    /\ \/ stopped /\ run' = "closing" /\ ended' = "nil"
       \/ ~stopped /\ run' = "read" /\ UNCHANGED ended
    /\ UNCHANGED <<environment, startup, stopped, connOpen, pinger, backoff, cursor,
                   dispatch, since, crashes>>

\* connect: one message.  The cursor moves before the event is passed on, and
\* a full queue drops it; a frame that does not decode is skipped.
ReadMessageMutOverfill ==
    /\ run = "read" /\ connOpen /\ next <= Len(stream)
    /\ run' = "check" /\ next' = next + 1
    /\ cursor' = IF stream[next] = "garbled" THEN cursor ELSE next
    /\ queue' = IF stream[next] = "commit" /\ Len(queue) <= QueueCap
                   THEN Append(queue, next) ELSE queue
    /\ UNCHANGED <<dropped, stream, startup, stopped, connOpen, pinger, ended, backoff, wpc, item,
                   handled, since, crashes>>
ReadMessage ==
    /\ run = "read" /\ connOpen /\ next <= Len(stream)
    /\ run' = "check" /\ next' = next + 1
    /\ cursor' = IF stream[next] = "garbled" THEN cursor ELSE next
    /\ \/ /\ stream[next] = "commit" /\ Len(queue) < QueueCap
          /\ queue' = Append(queue, next)
          /\ UNCHANGED dropped
       \/ /\ stream[next] = "commit" /\ Len(queue) >= QueueCap
          /\ dropped' = dropped \cup {next}
          /\ UNCHANGED queue
       \/ /\ stream[next] # "commit"
          /\ UNCHANGED <<queue, dropped>>
    /\ UNCHANGED <<stream, startup, stopped, connOpen, pinger, ended, backoff, wpc, item,
                   handled, since, crashes>>

\* connect: ReadMessage fails, because the server closed the connection, it broke,
\* the pinger closed it, or no pong moved the read deadline.
ReadFails(how) ==
    /\ run = "read"
    /\ run' = "closing" /\ ended' = how
    /\ UNCHANGED <<environment, startup, stopped, connOpen, pinger, backoff, cursor,
                   dispatch, since, crashes>>

\* The ping loop: stops with the consumer or the connection.
PingerStopsMutDeaf ==
    /\ pinger
    /\ run = "closing"
    /\ pinger' = FALSE
    /\ UNCHANGED <<environment, startup, stopped, run, connOpen, ended, backoff, cursor,
                   dispatch, since, crashes>>
PingerStops ==
    /\ pinger
    /\ stopped \/ run = "closing"
    /\ pinger' = FALSE
    /\ UNCHANGED <<environment, startup, stopped, run, connOpen, ended, backoff, cursor,
                   dispatch, since, crashes>>

\* The ping loop: a failed ping closes the connection under the reader.
PingFails ==
    /\ pinger
    /\ pinger' = FALSE /\ connOpen' = FALSE
    /\ UNCHANGED <<environment, startup, stopped, run, ended, backoff, cursor,
                   dispatch, since, crashes>>

\* connect returns once the ping loop is gone, and closes the connection.
ConnectReturnsMutNoWait ==
    /\ run = "closing"
    /\ run' = "decide" /\ connOpen' = FALSE
    /\ UNCHANGED <<environment, startup, stopped, pinger, ended, backoff, cursor,
                   dispatch, since, crashes>>
ConnectReturns ==
    /\ run = "closing" /\ ~pinger
    /\ run' = "decide" /\ connOpen' = FALSE
    /\ UNCHANGED <<environment, startup, stopped, pinger, ended, backoff, cursor,
                   dispatch, since, crashes>>

\* Run after connect: a nil error resets the backoff, then the wait begins.
Decide ==
    /\ run = "decide" /\ ~stopped
    /\ run' = "backoff"
    /\ backoff' = IF ended = "nil" THEN 1 ELSE backoff
    /\ UNCHANGED <<environment, startup, stopped, connOpen, pinger, ended, cursor,
                   dispatch, since, crashes>>

BackoffElapses ==
    /\ run = "backoff"
    /\ run' = "loop"
    /\ backoff' = IF 2 * backoff > MaxBackoff THEN MaxBackoff ELSE 2 * backoff
    /\ UNCHANGED <<environment, startup, stopped, connOpen, pinger, ended, cursor,
                   dispatch, since, crashes>>

-----------------------------------------------------------------------------
\* dispatchWorker: the select takes an event or, once stopCh is closed, maybe that.
Take(w) ==
    /\ wpc[w] = "idle" /\ queue # <<>>
    /\ wpc' = [wpc EXCEPT ![w] = "busy"]
    /\ item' = [item EXCEPT ![w] = Head(queue)]
    /\ queue' = Tail(queue)
    /\ UNCHANGED <<environment, startup, stopped, connection, handled, dropped, since, crashes>>

\* FCMSender.Send, below handleCommit: every FCM push asks the one token source
\* of the sender for an OAuth token first.  When that has expired it is fetched
\* with a client of its own, without a timeout, under the mutex of the source.
AskToken(w) ==
    /\ wpc[w] = "busy"
    /\ wpc' = [wpc EXCEPT ![w] = "oauth"]
    /\ UNCHANGED <<environment, startup, stopped, connection, queue, item, handled, dropped,
                   since, crashes>>

\* handleCommit returns.
FinishMutReturn(w) ==
    /\ wpc[w] \in {"busy", "oauth"}
    /\ wpc' = [wpc EXCEPT ![w] = "exited"]
    /\ item' = [item EXCEPT ![w] = 0]
    /\ handled' = handled \cup {item[w]}
    /\ UNCHANGED <<environment, startup, stopped, connection, queue, dropped, since, crashes>>
Finish(w) ==
    /\ wpc[w] \in {"busy", "oauth"}
    /\ wpc' = [wpc EXCEPT ![w] = "idle"]
    /\ item' = [item EXCEPT ![w] = 0]
    /\ handled' = handled \cup {item[w]}
    /\ UNCHANGED <<environment, startup, stopped, connection, queue, dropped, since, crashes>>

WorkerStops(w) ==
    /\ wpc[w] = "idle" /\ stopped
    /\ wpc' = [wpc EXCEPT ![w] = "exited"]
    /\ UNCHANGED <<environment, startup, stopped, connection, queue, item, handled, dropped,
                   since, crashes>>

-----------------------------------------------------------------------------
\* The process dies and everything in memory with it, the cursor included.
Crash ==
    /\ Up /\ crashes < MaxCrashes
    /\ crashes' = crashes + 1
    /\ run' = "down" /\ hpc' = [h \in Handlers |-> "idle"]
    /\ started' = FALSE /\ stopped' = FALSE
    /\ connOpen' = FALSE /\ pinger' = FALSE /\ ended' = "never"
    /\ backoff' = 1 /\ cursor' = 0 /\ queue' = <<>>
    /\ wpc' = [w \in Workers |-> "none"] /\ item' = [w \in Workers |-> 0]
    /\ handled' = {} /\ dropped' = {} /\ since' = 0
    /\ UNCHANGED <<environment, stored, tokenEver, panicked>>

\* NewConsumer: a store that holds tokens starts it without a notification.
NewConsumerMutCold ==
    /\ run = "down"
    /\ run' = "waiting"
    /\ UNCHANGED <<environment, stored, tokenEver, hpc, panicked, started, stopped, connOpen, pinger, ended,
                   backoff, cursor, dispatch, since, crashes>>
NewConsumer ==
    /\ run = "down"
    /\ run' = "waiting" /\ started' = stored
    /\ UNCHANGED <<environment, stored, tokenEver, hpc, panicked, stopped, connOpen, pinger, ended,
                   backoff, cursor, dispatch, since, crashes>>

RunStep ==
    \/ Start \/ RunStops \/ LoopDials \/ DialFails \/ Dial \/ ReadCheck \/ ReadMessage
    \/ \E how \in {"closed", "error"} : ReadFails(how)
    \/ PingFails \/ ConnectReturns \/ Decide \/ BackoffElapses

Next ==
    \/ \E k \in Kinds : Publish(k)
    \/ \E h \in Handlers : TokenStored(h) \/ NotifySelect(h) \/ NotifyClose(h)
    \/ TokensGone \/ Stop \/ RunStep \/ PingerStops
    \/ \E w \in Workers : Take(w) \/ AskToken(w) \/ Finish(w) \/ WorkerStops(w)
    \/ Crash \/ NewConsumer

Spec == Init /\ [][Next]_vars

-----------------------------------------------------------------------------
\* Goroutines that are not blocked run; dials end (the dialer has a handshake
\* timeout), and so does what a worker does below handleCommit (the clients of
\* Expo, APNs, FCM and of the two resolvers have timeouts of 5 or 10 s, the rest
\* is SQLite), with one exception: nothing bounds the fetch of an OAuth token,
\* so no fairness is assumed of a worker in it.  A read ends at the latest when
\* the read deadline, which only pongs extend, passes without a pinger; a
\* crashed process is started again.
Fairness ==
    /\ WF_vars(Start) /\ WF_vars(RunStops) /\ WF_vars(LoopDials)
    /\ WF_vars(DialFails \/ Dial) /\ WF_vars(ReadCheck)
    /\ WF_vars(~pinger /\ (ReadMessage \/ ReadFails("error")))
    /\ WF_vars(PingerStops) /\ WF_vars(ConnectReturns) /\ WF_vars(Decide)
    /\ WF_vars(BackoffElapses) /\ WF_vars(NewConsumer)
    /\ \A h \in Handlers : WF_vars(NotifySelect(h) \/ NotifyClose(h))
    /\ WF_vars(\E w \in Workers : Take(w))
    /\ \A w \in Workers : /\ WF_vars(AskToken(w) \/ (wpc[w] = "busy" /\ Finish(w)))
                          /\ WF_vars(Take(w) \/ WorkerStops(w))

FairSpec == Spec /\ Fairness

-----------------------------------------------------------------------------
\* The state has its types; commitCh is never over its capacity and the backoff
\* of Run never over its maximum.
TypeOK ==
    /\ stream \in Seq(Kinds) /\ Len(stream) <= MaxEvents
    /\ next \in 1..(MaxEvents + 1)
    /\ stored \in BOOLEAN /\ tokenEver \in BOOLEAN
    /\ hpc \in [Handlers -> {"idle", "notify", "close"}] /\ panicked \subseteq Handlers
    /\ started \in BOOLEAN /\ stopped \in BOOLEAN
    /\ run \in {"down", "waiting", "loop", "dial", "check", "read", "closing", "decide",
                "backoff", "exited"}
    /\ connOpen \in BOOLEAN /\ pinger \in BOOLEAN
    /\ ended \in {"never", "nil", "closed", "error"}
    /\ backoff \in 1..MaxBackoff /\ cursor \in 0..MaxEvents
    /\ queue \in Seq(Events) /\ Len(queue) <= QueueCap
    /\ wpc \in [Workers -> {"none", "idle", "busy", "oauth", "exited"}]
    /\ item \in [Workers -> 0..MaxEvents]
    /\ handled \subseteq Events /\ dropped \subseteq Events
    /\ since \in 0..(MaxEvents + 1) /\ crashes \in 0..MaxCrashes

\* Lazy start: nothing dials Jetstream or waits for a reconnect before a token
\* was ever stored ("Until then, zero bandwidth is consumed", README.md).
NoTrafficBeforeToken == run \notin {"down", "waiting", "exited"} => tokenEver

\* Across reconnects with a cursor no commit vanishes: each one from the first event of
\* the last cursorless connection up to what was delivered was handled, is queued or in
\* a worker's hands, or was dropped and counted.
NoGap ==
    \A i \in Commits :
        since > 0 /\ since <= i /\ (i <= cursor \/ i < next) =>
            i \in handled \cup InFlight \cup dropped

\* A connection never outlives connect: a dial starts with no connection and no
\* ping loop left over from the one before.
OneConnection ==
    run \in {"loop", "dial", "decide", "backoff", "waiting", "exited"} => ~connOpen /\ ~pinger

\* Only startCh or the store can start the consumer, and a consumer that waits
\* although a DID is registered has a handler about to notify it, unless it is
\* about to start or was stopped.
WaitingIsAccounted ==
    (run = "waiting" /\ stored /\ ~started) =>
        \E h \in Handlers : hpc[h] \in {"notify", "close"}

\* Google's token endpoint keeps answering the workers.
TokensAnswered == \A w \in Workers : []<>(wpc[w] # "oauth")

Ended(states) ==
    /\ run = "exited" /\ ~pinger
    /\ \A w \in Workers : wpc[w] \in states

\* Stop ends the goroutines of the consumer: Run and the ping loop in any case,
\* and each worker unless it hangs in the fetch of an OAuth token, which Stop
\* cannot reach; all of them when those fetches are answered.
StopEnds ==
    /\ stopped ~> (~stopped \/ Ended({"none", "exited", "oauth"}))
    /\ TokensAnswered => (stopped ~> (~stopped \/ Ended({"none", "exited"})))

\* A stored token gets the consumer going, also when the process dies between
\* RegisterToken and NotifyTokenRegistered ("On restart, if tokens exist in SQLite,
\* the connection starts immediately", README.md).
TokenStarts == stored ~> (~stored \/ stopped \/ run \notin {"waiting", "down"})

\* What entered the queue is handled, unless the consumer is stopped or dies, or
\* Google's token endpoint leaves a worker without an answer for ever.
QueuedIsHandled ==
    TokensAnswered =>
        \A i \in Events :
            (\E j \in 1..Len(queue) : queue[j] = i) ~> (i \in handled \/ stopped \/ ~Up)

\* NotifyTokenRegistered "must not panic on double close"
\* (TestNotifyTokenRegistered_Idempotent).
NoDoubleClose == panicked = {}
=============================================================================
