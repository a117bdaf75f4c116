----------------------------- MODULE RateLimiter -----------------------------
(***************************************************************************)
(* The limiter of internal/relay: one fixed window per endpoint id, under  *)
(* a mutex, so a call of allow is one step.  Time is discrete; a call at   *)
(* the very end of a window still belongs to it (the code compares with >).*)
(***************************************************************************)
EXTENDS Integers, FiniteSets, Sequences

CONSTANTS Keys,     \* endpoint ids
          Limit,    \* rateLimit
          Window,   \* rateWindow
          MaxKeys,  \* the size of the map above which expired windows are dropped
          MaxTime   \* bound: the last tick of the clock

ASSUME LimiterAssumption ==
    /\ Limit \in Nat \ {0} /\ Window \in Nat \ {0} /\ MaxKeys \in Nat /\ MaxTime \in Nat

VARIABLES
    now,
    windows,    \* the map: a window [count, start] for some of the keys
    answer,     \* the last call of allow: its key, time and result
    granted     \* auxiliary: when each call that was allowed came, per key

vars == <<now, windows, answer, granted>>

Times   == 0..MaxTime
Tracked == DOMAIN windows

Init ==
    /\ now = 0
    /\ windows = [k \in {} |-> [count |-> 0, start |-> 0]]
    /\ answer \in [key : Keys, at : {0}, ok : {TRUE}]
    /\ granted = [k \in Keys |-> <<>>]

Tick ==
    /\ now < MaxTime
    /\ now' = now + 1
    /\ UNCHANGED <<windows, answer, granted>>

Expired(k) == now - windows[k].start > Window

\* The keys that stay when a window is opened.
KeptMutAll == IF Cardinality(Tracked) > MaxKeys THEN {} ELSE Tracked
KeptMutNever == Tracked
Kept == IF Cardinality(Tracked) > MaxKeys THEN {k \in Tracked : ~Expired(k)} ELSE Tracked

Returns(k, ok) ==
    /\ answer'  = [key |-> k, at |-> now, ok |-> ok]
    /\ granted' = IF ok THEN [granted EXCEPT ![k] = Append(@, now)] ELSE granted
    /\ UNCHANGED now

\* allow: no window or an expired one.
OpenWindow(k) ==
    /\ k \in Tracked => Expired(k)
    /\ windows' = [j \in Kept \cup {k} |->
                      IF j = k THEN [count |-> 1, start |-> now] ELSE windows[j]]
    /\ Returns(k, TRUE)

\* allow: a running window with room.
CountCall(k) ==
    /\ k \in Tracked /\ ~Expired(k)
    /\ windows[k].count < Limit
    /\ windows' = [windows EXCEPT ![k].count = @ + 1]
    /\ Returns(k, TRUE)

\* allow: a full window; a refused call is not counted and does not extend it.
RefuseMutSticky(k) ==
    /\ k \in Tracked
    /\ windows[k].count >= Limit
    /\ Returns(k, FALSE)
    /\ UNCHANGED windows
Refuse(k) ==
    /\ k \in Tracked /\ ~Expired(k)
    /\ windows[k].count >= Limit
    /\ Returns(k, FALSE)
    /\ UNCHANGED windows

Next == Tick \/ \E k \in Keys : OpenWindow(k) \/ CountCall(k) \/ Refuse(k)

Spec == Init /\ [][Next]_vars

-----------------------------------------------------------------------------
\* Calls for key k that were allowed from time a to time b.
Grants(k, a, b) ==
    Cardinality({i \in DOMAIN granted[k] : a <= granted[k][i] /\ granted[k][i] <= b})

\* What a leaked endpoint URL can cost: wherever the windows fall, and whatever the
\* map drops in between, an interval as long as a window sees at most two limits of
\* pushes for one endpoint (rateLimiter, "this exists to bound abuse").
BurstBound ==
    \A k \in Keys, t \in Times : Grants(k, t, t + Window) <= 2 * Limit

\* A Fediverse account is answered 429 only if a full limit of its pushes passed
\* within the window's length before (allow).
RefusedIsOver ==
    ~answer.ok => Grants(answer.key, answer.at - Window, answer.at) >= Limit

\* "the map cannot grow without bound as endpoints come and go": above MaxKeys + 1
\* entries, every one of them was running when the last one was opened.
MapBounded ==
    Cardinality(Tracked) > MaxKeys + 1 =>
        \E k \in Tracked : \A j \in Tracked :
            windows[k].start >= windows[j].start /\ windows[k].start - windows[j].start <= Window
=============================================================================
