----------------------------- MODULE RelayProofs -----------------------------
(* Theorems about module Relay, for every value of its constants. *)
EXTENDS Relay, TLAPS

\* Rows stand under ids that were handed out.
RowsUsed == \A i \in Ids : endpoints[i] # None => i \in used

\* What the store holds for device d, as far as its client and its instance know it: an
\* id they know is that of d's row or of none, and d has no other row once its client has
\* the answer of the last registration and nobody has registered d otherwise since.
KnownRows(d) ==
    /\ held[d] # None => held[d] \in used /\ endpoints[held[d]] \in {d, None}
    /\ sub[d] # None => sub[d] \in used /\ endpoints[sub[d]] \in {d, None}
    /\ client[d] \in {"endpoint", "subscribed"} =>
          /\ held[d] # None
          /\ d \notin overtaken => \A i \in Ids : endpoints[i] = d => i = held[d]
          /\ d \in alive \ (overtaken \cup cutOff) => endpoints[held[d]] = d
    /\ client[d] = "subscribed" /\ d \in alive \ (overtaken \cup cutOff) => sub[d] = held[d]
    /\ client[d] = "out" /\ d \notin Padded \cup overtaken => \A i \in Ids : endpoints[i] # d

\* What a request of handlePush read of its endpoint is still true, or the row is gone.
GoodRequest(r) ==
    /\ pc[r] # "idle" => push[r].id \in used
    /\ pc[r] \in {"screen", "send", "drop"} =>
          /\ push[r].device \in Devices /\ push[r].header \in Arriving
          /\ endpoints[push[r].id] \in {push[r].device, None}
          /\ push[r].pinned <=> push[r].id \in pinned
    /\ pc[r] \in {"send", "drop"} => PassesVapid(push[r])
    /\ pc[r] = "drop" => push[r].device \notin alive
    /\ pc[r] = "answer" /\ Destroys(status[r]) =>
          \/ endpoints[push[r].id] = None
          \/ endpoints[push[r].id] \notin alive

RelayInv ==
    /\ TypeOK
    /\ RowsUsed
    /\ OneEndpointPerDevice
    /\ \A d \in Devices : KnownRows(d)
    /\ \A r \in Requests : GoodRequest(r)

-----------------------------------------------------------------------------
\* No answer about a valid token is taken for ErrTokenInvalid (APNsSender.Send and
\* FCMSender.Send, given what providers answer).
LEMMA OnlyDeadIsInvalid ==
    ASSUME NEW d, NEW valid \in BOOLEAN, "invalid" \in Outcomes(d, valid)
    PROVE  ~valid
<1> SUFFICES ASSUME valid PROVE FALSE
  OBVIOUS
<1>1. PICK a \in Answers(Route(d), valid) : Verdict(Route(d), a) = "invalid"
  BY DEF Outcomes
<1>2. a \in Refusals
  BY <1>1 DEF Answers, Verdict, TokenInvalid, Taken
<1>3. a.why \notin {"Unregistered", "BadDeviceToken", "UNREGISTERED", "NOT_FOUND"} /\ a.code # 410
  BY <1>2 DEF Refusals
<1> QED BY <1>1, <1>3 DEF Verdict, TokenInvalid

\* The relay is exempt from the check of the origin header.
LEMMA RelayIsExempt == ASSUME NEW S, NEW b PROVE Passes("relay", b, S, {})
  BY DEF Passes, isExempt

\* What a request read stays true while the request stands still, if no token comes back
\* to life and, of the ids in use, rows are only taken away.
LEMMA RequestKeeps ==
    ASSUME RelayInv, NEW r \in Requests,
           pc'[r] = pc[r], push'[r] = push[r], status'[r] = status[r],
           alive' \subseteq alive, used \subseteq used',
           \A i \in used : endpoints'[i] \in {endpoints[i], None} /\ (i \in pinned' <=> i \in pinned)
    PROVE  GoodRequest(r)'
<1>1. GoodRequest(r) /\ None \notin Devices
  BY RelayAssumption DEF RelayInv
<1>2. CASE pc[r] = "idle"
  BY <1>1, <1>2 DEF GoodRequest
<1>3. CASE pc[r] # "idle"
  <2>1. /\ push[r].id \in used
        /\ endpoints'[push[r].id] \in {endpoints[push[r].id], None}
        /\ push[r].id \in pinned' <=> push[r].id \in pinned
    BY <1>1, <1>3 DEF GoodRequest
  <2>2. endpoints[push[r].id] \notin alive /\ endpoints[push[r].id] # None
          => endpoints'[push[r].id] = None \/ endpoints'[push[r].id] \notin alive'
    BY <2>1
  <2> QED BY <1>1, <1>3, <2>1, <2>2 DEF GoodRequest, PassesVapid
<1> QED BY <1>2, <1>3

\* A step of one request that leaves the store and the outside alone.
LEMMA RequestStep ==
    ASSUME RelayInv, UNCHANGED <<store, outside, others>>, TypeOK', NEW r \in Requests, GoodRequest(r)',
           \A q \in Requests \ {r} : pc'[q] = pc[q] /\ push'[q] = push[q] /\ status'[q] = status[q]
    PROVE  RelayInv'
<1>1. UNCHANGED <<endpoints, pinned, used, alive, client, held, sub, overtaken, cutOff>>
  BY DEF store, outside, others
<1>2. RowsUsed' /\ OneEndpointPerDevice' /\ \A d \in Devices : KnownRows(d)'
  BY <1>1 DEF RelayInv, RowsUsed, OneEndpointPerDevice, KnownRows
<1>3. \A q \in Requests \ {r} : GoodRequest(q)'
  BY <1>1 DEF RelayInv, GoodRequest, PassesVapid
<1>4. \A q \in Requests : GoodRequest(q)'
  BY <1>3
<1> QED BY <1>2, <1>4 DEF RelayInv

\* The steps of handlePush up to the provider's answer.
LEMMA PushArrivesStep ==
    ASSUME RelayInv, NEW r \in Requests, NEW i \in Ids, NEW h \in Arriving, PushArrives(r, i, h)
    PROVE  RelayInv'
<1>1. TypeOK /\ RowsUsed
  BY DEF RelayInv
<1>2. UNCHANGED <<store, outside, others>> /\ pc[r] = "idle" /\ i \in used /\ i # None /\ None \notin Devices
  BY RelayAssumption DEF PushArrives
<1>3. UNCHANGED <<endpoints, pinned, used, alive, client, held, sub, overtaken, cutOff>>
  BY <1>2 DEF store, outside, others
<1>4. CASE endpoints[i] # None
  <2>1. /\ pc' = [pc EXCEPT ![r] = "screen"] /\ UNCHANGED status
        /\ push' = [push EXCEPT ![r] = [id |-> i, device |-> endpoints[i],
                                       pinned |-> i \in pinned, header |-> h]]
    BY <1>4, RelayIsExempt DEF PushArrives
  <2>2. /\ pc'[r] = "screen" /\ push'[r].id = i /\ push'[r].device = endpoints[i]
        /\ push'[r].header = h /\ push'[r].pinned = (i \in pinned) /\ endpoints[i] \in Devices
    BY <2>1, <1>1, <1>4 DEF TypeOK
  <2>3. TypeOK'
    BY <1>1, <1>2, <1>3, <2>1, <2>2 DEF TypeOK
  <2>4. GoodRequest(r)'
    BY <1>2, <1>3, <2>2 DEF GoodRequest
  <2> QED BY <1>2, <2>1, <2>3, <2>4, RequestStep
<1>5. CASE endpoints[i] = None
  <2>1. /\ pc' = [pc EXCEPT ![r] = "answer"] /\ status' = [status EXCEPT ![r] = 404]
        /\ push' = [push EXCEPT ![r] = Unscreened(i)]
    <3>1. (IF Passes("relay", FALSE, SecretSet, {}) THEN 404 ELSE 403) = 404
      BY DEF Passes, isExempt
    <3>2. /\ push' = [push EXCEPT ![r] = Unscreened(i)]
          /\ Answer(r, IF Passes("relay", FALSE, SecretSet, {}) THEN 404 ELSE 403)
      BY <1>5 DEF PushArrives
    <3> QED BY <3>1, <3>2 DEF Answer
  <2>2. pc'[r] = "answer" /\ push'[r].id = i
    BY <1>1, <2>1 DEF TypeOK, Unscreened
  <2>3. TypeOK'
    BY <1>1, <1>2, <1>3, <2>1, <2>2 DEF TypeOK, Unscreened
  <2>4. GoodRequest(r)'
    BY <1>2, <1>3, <1>5, <2>2 DEF GoodRequest
  <2> QED BY <1>2, <2>1, <2>3, <2>4, RequestStep
<1> QED BY <1>4, <1>5

LEMMA LookupFailsStep ==
    ASSUME RelayInv, NEW r \in Requests, NEW i \in Ids, LookupFails(r, i)
    PROVE  RelayInv'
<1>1. TypeOK
  BY DEF RelayInv
<1>2. /\ UNCHANGED <<store, outside, others>> /\ i \in used /\ i # None
      /\ pc' = [pc EXCEPT ![r] = "answer"] /\ status' = [status EXCEPT ![r] = 500]
      /\ push' = [push EXCEPT ![r] = Unscreened(i)]
  BY RelayAssumption DEF LookupFails, Answer
<1>3. pc'[r] = "answer" /\ push'[r].id = i /\ status'[r] = 500
  BY <1>1, <1>2 DEF TypeOK, Unscreened
<1>4. UNCHANGED <<endpoints, pinned, used, alive, client, held, sub, overtaken, cutOff>>
  BY <1>2 DEF store, outside, others
<1>5. TypeOK'
  BY <1>1, <1>2, <1>3, <1>4 DEF TypeOK, Unscreened
<1>6. GoodRequest(r)'
  BY <1>2, <1>3, <1>4 DEF GoodRequest, Destroys
<1> QED BY <1>2, <1>5, <1>6, RequestStep

LEMMA ScreenStep ==
    ASSUME RelayInv, NEW r \in Requests, Screen(r)
    PROVE  RelayInv'
<1>1. TypeOK /\ GoodRequest(r) /\ UNCHANGED <<store, outside, others, push>> /\ pc[r] = "screen"
  BY DEF RelayInv, Screen
<1>2. UNCHANGED <<endpoints, pinned, used, alive, client, held, sub, overtaken, cutOff>>
  BY <1>1 DEF store, outside, others
<1>3. CASE \E code \in {202, 429, 500} : Answer(r, code)
  <2>1. PICK code \in {202, 429, 500} : Answer(r, code)
    BY <1>3
  <2>2. pc'[r] = "answer" /\ status'[r] = code
    BY <1>1, <2>1 DEF Answer, TypeOK
  <2>3. TypeOK'
    BY <1>1, <1>2, <2>1 DEF TypeOK, Answer
  <2>4. GoodRequest(r)'
    BY <1>1, <1>2, <2>1, <2>2 DEF GoodRequest, Answer, Destroys
  <2>5. \A q \in Requests \ {r} : pc'[q] = pc[q] /\ status'[q] = status[q]
    BY <1>1, <2>1 DEF Answer, TypeOK
  <2> QED BY <1>1, <2>3, <2>4, <2>5, RequestStep
<1>4. CASE PassesVapid(push[r]) /\ pc' = [pc EXCEPT ![r] = "send"] /\ UNCHANGED status
  <2>1. TypeOK' /\ pc'[r] = "send"
    BY <1>1, <1>2, <1>4 DEF TypeOK
  <2>2. GoodRequest(r)'
    BY <1>1, <1>2, <1>4, <2>1 DEF GoodRequest, PassesVapid
  <2>3. \A q \in Requests \ {r} : pc'[q] = pc[q]
    BY <1>1, <1>4 DEF TypeOK
  <2> QED BY <1>1, <1>4, <2>1, <2>2, <2>3, RequestStep
<1> QED BY <1>3, <1>4 DEF Screen

\* The verdict of the provider: OnlyDeadIsInvalid.
LEMMA SendStep ==
    ASSUME RelayInv, NEW r \in Requests, Send(r)
    PROVE  RelayInv'
<1>1. TypeOK /\ GoodRequest(r) /\ UNCHANGED <<store, outside, others, push>> /\ pc[r] = "send"
  BY DEF RelayInv, Send
<1>2. UNCHANGED <<endpoints, pinned, used, alive, client, held, sub, overtaken, cutOff>>
  BY <1>1 DEF store, outside, others
<1>3. CASE \E code \in {201, 502} : Answer(r, code)
  <2>1. PICK code \in {201, 502} : Answer(r, code)
    BY <1>3
  <2>2. pc'[r] = "answer" /\ status'[r] = code
    BY <1>1, <2>1 DEF Answer, TypeOK
  <2>3. TypeOK'
    BY <1>1, <1>2, <2>1 DEF TypeOK, Answer
  <2>4. GoodRequest(r)'
    BY <1>1, <1>2, <2>1, <2>2 DEF GoodRequest, Answer, Destroys
  <2>5. \A q \in Requests \ {r} : pc'[q] = pc[q] /\ status'[q] = status[q]
    BY <1>1, <2>1 DEF Answer, TypeOK
  <2> QED BY <1>1, <2>3, <2>4, <2>5, RequestStep
<1>4. CASE /\ "invalid" \in Outcomes(push[r].device, push[r].device \in alive)
           /\ pc' = [pc EXCEPT ![r] = "drop"] /\ UNCHANGED status
  <2>1. push[r].device \notin alive
    <3>1. (push[r].device \in alive) \in BOOLEAN
      OBVIOUS
    <3> QED BY <1>4, <3>1, OnlyDeadIsInvalid
  <2>2. TypeOK' /\ pc'[r] = "drop"
    BY <1>1, <1>2, <1>4 DEF TypeOK
  <2>3. GoodRequest(r)'
    BY <1>1, <1>2, <1>4, <2>1, <2>2 DEF GoodRequest, PassesVapid
  <2>4. \A q \in Requests \ {r} : pc'[q] = pc[q]
    BY <1>1, <1>4 DEF TypeOK
  <2> QED BY <1>1, <1>4, <2>2, <2>3, <2>4, RequestStep
<1> QED BY <1>3, <1>4 DEF Send

\* The end of a request; on the way the instance may destroy the subscription.
LEMMA AnswerArrivesStep ==
    ASSUME RelayInv, NEW r \in Requests, AnswerArrives(r)
    PROVE  /\ RelayInv'
           /\ \A d \in Devices :
                 sub[d] # None /\ sub'[d] = None => endpoints[sub[d]] = None \/ d \notin alive
<1>1. /\ TypeOK /\ GoodRequest(r) /\ pc[r] = "answer" /\ UNCHANGED <<store, alive, client, held, others>>
      /\ \A d \in Devices : KnownRows(d)
  BY DEF RelayInv, AnswerArrives
<1>2. UNCHANGED <<endpoints, pinned, used, overtaken, cutOff>>
  BY <1>1 DEF store, others
<1>3. \A d \in Devices : \/ sub'[d] = sub[d]
                         \/ sub'[d] = None /\ sub[d] = push[r].id /\ Destroys(status[r])
  BY <1>1 DEF AnswerArrives, TypeOK
<1>4. \A d \in Devices : sub[d] = push[r].id /\ Destroys(status[r]) =>
         endpoints[sub[d]] = None \/ d \notin alive
  BY <1>1, RelayAssumption DEF GoodRequest, KnownRows, TypeOK
<1>5. /\ pc' = [pc EXCEPT ![r] = "idle"] /\ push' = [push EXCEPT ![r] = NoPush]
      /\ status' = [status EXCEPT ![r] = 0] /\ sub' \in [Devices -> Ids \cup {None}]
  BY <1>1 DEF AnswerArrives, TypeOK
<1>6. TypeOK'
  BY <1>1, <1>2, <1>5 DEF TypeOK, NoPush, Unscreened
<1>7. \A d \in Devices : KnownRows(d)'
  <2> SUFFICES ASSUME NEW d \in Devices PROVE KnownRows(d)'
    OBVIOUS
  <2>1. KnownRows(d) /\ None \notin Devices
    BY <1>1, RelayAssumption
  <2>2. CASE sub'[d] = sub[d]
    BY <1>1, <1>2, <2>1, <2>2 DEF KnownRows
  <2>3. CASE sub'[d] = None /\ sub[d] = push[r].id /\ Destroys(status[r])
    <3>1. endpoints[sub[d]] = None \/ d \notin alive
      BY <1>4, <2>3
    <3>2. ~(client[d] = "subscribed" /\ d \in alive \ (overtaken \cup cutOff))
      BY <2>1, <3>1 DEF KnownRows
    <3> QED BY <1>1, <1>2, <2>1, <2>3, <3>2 DEF KnownRows
  <2> QED BY <1>3, <2>2, <2>3
<1>8. \A q \in Requests : GoodRequest(q)'
  <2> SUFFICES ASSUME NEW q \in Requests PROVE GoodRequest(q)'
    OBVIOUS
  <2>1. CASE q = r
    BY <1>1, <1>5, <2>1 DEF GoodRequest, TypeOK
  <2>2. CASE q # r
    <3>1. pc'[q] = pc[q] /\ push'[q] = push[q] /\ status'[q] = status[q]
      BY <1>1, <1>5, <2>2 DEF TypeOK
    <3>2. GoodRequest(q)
      BY DEF RelayInv
    <3> QED BY <1>1, <1>2, <3>1, <3>2 DEF GoodRequest, PassesVapid
  <2> QED BY <2>1, <2>2
<1>9. RowsUsed' /\ OneEndpointPerDevice'
  BY <1>2 DEF RelayInv, RowsUsed, OneEndpointPerDevice
<1> QED BY <1>3, <1>4, <1>6, <1>7, <1>8, <1>9 DEF RelayInv

\* Rows may go as long as the clients that rely on one are out of reach, logged out, or
\* cut off by another.
LEMMA RowsGo ==
    ASSUME RelayInv, NEW gone, UNCHANGED <<pinned, used, alive, held, sub>>,
           endpoints' = [i \in Ids |-> IF endpoints[i] \in gone THEN None ELSE endpoints[i]],
           cutOff \subseteq cutOff',
           \A d \in Devices :
              IF client'[d] = "out"
              THEN d \notin Padded \cup overtaken' =>
                      d \in gone \/ \A j \in Ids : endpoints[j] # d
              ELSE /\ client'[d] = client[d] /\ (d \in overtaken => d \in overtaken')
                   /\ d \in gone => d \notin alive \/ d \in cutOff'
    PROVE  RowsUsed' /\ OneEndpointPerDevice' /\ \A d \in Devices : KnownRows(d)'
<1>1. TypeOK /\ None \notin Devices
  BY RelayAssumption DEF RelayInv
<1>2. \A i \in Ids : endpoints'[i] = IF endpoints[i] \in gone THEN None ELSE endpoints[i]
  OBVIOUS
<1>3. RowsUsed'
  BY <1>2 DEF RelayInv, RowsUsed
<1>4. OneEndpointPerDevice'
  BY <1>2 DEF RelayInv, OneEndpointPerDevice
<1>5. ASSUME NEW d \in Devices PROVE KnownRows(d)'
  <2>1. KnownRows(d) /\ held[d] \in Ids \cup {None} /\ sub[d] \in Ids \cup {None}
    BY <1>1 DEF RelayInv, TypeOK
  <2>2. /\ held[d] # None => endpoints'[held[d]] \in {d, None}
        /\ sub[d] # None => endpoints'[sub[d]] \in {d, None}
    BY <1>2, <2>1 DEF KnownRows
  <2>3. CASE client'[d] = "out"
    <3>1. d \notin Padded \cup overtaken' => \A i \in Ids : endpoints'[i] # d
      BY <1>1, <1>2, <2>3
    <3> QED BY <2>1, <2>2, <2>3, <3>1 DEF KnownRows
  <2>4. CASE client'[d] # "out"
    <3>1. /\ client'[d] = client[d] /\ (d \in overtaken => d \in overtaken')
          /\ d \in gone => d \notin alive \/ d \in cutOff'
      BY <2>4
    <3>2. \A i \in Ids : endpoints'[i] = d => endpoints[i] = d
      BY <1>1, <1>2
    <3>3. CASE client[d] \in {"endpoint", "subscribed"}
      <4>1. /\ held[d] \in Ids /\ (d \notin overtaken => \A i \in Ids : endpoints[i] = d => i = held[d])
            /\ d \in alive \ (overtaken \cup cutOff) => endpoints[held[d]] = d
        BY <2>1, <3>3 DEF KnownRows
      <4>2. d \in alive' \ (overtaken' \cup cutOff') => endpoints'[held[d]] = d
        BY <1>2, <3>1, <4>1
      <4>3. client'[d] = "subscribed" /\ d \in alive' \ (overtaken' \cup cutOff') => sub[d] = held[d]
        BY <2>1, <3>1 DEF KnownRows
      <4> QED BY <2>2, <2>1, <2>4, <3>1, <3>2, <4>1, <4>2, <4>3 DEF KnownRows
    <3>4. CASE client[d] \notin {"endpoint", "subscribed"}
      BY <2>1, <2>2, <2>4, <3>1, <3>4 DEF KnownRows
    <3> QED BY <3>3, <3>4
  <2> QED BY <2>3, <2>4
<1> QED BY <1>3, <1>4, <1>5

\* ErrTokenInvalid: the rows of a device go that no push reaches any more.
LEMMA DropEndpointsStep ==
    ASSUME RelayInv, NEW r \in Requests, DropEndpoints(r)
    PROVE  RelayInv'
<1>1. /\ TypeOK /\ GoodRequest(r) /\ UNCHANGED <<pinned, used, outside, others, push>> /\ pc[r] = "drop"
      /\ pc' = [pc EXCEPT ![r] = "answer"] /\ status' = [status EXCEPT ![r] = 404]
      /\ push[r].device \in Devices /\ push[r].device \notin alive /\ push[r].id \in used
      /\ endpoints[push[r].id] \in {push[r].device, None}
  BY DEF RelayInv, DropEndpoints, Answer, GoodRequest
<1>2. /\ UNCHANGED <<alive, client, held, sub, overtaken, cutOff>>
      /\ \A q \in Requests \ {r} : pc'[q] = pc[q] /\ push'[q] = push[q] /\ status'[q] = status[q]
      /\ pc'[r] = "answer" /\ status'[r] = 404
  BY <1>1 DEF outside, others, TypeOK
<1>3. CASE endpoints' = WithoutDevice(push[r].device)
  <2>1. TypeOK'
    BY <1>1, <1>2, <1>3 DEF TypeOK, WithoutDevice
  <2>2. endpoints' = [i \in Ids |-> IF endpoints[i] \in {push[r].device} THEN None ELSE endpoints[i]]
    BY <1>3 DEF WithoutDevice
  <2>3. \A d \in Devices :
           IF client'[d] = "out"
           THEN d \notin Padded \cup overtaken' =>
                   d \in {push[r].device} \/ \A j \in Ids : endpoints[j] # d
           ELSE /\ client'[d] = client[d] /\ (d \in overtaken => d \in overtaken')
                /\ d \in {push[r].device} => d \notin alive \/ d \in cutOff'
    BY <1>1, <1>2 DEF RelayInv, KnownRows
  <2>4. RowsUsed' /\ OneEndpointPerDevice' /\ \A d \in Devices : KnownRows(d)'
    <3> HIDE DEF KnownRows, RowsUsed, OneEndpointPerDevice
    <3> QED BY <1>1, <1>2, <2>2, <2>3, RowsGo
  <2>5. \A i \in used : endpoints'[i] \in {endpoints[i], None}
    BY <1>1, <2>2 DEF TypeOK
  <2>6. \A q \in Requests \ {r} : GoodRequest(q)'
    BY <1>1, <1>2, <2>5, RequestKeeps
  <2>7. GoodRequest(r)'
    BY <1>1, <1>2, <2>5 DEF GoodRequest
  <2> QED BY <2>1, <2>4, <2>6, <2>7 DEF RelayInv
<1>4. CASE UNCHANGED endpoints
  <2>1. TypeOK' /\ UNCHANGED <<store, outside, others>>
    BY <1>1, <1>2, <1>4 DEF TypeOK, store
  <2>2. GoodRequest(r)'
    BY <1>1, <1>2, <1>4 DEF GoodRequest
  <2> QED BY <1>2, <2>1, <2>2, RequestStep
<1> QED BY <1>3, <1>4 DEF DropEndpoints

\* The process restarts with its table and without its requests.
LEMMA RestartStep ==
    ASSUME RelayInv, Restart
    PROVE  RelayInv'
<1>1. TypeOK /\ UNCHANGED <<endpoints, pinned, used, alive, client, held, sub, overtaken, cutOff>>
      /\ pc' = [r \in Requests |-> "idle"] /\ push' = [r \in Requests |-> NoPush]
      /\ status' = [r \in Requests |-> 0]
  BY DEF RelayInv, Restart, store, outside, others
<1>2. TypeOK'
  BY <1>1, RelayAssumption DEF TypeOK, NoPush, Unscreened
<1>3. RowsUsed' /\ OneEndpointPerDevice' /\ \A d \in Devices : KnownRows(d)'
  BY <1>1 DEF RelayInv, RowsUsed, OneEndpointPerDevice, KnownRows
<1>4. \A r \in Requests : GoodRequest(r)'
  BY <1>1 DEF GoodRequest
<1> QED BY <1>2, <1>3, <1>4 DEF RelayInv

-----------------------------------------------------------------------------
\* The steps of clients and the provider.
LEMMA OutsideStep ==
    ASSUME RelayInv, NEW d \in Devices, TokenDies(d) \/ ClientRegisters(d) \/ ClientSubscribes(d)
    PROVE  RelayInv'
<1>1. /\ TypeOK /\ UNCHANGED <<store, held, others, requests>> /\ alive' \subseteq alive
      /\ \A e \in Devices : KnownRows(e)
  BY DEF RelayInv, TokenDies, ClientRegisters, ClientSubscribes
<1>2. UNCHANGED <<endpoints, pinned, used, overtaken, cutOff, pc, push, status>>
  BY <1>1 DEF store, others, requests
<1>3. TypeOK'
  BY <1>1, <1>2 DEF TypeOK, TokenDies, ClientRegisters, ClientSubscribes
<1>4. ASSUME NEW e \in Devices PROVE KnownRows(e)'
  <2>1. KnownRows(e) /\ client[e] \in {"out", "registering", "endpoint", "subscribed"}
    BY <1>1 DEF TypeOK
  <2>2. CASE UNCHANGED <<client, sub>>
    BY <1>1, <1>2, <2>1, <2>2 DEF KnownRows
  <2>3. CASE ClientRegisters(d)
    <3>1. UNCHANGED <<alive, sub>> /\ (client'[e] = client[e] \/ client'[e] = "registering")
      BY <1>1, <2>3 DEF ClientRegisters, TypeOK
    <3> QED BY <1>1, <1>2, <2>1, <3>1 DEF KnownRows
  <2>4. CASE ClientSubscribes(d)
    <3>1. /\ UNCHANGED alive
          /\ \/ client'[e] = client[e] /\ sub'[e] = sub[e]
             \/ client[e] = "endpoint" /\ client'[e] = "subscribed" /\ sub'[e] = held[e]
      BY <1>1, <2>4 DEF ClientSubscribes, TypeOK
    <3> QED BY <1>1, <1>2, <2>1, <3>1 DEF KnownRows
  <2> QED BY <2>2, <2>3, <2>4 DEF TokenDies
<1>5. \A r \in Requests : GoodRequest(r)'
  BY <1>1, <1>2, RequestKeeps
<1>6. RowsUsed' /\ OneEndpointPerDevice'
  BY <1>2 DEF RelayInv, RowsUsed, OneEndpointPerDevice
<1> QED BY <1>3, <1>4, <1>5, <1>6 DEF RelayInv

\* The handlers of the app: a registration replaces the device's rows by one with a new id.
LEMMA HandleRegisterStep ==
    ASSUME RelayInv, NEW d \in Devices, NEW i \in Ids, NEW pin \in BOOLEAN,
           HandleRegister(d, i, pin)
    PROVE  RelayInv'
<1>1. /\ TypeOK /\ UNCHANGED <<alive, sub, requests>>
      /\ i \notin used /\ used' = used \cup {i}
      /\ pinned' = IF pin THEN pinned \cup {i} ELSE pinned
      /\ endpoints' = [WithoutDevice(d) EXCEPT ![i] = d] /\ None \notin Devices /\ i # None
      /\ RowsUsed /\ OneEndpointPerDevice /\ \A e \in Devices : KnownRows(e)
  BY RelayAssumption DEF RelayInv, HandleRegister
<1>2. UNCHANGED <<pc, push, status>>
  BY <1>1 DEF requests
<1>3. \/ /\ client' = [client EXCEPT ![d] = "endpoint"] /\ held' = [held EXCEPT ![d] = i]
         /\ overtaken' = overtaken \ {d} /\ cutOff' = cutOff \ {d}
      \/ /\ overtaken' = IF client[d] = "registering" THEN overtaken ELSE overtaken \cup {d}
         /\ UNCHANGED <<client, held, cutOff>>
  BY DEF HandleRegister, Answered
<1>4. \A j \in Ids : endpoints'[j] = IF j = i THEN d
                                    ELSE IF endpoints[j] = d THEN None ELSE endpoints[j]
  BY <1>1 DEF WithoutDevice
<1>5. TypeOK'
  BY <1>1, <1>2, <1>3 DEF TypeOK, WithoutDevice
<1>6. RowsUsed' /\ OneEndpointPerDevice'
  BY <1>1, <1>4 DEF RowsUsed, OneEndpointPerDevice
<1>7. ASSUME NEW e \in Devices PROVE KnownRows(e)'
  <2>1. KnownRows(e) /\ held[e] \in Ids \cup {None} /\ sub[e] \in Ids \cup {None}
    BY <1>1 DEF TypeOK
  <2>2. /\ held[e] # None => held[e] \in used' /\ endpoints'[held[e]] \in {e, None}
        /\ sub[e] # None => sub[e] \in used' /\ endpoints'[sub[e]] \in {e, None}
    BY <1>1, <1>4, <2>1 DEF KnownRows
  <2>3. CASE e # d
    <3>1. /\ client'[e] = client[e] /\ held'[e] = held[e]
          /\ (e \in overtaken' <=> e \in overtaken) /\ (e \in cutOff' <=> e \in cutOff)
      BY <1>1, <1>3, <2>3 DEF TypeOK
    <3>2. held[e] # None => endpoints'[held[e]] = endpoints[held[e]]
      BY <1>1, <1>4, <2>1, <2>3 DEF KnownRows
    <3>3. \A j \in Ids : endpoints'[j] = e => endpoints[j] = e
      BY <1>1, <1>4, <2>3
    <3> QED BY <1>1, <2>1, <2>2, <3>1, <3>2, <3>3 DEF KnownRows
  <2>4. CASE e = d /\ UNCHANGED <<client, held>> /\ (client[d] # "registering" => d \in overtaken')
    BY <1>1, <2>1, <2>2, <2>4 DEF KnownRows
  <2>5. CASE e = d /\ client'[d] = "endpoint" /\ held'[d] = i
    BY <1>1, <1>4, <2>1, <2>2, <2>5 DEF KnownRows
  <2>6. e = d => \/ UNCHANGED <<client, held>> /\ (client[d] # "registering" => d \in overtaken')
                 \/ client'[d] = "endpoint" /\ held'[d] = i
    BY <1>1, <1>3 DEF TypeOK
  <2> QED BY <2>3, <2>4, <2>5, <2>6
<1>8. \A j \in used : endpoints'[j] \in {endpoints[j], None} /\ (j \in pinned' <=> j \in pinned)
  BY <1>1, <1>4 DEF TypeOK
<1>9. \A r \in Requests : GoodRequest(r)'
  BY <1>1, <1>2, <1>8, RequestKeeps
<1> QED BY <1>5, <1>6, <1>7, <1>9 DEF RelayInv

\* An unregistration: rows go, and requests go on.
LEMMA UnregisterKeeps ==
    ASSUME RelayInv, NEW gone, UNCHANGED <<pinned, used, alive, held, sub, requests>>,
           endpoints' = [i \in Ids |-> IF endpoints[i] \in gone THEN None ELSE endpoints[i]],
           client' \in [Devices -> {"out", "registering", "endpoint", "subscribed"}],
           overtaken' \subseteq Devices, cutOff \subseteq cutOff', cutOff' \subseteq Devices,
           \A d \in Devices :
              IF client'[d] = "out"
              THEN d \notin Padded \cup overtaken' =>
                      d \in gone \/ \A j \in Ids : endpoints[j] # d
              ELSE /\ client'[d] = client[d] /\ (d \in overtaken => d \in overtaken')
                   /\ d \in gone => d \notin alive \/ d \in cutOff'
    PROVE  RelayInv'
<1>1. TypeOK /\ UNCHANGED <<pc, push, status>>
  BY DEF RelayInv, requests
<1>2. RowsUsed' /\ OneEndpointPerDevice' /\ \A d \in Devices : KnownRows(d)'
  BY RowsGo
<1>3. TypeOK'
  BY <1>1 DEF TypeOK
<1>4. \A r \in Requests : GoodRequest(r)'
  BY <1>1, RequestKeeps DEF TypeOK
<1> QED BY <1>2, <1>3, <1>4 DEF RelayInv

\* By the URL: the row is the only one of its device.
LEMMA UnregisterEndpointStep ==
    ASSUME RelayInv, NEW i \in Ids, UnregisterEndpoint(i)
    PROVE  RelayInv'
<1> DEFINE gone == {endpoints[i]} \ {None}
<1>1. /\ TypeOK /\ OneEndpointPerDevice /\ (\A d \in Devices : KnownRows(d)) /\ None \notin Devices
      /\ UNCHANGED <<pinned, used, alive, held, sub, overtaken, requests>>
      /\ endpoints' = [endpoints EXCEPT ![i] = None]
  BY RelayAssumption DEF RelayInv, UnregisterEndpoint
<1>2. endpoints' = [j \in Ids |-> IF endpoints[j] \in gone THEN None ELSE endpoints[j]]
  <2>1. \A j \in Ids : endpoints'[j] = IF endpoints[j] \in gone THEN None ELSE endpoints[j]
    BY <1>1 DEF OneEndpointPerDevice, TypeOK
  <2>2. endpoints' = [j \in Ids |-> endpoints'[j]]
    BY <1>1 DEF TypeOK
  <2> QED BY <2>1, <2>2
<1>3. gone \subseteq Devices /\ \A d \in Devices : endpoints[i] = d => d \in gone
  BY <1>1 DEF TypeOK
<1>4. CASE UNCHANGED client /\ cutOff' = cutOff \cup gone
  <2>1. \A d \in Devices :
           IF client'[d] = "out"
           THEN d \notin Padded \cup overtaken' =>
                   d \in gone \/ \A j \in Ids : endpoints[j] # d
           ELSE /\ client'[d] = client[d] /\ (d \in overtaken => d \in overtaken')
                /\ d \in gone => d \notin alive \/ d \in cutOff'
    BY <1>1, <1>4 DEF KnownRows
  <2> HIDE DEF gone
  <2> QED BY <1>1, <1>2, <1>3, <1>4, <2>1, UnregisterKeeps DEF TypeOK
<1>5. ASSUME NEW d \in Devices, client[d] = "subscribed", held[d] = i,
             client' = [client EXCEPT ![d] = "out"], UNCHANGED cutOff
      PROVE  RelayInv'
  <2>1. d \notin overtaken => d \in gone \/ \A j \in Ids : endpoints[j] # d
    BY <1>1, <1>3, <1>5 DEF KnownRows
  <2>2. gone \subseteq {d}
    BY <1>1, <1>5 DEF KnownRows
  <2>3. ASSUME NEW e \in Devices
        PROVE IF client'[e] = "out"
              THEN e \notin Padded \cup overtaken' =>
                      e \in gone \/ \A j \in Ids : endpoints[j] # e
              ELSE /\ client'[e] = client[e] /\ (e \in overtaken => e \in overtaken')
                   /\ e \in gone => e \notin alive \/ e \in cutOff'
    <3> HIDE DEF gone
    <3>1. CASE e = d
      BY <1>1, <1>5, <2>1, <3>1 DEF TypeOK
    <3>2. CASE e # d
      BY <1>1, <1>5, <2>2, <3>2 DEF KnownRows, TypeOK
    <3> QED BY <3>1, <3>2
  <2> HIDE DEF gone
  <2> QED BY <1>1, <1>2, <1>5, <2>3, UnregisterKeeps DEF TypeOK
<1> QED BY <1>4, <1>5 DEF UnregisterEndpoint

\* By the device token.
LEMMA UnregisterDeviceStep ==
    ASSUME RelayInv, NEW d \in Devices, UnregisterDevice(d)
    PROVE  RelayInv'
<1>1. /\ TypeOK /\ (\A e \in Devices : KnownRows(e)) /\ None \notin Devices
      /\ UNCHANGED <<pinned, used, alive, held, sub, requests>>
  BY RelayAssumption DEF RelayInv, UnregisterDevice
<1> DEFINE gone == IF endpoints' = WithoutDevice(d) THEN {d} ELSE {}
<1>2. endpoints' = [i \in Ids |-> IF endpoints[i] \in gone THEN None ELSE endpoints[i]]
  <2>1. CASE endpoints' = WithoutDevice(d)
    BY <2>1 DEF WithoutDevice
  <2>2. CASE endpoints' # WithoutDevice(d)
    <3>1. endpoints' = endpoints /\ gone = {}
      BY <2>2 DEF UnregisterDevice, LogOut, ClearedByOther
    <3>2. endpoints = [i \in Ids |-> endpoints[i]]
      BY <1>1 DEF TypeOK
    <3> QED BY <3>1, <3>2
  <2> QED BY <2>1, <2>2
<1>3. gone \subseteq {d} /\ (endpoints' = WithoutDevice(d) => d \in gone)
  OBVIOUS
<1> HIDE DEF gone
<1>4. CASE LogOut(d)
  <2>1. /\ client' = [client EXCEPT ![d] = "out"] /\ overtaken' = overtaken \ {d} /\ UNCHANGED cutOff
        /\ d \in Padded \/ d \in gone
    BY <1>3, <1>4 DEF LogOut
  <2>2. ASSUME NEW e \in Devices
        PROVE IF client'[e] = "out"
              THEN e \notin Padded \cup overtaken' =>
                      e \in gone \/ \A j \in Ids : endpoints[j] # e
              ELSE /\ client'[e] = client[e] /\ (e \in overtaken => e \in overtaken')
                   /\ e \in gone => e \notin alive \/ e \in cutOff'
    <3>1. CASE e = d
      BY <1>1, <2>1, <3>1 DEF TypeOK
    <3>2. CASE e # d
      BY <1>1, <1>3, <2>1, <3>2 DEF KnownRows, TypeOK
    <3> QED BY <3>1, <3>2
  <2> QED BY <1>1, <1>2, <2>1, <2>2, UnregisterKeeps DEF TypeOK
<1>5. CASE ClearedByOther(d)
  <2>1. UNCHANGED <<client, overtaken>> /\ cutOff' = cutOff \cup {d}
    BY <1>5 DEF ClearedByOther
  <2>2. \A e \in Devices :
           IF client'[e] = "out"
           THEN e \notin Padded \cup overtaken' =>
                   e \in gone \/ \A j \in Ids : endpoints[j] # e
           ELSE /\ client'[e] = client[e] /\ (e \in overtaken => e \in overtaken')
                /\ e \in gone => e \notin alive \/ e \in cutOff'
    BY <1>1, <1>3, <2>1 DEF KnownRows
  <2>3. /\ client' \in [Devices -> {"out", "registering", "endpoint", "subscribed"}]
        /\ overtaken' \subseteq Devices /\ cutOff \subseteq cutOff' /\ cutOff' \subseteq Devices
    BY <1>1, <2>1 DEF TypeOK
  <2> QED BY <1>1, <1>2, <2>2, <2>3, UnregisterKeeps
<1> QED BY <1>4, <1>5 DEF UnregisterDevice

-----------------------------------------------------------------------------
LEMMA RelayInit ==
    ASSUME Init
    PROVE  RelayInv
<1>1. TypeOK
  BY RelayAssumption DEF Init, TypeOK, NoPush, Unscreened
<1>2. RowsUsed /\ OneEndpointPerDevice
  BY DEF Init, RowsUsed, OneEndpointPerDevice
<1>3. \A d \in Devices : KnownRows(d)
  BY RelayAssumption DEF Init, KnownRows
<1>4. \A r \in Requests : GoodRequest(r)
  BY DEF Init, GoodRequest
<1> QED BY <1>1, <1>2, <1>3, <1>4 DEF RelayInv

LEMMA RelayStep ==
    ASSUME RelayInv, [Next]_vars
    PROVE  RelayInv'
<1>1. CASE UNCHANGED vars
  BY <1>1 DEF vars, store, outside, others, requests, RelayInv, TypeOK, RowsUsed, OneEndpointPerDevice,
              KnownRows, GoodRequest, PassesVapid
<1>2. CASE \E d \in Devices : TokenDies(d) \/ ClientRegisters(d) \/ ClientSubscribes(d)
  BY <1>2, OutsideStep
<1>3. CASE \E d \in Devices, i \in Ids, pin \in BOOLEAN : HandleRegister(d, i, pin)
  BY <1>3, HandleRegisterStep
<1>4. CASE (\E i \in Ids : UnregisterEndpoint(i)) \/ (\E d \in Devices : UnregisterDevice(d))
  BY <1>4, UnregisterEndpointStep, UnregisterDeviceStep
<1>5. CASE \E r \in Requests, i \in Ids, h \in Arriving : PushArrives(r, i, h)
  BY <1>5, PushArrivesStep
<1>6. CASE \E r \in Requests, i \in Ids : LookupFails(r, i)
  BY <1>6, LookupFailsStep
<1>7. CASE \E r \in Requests : Screen(r) \/ Send(r) \/ DropEndpoints(r) \/ AnswerArrives(r)
  BY <1>7, ScreenStep, SendStep, DropEndpointsStep, AnswerArrivesStep
<1>8. CASE Restart
  BY <1>8, RestartStep
<1> QED BY <1>1, <1>2, <1>3, <1>4, <1>5, <1>6, <1>7, <1>8 DEF Next

\* RelayInv is an invariant of the relay.
THEOREM RelayInvariant == Spec => []RelayInv
<1>1. Init => RelayInv
  BY RelayInit
<1>2. RelayInv /\ [Next]_vars => RelayInv'
  BY RelayStep
<1> QED BY <1>1, <1>2, PTL DEF Spec

\* The state of the relay has its types (the variables of handlePush, the store's table).
THEOREM TypeCorrect == Spec => []TypeOK
<1>1. RelayInv => TypeOK
  BY DEF RelayInv
<1> QED BY <1>1, RelayInvariant, PTL

\* CreateWebPushEndpoint leaves one endpoint per device, for any number of devices,
\* registrations and lost answers.
THEOREM OneEndpoint == Spec => []OneEndpointPerDevice
<1>1. RelayInv => OneEndpointPerDevice
  BY DEF RelayInv
<1> QED BY <1>1, RelayInvariant, PTL

\* handlePush never costs a live, subscribed device its subscription or its endpoint,
\* unless its rows were replaced or removed behind its client's back.
THEOREM SubscriptionsKept == Spec => []LiveSubscriptionKept
<1>1. RelayInv => LiveSubscriptionKept
  BY DEF RelayInv, KnownRows, TypeOK, LiveSubscriptionKept
<1> QED BY <1>1, RelayInvariant, PTL

\* A device whose client logged out, by either form of handleUnregister, has no endpoint
\* left, if its token is not padded and no registration has committed behind its client's
\* back.
THEOREM LogoutsSilence == Spec => []LogoutSilences
<1>1. RelayInv => LogoutSilences
  BY DEF RelayInv, KnownRows, LogoutSilences
<1> QED BY <1>1, RelayInvariant, PTL

\* vapid.Verify lets only the pinned instance push on a pinned endpoint, whatever headers
\* arrive and however the endpoint's row changes while the request is on its way.
THEOREM PinnedSenders == Spec => []OnlyPinnedSender
<1>1. RelayInv => OnlyPinnedSender
  <2> SUFFICES ASSUME RelayInv, NEW r \in Requests, pc[r] \in {"send", "drop"},
                      push[r].pinned \/ push[r].id \in pinned
               PROVE  push[r].header.signer = InstanceKey
    BY DEF OnlyPinnedSender
  <2>1. push[r].pinned /\ PassesVapid(push[r])
    BY DEF RelayInv, GoodRequest
  <2>2. Verify(push[r].header, InstanceKey)
    BY <2>1 DEF PassesVapid
  <2> QED BY <2>2, RelayAssumption DEF Verify
<1> QED BY <1>1, RelayInvariant, PTL

\* The instance destroys a subscription only for an endpoint that is gone or a device out
\* of reach.
THEOREM KillsJustified == Spec => KillJustified
<1> DEFINE Justified ==
       \A d \in Devices :
          sub[d] # None /\ sub'[d] = None => endpoints[sub[d]] = None \/ d \notin alive
<1>1. RelayInv /\ [Next]_vars => [Justified]_vars
  <2> SUFFICES ASSUME RelayInv, Next PROVE Justified
    OBVIOUS
  <2>1. CASE UNCHANGED sub
    BY <2>1
  <2>2. CASE \E d \in Devices : ClientSubscribes(d)
    <3>1. PICK d \in Devices : ClientSubscribes(d)
      BY <2>2
    <3>2. held[d] # None
      BY <3>1 DEF RelayInv, KnownRows, ClientSubscribes
    <3>3. \A e \in Devices : sub'[e] = sub[e] \/ sub'[e] # None
      BY <3>1, <3>2 DEF RelayInv, TypeOK, ClientSubscribes
    <3> QED BY <3>3
  <2>3. CASE \E r \in Requests : AnswerArrives(r)
    BY <2>3, AnswerArrivesStep
  <2>4. \/ UNCHANGED sub
        \/ \E d \in Devices : ClientSubscribes(d)
        \/ \E r \in Requests : AnswerArrives(r)
    BY DEF Next, TokenDies, ClientRegisters, HandleRegister, UnregisterEndpoint, UnregisterDevice,
           PushArrives, LookupFails, Screen, Send, DropEndpoints, Restart, outside
  <2> QED BY <2>1, <2>2, <2>3, <2>4
<1> QED BY <1>1, RelayInvariant, PTL DEF Spec, KillJustified
=============================================================================
