-------------------------------- MODULE Relay --------------------------------
(***************************************************************************)
(* internal/relay with internal/store/webpush.go: devices register an      *)
(* endpoint, their Fediverse instance pushes to it, and the relay forwards *)
(* the ciphertext to the push provider.  A request of handlePush runs in   *)
(* steps that interleave with registrations, unregistrations and other     *)
(* pushes; what it does between two accesses to shared state is one step.  *)
(*                                                                         *)
(* External: the client of a device (registers, subscribes, logs out), the *)
(* instance (keeps one subscription per device; destroys it on a 4xx other *)
(* than 408 and 429), the provider, SQLite.  An endpoint id is random and  *)
(* never used twice.  A device stands for a (device_token, app_id) pair.   *)
(*                                                                         *)
(* The register and unregister handlers ask nobody who they are, and do    *)
(* not look at the context of the request: a copy that was given up long   *)
(* ago, or a request of anyone who knows the URL or the device token, is   *)
(* carried out like the client's own.                                      *)
(***************************************************************************)
EXTENDS Naturals, FiniteSets, OriginVerify, Vapid, Push

CONSTANTS Ids,        \* endpoint ids; their number bounds the registrations
          Devices,
          Requests,   \* concurrent requests of handlePush
          None,
          InstanceKey, \* the VAPID key of the instance, which clients pin
          Arriving,   \* the Authorization headers that may arrive
          Padded,     \* devices whose client sends its token with white space around
          SecretSet,  \* an origin secret is configured, which instances do not know
          Faults      \* what may go wrong in a run

ASSUME RelayAssumption ==
    /\ None \notin Ids \cup Devices
    /\ InstanceKey \in VapidKeys /\ NoKey \notin VapidKeys /\ Arriving \subseteq Headers
    /\ Platform \in [Devices -> {"ios", "android"}]   \* handleRegister refuses others
    /\ ExpoTokens \subseteq Devices /\ Configured \subseteq {"apns", "fcm"}
    /\ Padded \subseteq Devices /\ SecretSet \in BOOLEAN
    /\ Faults \subseteq {"deleteFails", "restart"}

VARIABLES
    endpoints,  \* webpush_endpoints: the device of each id, or None
    pinned,     \* ids whose row has a vapid_public_key
    used,       \* ids handed out so far
    alive,      \* external: devices whose push token is valid
    client,     \* external: the client of each device
    held,       \* external: the endpoint the client last received
    sub,        \* external: the endpoint of the instance's subscription, or None
    overtaken,  \* auxiliary: devices registered otherwise than in answer to a
                \* waiting client since their client last got an endpoint
    cutOff,     \* auxiliary: devices unregistered by another since then
    pc,         \* the next step of each request
    push,       \* its id, the row it read, and its VAPID header
    status      \* the status code it answers with

store    == <<endpoints, pinned, used>>
outside  == <<alive, client, held, sub>>
others   == <<overtaken, cutOff>>
requests == <<pc, push, status>>
vars == <<store, outside, others, requests>>

Unscreened(i) == [id |-> i, device |-> None, pinned |-> FALSE, header |-> None]
NoPush == Unscreened(None)

\* Mastodon's Web::PushNotificationWorker.
Destroys(code) == code \in 400..499 /\ code \notin {408, 429}

\* The rows without those of device d.
WithoutDevice(d) == [i \in Ids |-> IF endpoints[i] = d THEN None ELSE endpoints[i]]

-----------------------------------------------------------------------------
Init ==
    /\ endpoints = [i \in Ids |-> None] /\ pinned = {} /\ used = {}
    /\ alive = Devices
    /\ client = [d \in Devices |-> "out"]
    /\ held = [d \in Devices |-> None] /\ sub = [d \in Devices |-> None]
    /\ overtaken = {} /\ cutOff = {}
    /\ pc = [r \in Requests |-> "idle"] /\ push = [r \in Requests |-> NoPush]
    /\ status = [r \in Requests |-> 0]

\* The provider invalidates a device token, for good.
TokenDies(d) ==
    /\ alive' = alive \ {d}
    /\ d \in alive
    /\ UNCHANGED <<store, client, held, sub, others, requests>>

\* The client decides to register (again); until it has an answer it retries.
ClientRegisters(d) ==
    /\ client[d] \in {"out", "subscribed"}
    /\ client' = [client EXCEPT ![d] = "registering"]
    /\ UNCHANGED <<store, alive, held, sub, others, requests>>

\* The client passes the endpoint to its instance, which replaces the old one.
ClientSubscribes(d) ==
    /\ client[d] = "endpoint"
    /\ client' = [client EXCEPT ![d] = "subscribed"]
    /\ sub' = [sub EXCEPT ![d] = held[d]]
    /\ UNCHANGED <<store, alive, held, others, requests>>

\* The answer of a registration reaches a client that waits for one, or nobody: it
\* is lost, or the request was a late copy, or another's.
Answered(d, i) ==
    \/ /\ client[d] = "registering"
       /\ client' = [client EXCEPT ![d] = "endpoint"]
       /\ held' = [held EXCEPT ![d] = i]
       /\ overtaken' = overtaken \ {d} /\ cutOff' = cutOff \ {d}
    \/ /\ overtaken' = IF client[d] = "registering" THEN overtaken ELSE overtaken \cup {d}
       /\ UNCHANGED <<client, held, cutOff>>

\* handleRegister, CreateWebPushEndpoint: in one transaction the device's rows go
\* and the new one comes.
HandleRegisterMutKeepOld(d, i, pin) ==
    /\ i \notin used
    /\ used' = used \cup {i}
    /\ endpoints' = [endpoints EXCEPT ![i] = d]
    /\ pinned' = IF pin THEN pinned \cup {i} ELSE pinned
    /\ Answered(d, i)
    /\ UNCHANGED <<alive, sub, requests>>
HandleRegister(d, i, pin) ==
    /\ i \notin used
    /\ used' = used \cup {i}
    /\ endpoints' = [WithoutDevice(d) EXCEPT ![i] = d]
    /\ pinned' = IF pin THEN pinned \cup {i} ELSE pinned
    /\ Answered(d, i)
    /\ UNCHANGED <<alive, sub, requests>>

\* handleUnregister with an endpoint URL: its row goes, known or not.  The client
\* of the endpoint logs out, or another who has the URL cuts it off.
UnregisterEndpoint(i) ==
    /\ i \in used
    /\ endpoints' = [endpoints EXCEPT ![i] = None]
    /\ \/ /\ \E d \in Devices :
                /\ client[d] = "subscribed" /\ held[d] = i
                /\ client' = [client EXCEPT ![d] = "out"]
          /\ UNCHANGED cutOff
       \/ /\ cutOff' = cutOff \cup ({endpoints[i]} \ {None})
          /\ UNCHANGED client
    /\ UNCHANGED <<pinned, used, alive, held, sub, overtaken, requests>>

\* handleUnregister with a device token, which unlike handleRegister it passes on
\* untrimmed: a token with white space around it matches no row.  The client of
\* the device logs out, or another who knows the token cuts it off.
LogOutMutNewest(d) ==
    /\ client[d] # "out"
    /\ client' = [client EXCEPT ![d] = "out"]
    /\ endpoints' = [i \in Ids |-> IF i = held[d] THEN None ELSE endpoints[i]]
    /\ overtaken' = overtaken \ {d}
    /\ UNCHANGED cutOff
LogOut(d) ==
    /\ client[d] # "out"
    /\ client' = [client EXCEPT ![d] = "out"]
    /\ endpoints' = IF d \in Padded THEN endpoints ELSE WithoutDevice(d)
    /\ overtaken' = overtaken \ {d}
    /\ UNCHANGED cutOff
ClearedByOther(d) ==
    /\ endpoints' = WithoutDevice(d)
    /\ cutOff' = cutOff \cup {d}
    /\ UNCHANGED <<client, overtaken>>
UnregisterDevice(d) ==
    /\ LogOut(d) \/ ClearedByOther(d)
    /\ UNCHANGED <<pinned, used, alive, held, sub, requests>>

-----------------------------------------------------------------------------
Answer(r, code) ==
    /\ pc'     = [pc EXCEPT ![r] = "answer"]
    /\ status' = [status EXCEPT ![r] = code]

\* A push arrives for an id in use, from the instance or from anyone who has the URL,
\* without the origin secret; GetWebPushEndpoint reads its row.
PushArrives(r, i, h) ==
    /\ pc[r] = "idle" /\ i \in used
    /\ IF endpoints[i] # None /\ Passes("relay", FALSE, SecretSet, {})
       THEN /\ pc' = [pc EXCEPT ![r] = "screen"]
            /\ push' = [push EXCEPT ![r] = [id |-> i, device |-> endpoints[i],
                                           pinned |-> i \in pinned, header |-> h]]
            /\ UNCHANGED status
       ELSE /\ push' = [push EXCEPT ![r] = Unscreened(i)]
            /\ Answer(r, IF Passes("relay", FALSE, SecretSet, {}) THEN 404 ELSE 403)
    /\ UNCHANGED <<store, outside, others>>

\* GetWebPushEndpoint fails: a 5xx, since the row may be there.
LookupFailsMut404(r, i) ==
    /\ pc[r] = "idle" /\ i \in used
    /\ push' = [push EXCEPT ![r] = Unscreened(i)]
    /\ Answer(r, 404)
    /\ UNCHANGED <<store, outside, others>>
LookupFails(r, i) ==
    /\ pc[r] = "idle" /\ i \in used
    /\ push' = [push EXCEPT ![r] = Unscreened(i)]
    /\ Answer(r, 500)
    /\ UNCHANGED <<store, outside, others>>

\* vapid.Verify: a failure is dropped if a key is pinned, else only logged.
PassesVapid(p) == ~p.pinned \/ Verify(p.header, InstanceKey)

\* The limiter (module RateLimiter) may answer 429; a push that fails the check is
\* dropped with 202, and so is a body that is empty, oversized or legacy-encoded; an
\* unreadable one is a 500.
ScreenMutForbidden(r) ==
    /\ pc[r] = "screen"
    /\ \/ Answer(r, 429)
       \/ ~PassesVapid(push[r]) /\ Answer(r, 403)
       \/ PassesVapid(push[r]) /\ \E code \in {202, 500} : Answer(r, code)
       \/ PassesVapid(push[r]) /\ pc' = [pc EXCEPT ![r] = "send"] /\ UNCHANGED status
    /\ UNCHANGED <<store, outside, others, push>>
Screen(r) ==
    /\ pc[r] = "screen"
    /\ \/ Answer(r, 429)
       \/ ~PassesVapid(push[r]) /\ Answer(r, 202)
       \/ PassesVapid(push[r]) /\ \E code \in {202, 500} : Answer(r, code)
       \/ PassesVapid(push[r]) /\ pc' = [pc EXCEPT ![r] = "send"] /\ UNCHANGED status
    /\ UNCHANGED <<store, outside, others, push>>

\* MultiSender.Send (module Push): taken (201; TouchWebPushEndpoint is bookkeeping), a
\* failure the instance should retry, or ErrTokenInvalid.
Send(r) ==
    /\ pc[r] = "send"
    /\ \E outcome \in Outcomes(push[r].device, push[r].device \in alive) :
          \/ outcome = "sent"    /\ Answer(r, 201)
          \/ outcome = "invalid" /\ pc' = [pc EXCEPT ![r] = "drop"] /\ UNCHANGED status
          \/ outcome = "error"   /\ Answer(r, 502)
    /\ UNCHANGED <<store, outside, others, push>>

\* ErrTokenInvalid: the device's rows go; a failure of the delete is only logged.
DropEndpoints(r) ==
    /\ pc[r] = "drop"
    /\ \/ endpoints' = WithoutDevice(push[r].device)
       \/ "deleteFails" \in Faults /\ UNCHANGED endpoints
    /\ Answer(r, 404)
    /\ UNCHANGED <<pinned, used, outside, others, push>>

\* The answer reaches the sender, or not.  The instance destroys the subscription
\* it pushed for; other senders have none.
AnswerArrives(r) ==
    /\ pc[r] = "answer"
    /\ pc' = [pc EXCEPT ![r] = "idle"]
    /\ push' = [push EXCEPT ![r] = NoPush] /\ status' = [status EXCEPT ![r] = 0]
    /\ \/ /\ Destroys(status[r])
          /\ sub' = [d \in Devices |-> IF sub[d] = push[r].id THEN None ELSE sub[d]]
       \/ UNCHANGED sub
    /\ UNCHANGED <<store, alive, client, held, others>>

\* The gateway process restarts: requests are gone, rows stay.
Restart ==
    /\ "restart" \in Faults
    /\ \E r \in Requests : pc[r] # "idle"
    /\ pc' = [r \in Requests |-> "idle"] /\ push' = [r \in Requests |-> NoPush]
    /\ status' = [r \in Requests |-> 0]
    /\ UNCHANGED <<store, outside, others>>

Next ==
    \/ \E d \in Devices : \/ TokenDies(d) \/ ClientRegisters(d) \/ ClientSubscribes(d)
                          \/ \E i \in Ids, pin \in BOOLEAN : HandleRegister(d, i, pin)
                          \/ UnregisterDevice(d)
    \/ \E i \in Ids : UnregisterEndpoint(i)
    \/ \E r \in Requests :
          \/ \E i \in Ids : LookupFails(r, i) \/ \E h \in Arriving : PushArrives(r, i, h)
          \/ Screen(r) \/ Send(r) \/ DropEndpoints(r) \/ AnswerArrives(r)
    \/ Restart

Spec == Init /\ [][Next]_vars

-----------------------------------------------------------------------------
\* The state has its types; a request that is over holds nothing.
TypeOK ==
    /\ endpoints \in [Ids -> Devices \cup {None}]
    /\ pinned \subseteq used /\ used \subseteq Ids
    /\ alive \subseteq Devices
    /\ client \in [Devices -> {"out", "registering", "endpoint", "subscribed"}]
    /\ held \in [Devices -> Ids \cup {None}] /\ sub \in [Devices -> Ids \cup {None}]
    /\ overtaken \subseteq Devices /\ cutOff \subseteq Devices
    /\ pc \in [Requests -> {"idle", "screen", "send", "drop", "answer"}]
    /\ push \in [Requests -> [id : Ids \cup {None}, device : Devices \cup {None},
                              pinned : BOOLEAN, header : Arriving \cup {None}]]
    /\ status \in [Requests -> {0, 201, 202, 404, 429, 500, 502}]
    /\ \A r \in Requests : pc[r] = "idle" <=> push[r].id = None

\* A device has one endpoint: a registration leaves no older one behind that would
\* keep pushing to a subscription the client replaced (CreateWebPushEndpoint).
OneEndpointPerDevice ==
    \A i, j \in Ids : endpoints[i] # None /\ endpoints[i] = endpoints[j] => i = j

\* handlePush cancels nothing by itself: whatever pushes, forged headers, failures and
\* retries it answered, a client with a valid token that subscribed and neither logged
\* out nor registers again still has its subscription, and the subscription its endpoint
\* ("4xx is reserved for the one case where cancellation is the correct outcome").  The
\* other two handlers may: a registration that commits when its client no longer waits
\* for it, and an unregistration by another, cost a client its endpoint (overtaken, cutOff).
LiveSubscriptionKept ==
    \A d \in alive \ (overtaken \cup cutOff) :
        client[d] = "subscribed" => sub[d] = held[d] /\ endpoints[held[d]] = d

\* An answer that destroys a subscription is about an endpoint that is gone when the
\* answer arrives, or about a device that can no longer be reached.
KillJustified ==
    [][\A d \in Devices :
          sub[d] # None /\ sub'[d] = None => endpoints[sub[d]] = None \/ d \notin alive]_vars

\* A push on a pinned endpoint is given to the provider only if the instance whose key
\* the client pinned signed it, whatever was registered or unregistered meanwhile.
OnlyPinnedSender ==
    \A r \in Requests :
        pc[r] \in {"send", "drop"} /\ (push[r].pinned \/ push[r].id \in pinned) =>
            push[r].header.signer = InstanceKey

\* A client that logged out leaves no endpoint behind, also when answers to its
\* registrations were lost and it only knows a part of what the store holds; a push
\* that read the row before may still go out.  Excepted are a token that is padded,
\* which handleUnregister does not find, and a device registered behind its client's
\* back: after its logout, or before one that names the endpoint only.
LogoutSilences ==
    \A d \in Devices \ (Padded \cup overtaken) :
        client[d] = "out" => \A i \in Ids : endpoints[i] # d
=============================================================================
