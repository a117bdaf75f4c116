------------------------------ MODULE Delivery ------------------------------
(***************************************************************************)
(* From an event to the pushes: handleCommit of internal/jetstream decides *)
(* whom an event concerns, and sendNotification takes each of them through *)
(* its gates and pushes to their devices, in steps between which clients   *)
(* register and unregister, blocks come and go, and device tokens die.     *)
(* The store's operations are atomic here; TokenStore and BlockStore look  *)
(* into them.  A device stands for (platform, push_token, app_id).         *)
(*                                                                         *)
(* External: clients, blocks, devices, and what push providers answer.     *)
(***************************************************************************)
EXTENDS Naturals, Sequences, SequencesExt, Push

CONSTANTS DIDs, Devices, Workers, None,
          Events,     \* the events that may arrive, see EventType
          Clients,    \* <<DID, device>>: the registrations that may be made
          BlockPairs, \* <<blocker, blocked>>: the blocks that may be made
          Faults      \* what may go wrong in a run

EventType ==
    [kind : {"like", "repost", "post", "follow"}, actor : DIDs,
     to : DIDs \cup {None},      \* the author liked, reposted or replied to, or followed
     via : DIDs \cup {None},     \* the reposter it was found through
     quoted : DIDs \cup {None}, mentions : Seq(DIDs)]

ASSUME DeliveryAssumption ==
    /\ None \notin DIDs /\ None \notin Events /\ None \notin Clients
    /\ Events \subseteq EventType
    /\ Clients \subseteq DIDs \X Devices /\ BlockPairs \subseteq DIDs \X DIDs
    /\ Platform \in [Devices -> {"ios", "android", "web"}]
    /\ ExpoTokens \subseteq Devices /\ Configured \subseteq {"apns", "fcm"}
    /\ Faults \subseteq {"readFails", "deleteFails"}

VARIABLES
    rows,     \* push_tokens
    blocks,   \* blocks
    alive,    \* external: devices whose token is valid
    pc,       \* the next step of each worker
    event,    \* the event it handles, or None
    todo,     \* whom it has still to call sendNotification for, or to pass over
    tokens,   \* the rows it has still to push to in the current call
    invalid,  \* the row whose push was just answered with ErrTokenInvalid, or None
    wanted,   \* auxiliary: registrations answered 200 and not unregistered since
    seen,     \* auxiliary: rows that were there at some time since it took the event
    open,     \* auxiliary: DIDs that were not blocked at some time since then
    due,      \* auxiliary: rows there and not blocked at all times since then
    sent      \* auxiliary: how often it tried to push to each client

worker   == <<pc, event, todo, tokens, invalid>>
ghosts   == <<seen, open, due, sent>>
vars == <<rows, blocks, wanted, alive, worker, ghosts>>

\* IsBlocked: in either direction.
Blocked(B, x, y) == <<x, y>> \in B \/ <<y, x>> \in B
IsBlocked(x, y)  == Blocked(blocks, x, y)

-----------------------------------------------------------------------------
\* handleCommit: whom an event concerns, in the order of the calls.
Concerns(e, d) == d \notin {None, e.actor}

\* handleLike and handleRepost: nothing at all for one's own post.
EngagementCallsMutTwice(e) ==
    CASE ~Concerns(e, e.to) -> <<>>
      [] Concerns(e, e.to) /\ Concerns(e, e.via)  -> <<e.to, e.via>>
      [] Concerns(e, e.to) /\ ~Concerns(e, e.via) -> <<e.to>>
EngagementCalls(e) ==
    LET reposter == Concerns(e, e.via) /\ e.via # e.to
    IN  CASE ~Concerns(e, e.to) -> <<>>
          [] Concerns(e, e.to) /\ reposter  -> <<e.to, e.via>>
          [] Concerns(e, e.to) /\ ~reposter -> <<e.to>>

\* handlePost: the reply, the quote, and every mention, each tested on its own right
\* before its call, see CheckRegistered.
PostCalls(e) == <<e.to, e.quoted>> \o e.mentions

Calls(e) ==
    CASE e.kind \in {"like", "repost"} -> EngagementCalls(e)
      [] e.kind = "post"   -> PostCalls(e)
      [] e.kind = "follow" -> IF Concerns(e, e.to) THEN <<e.to>> ELSE <<>>

-----------------------------------------------------------------------------
Init ==
    /\ rows = {} /\ blocks = {} /\ alive = Devices /\ wanted = {}
    /\ pc = [w \in Workers |-> "idle"] /\ event = [w \in Workers |-> None]
    /\ todo = [w \in Workers |-> <<>>] /\ tokens = [w \in Workers |-> {}]
    /\ invalid = [w \in Workers |-> None]
    /\ seen = [w \in Workers |-> {}] /\ open = [w \in Workers |-> {}]
    /\ due = [w \in Workers |-> {}] /\ sent = [w \in Workers |-> [c \in Clients |-> 0]]

Busy == {w \in Workers : pc[w] # "idle"}

\* Row c goes: no push to it is due any more.
NotDue(c) == due' = [w \in Workers |-> due[w] \ {c}]

\* registerPush and unregisterPush for client c, answered 200.
Register(c) ==
    /\ c \notin rows
    /\ rows' = rows \cup {c} /\ wanted' = wanted \cup {c}
    /\ seen' = [w \in Workers |-> IF w \in Busy THEN seen[w] \cup {c} ELSE {}]
    /\ UNCHANGED <<blocks, alive, worker, open, due, sent>>

Unregister(c) ==
    /\ c \in rows
    /\ rows' = rows \ {c} /\ wanted' = wanted \ {c}
    /\ NotDue(c)
    /\ UNCHANGED <<blocks, alive, worker, seen, open, sent>>

\* A block comes or goes (BlockSync).
Block(p) ==
    /\ p \in BlockPairs \ blocks
    /\ blocks' = blocks \cup {p}
    /\ due' = [w \in Workers |->
                  {c \in due[w] : {event[w].actor, c[1]} # {p[1], p[2]}}]
    /\ UNCHANGED <<rows, wanted, alive, worker, seen, open, sent>>

Unblock(p) ==
    /\ p \in blocks
    /\ blocks' = blocks \ {p}
    /\ open' = [w \in Workers |->
                   IF w \in Busy
                   THEN open[w] \cup {d \in DIDs : ~Blocked(blocks', event[w].actor, d)}
                   ELSE {}]
    /\ UNCHANGED <<rows, wanted, alive, worker, seen, due, sent>>

\* A device token dies, for good.
TokenDies(v) ==
    /\ v \in alive
    /\ alive' = alive \ {v}
    /\ UNCHANGED <<rows, blocks, wanted, worker, ghosts>>

-----------------------------------------------------------------------------
\* dispatchWorker takes an event that may concern somebody.
Handle(w, e) ==
    LET unblocked == {d \in DIDs : ~IsBlocked(e.actor, d)}
        targets   == {d \in ToSet(Calls(e)) : Concerns(e, d)} IN
    /\ pc[w] = "idle" /\ Calls(e) # <<>>
    /\ pc'    = [pc EXCEPT ![w] = "registered"]
    /\ event' = [event EXCEPT ![w] = e]
    /\ todo'  = [todo EXCEPT ![w] = Calls(e)]
    /\ seen'  = [seen EXCEPT ![w] = rows]
    /\ open'  = [open EXCEPT ![w] = unblocked]
    /\ due'   = [due EXCEPT ![w] = {c \in rows : c[1] \in targets \cap unblocked}]
    /\ UNCHANGED <<rows, blocks, wanted, alive, tokens, invalid, sent>>

target(w) == Head(todo[w])

\* sendNotification returns, or goes on, the clients in lost not being due any more; after
\* its last call the event is done.
EndCall(w, lost) ==
    LET more == Len(todo[w]) > 1 IN
    /\ todo'   = [todo EXCEPT ![w] = Tail(@)]
    /\ pc'     = [pc EXCEPT ![w] = IF more THEN "registered" ELSE "idle"]
    /\ tokens' = [tokens EXCEPT ![w] = {}]
    /\ event'  = [event EXCEPT ![w] = IF more THEN @ ELSE None]
    /\ seen'   = [seen EXCEPT ![w] = IF more THEN @ ELSE {}]
    /\ open'   = [open EXCEPT ![w] = IF more THEN @ ELSE {}]
    /\ due'    = [due EXCEPT ![w] = IF more THEN @ \ lost ELSE {}]
    /\ sent'   = [sent EXCEPT ![w] = IF more THEN @ ELSE [c \in Clients |-> 0]]
    /\ UNCHANGED <<rows, blocks, wanted, alive, invalid>>

Goto(w, step, lost) ==
    /\ pc'  = [pc EXCEPT ![w] = step]
    /\ due' = [due EXCEPT ![w] = @ \ lost]
    /\ UNCHANGED <<rows, blocks, wanted, alive, event, todo, invalid, seen, open, sent>>

\* The handler's own test of the DID, then IsRegistered.
CheckRegisteredMutSelf(w) ==
    /\ pc[w] = "registered"
    /\ IF \E c \in rows : c[1] = target(w)
       THEN Goto(w, "blocked", {}) /\ UNCHANGED tokens
       ELSE EndCall(w, {})
CheckRegistered(w) ==
    /\ pc[w] = "registered"
    /\ IF Concerns(event[w], target(w)) /\ \E c \in rows : c[1] = target(w)
       THEN Goto(w, "blocked", {}) /\ UNCHANGED tokens
       ELSE EndCall(w, {})

CheckBlockedMutOneWay(w) ==
    /\ pc[w] = "blocked"
    /\ IF <<event[w].actor, target(w)>> \in blocks
       THEN EndCall(w, {})
       ELSE Goto(w, "tokens", {}) /\ UNCHANGED tokens
CheckBlocked(w) ==
    /\ pc[w] = "blocked"
    /\ IF IsBlocked(event[w].actor, target(w))
       THEN EndCall(w, {})
       ELSE Goto(w, "tokens", {}) /\ UNCHANGED tokens

\* GetTokensForDID: an error is logged and the notification is lost; one in the middle of
\* the rows is not looked at, and the rest of them are lost.
ReadTokens(w) ==
    LET held == {c \in rows : c[1] = target(w)} IN
    /\ pc[w] = "tokens"
    /\ \/ \E cut \in SUBSET held :
            /\ cut # {} => "readFails" \in Faults
            /\ Goto(w, "resolve", cut)
            /\ tokens' = [tokens EXCEPT ![w] = held \ cut]
       \/ "readFails" \in Faults /\ EndCall(w, {c \in Clients : c[1] = target(w)})

\* ResolveProfile, and ResolveText for the reasons that need it: both may take
\* seconds, and a failure only leaves the name or the text out.
Resolve(w) ==
    /\ pc[w] = "resolve"
    /\ Goto(w, "send", {}) /\ UNCHANGED tokens

\* One pass of the loop over the tokens (MultiSender.Send, module Push): success, an
\* error that is only counted, or ErrTokenInvalid.

SendOneMutStopOnError(w, c) ==
    /\ pc[w] = "send" /\ c \in tokens[w]
    /\ sent' = [sent EXCEPT ![w][c] = @ + 1]
    /\ \E outcome \in Outcomes(c[2], c[2] \in alive) :
          /\ tokens'  = [tokens EXCEPT ![w] = IF outcome = "error" THEN {} ELSE @ \ {c}]
          /\ pc'      = [pc EXCEPT ![w] = IF outcome = "invalid" THEN "forget" ELSE @]
          /\ invalid' = [invalid EXCEPT ![w] = IF outcome = "invalid" THEN c ELSE None]
    /\ UNCHANGED <<rows, blocks, wanted, alive, event, todo, seen, open, due>>
SendOne(w, c) ==
    /\ pc[w] = "send" /\ c \in tokens[w]
    /\ tokens' = [tokens EXCEPT ![w] = @ \ {c}]
    /\ sent'   = [sent EXCEPT ![w][c] = @ + 1]
    /\ \E outcome \in Outcomes(c[2], c[2] \in alive) :
          /\ pc'      = [pc EXCEPT ![w] = IF outcome = "invalid" THEN "forget" ELSE @]
          /\ invalid' = [invalid EXCEPT ![w] = IF outcome = "invalid" THEN c ELSE None]
    /\ UNCHANGED <<rows, blocks, wanted, alive, event, todo, seen, open, due>>

\* UnregisterToken for that row; an error is logged.
ForgetTokenMutStale(w) ==
    /\ pc[w] = "forget"
    /\ \/ rows' = rows \ {invalid[w]} /\ NotDue(invalid[w])
       \/ "deleteFails" \in Faults /\ UNCHANGED <<rows, due>>
    /\ pc' = [pc EXCEPT ![w] = "send"] /\ UNCHANGED invalid
    /\ UNCHANGED <<blocks, wanted, alive, event, todo, tokens, seen, open, sent>>
ForgetToken(w) ==
    /\ pc[w] = "forget"
    /\ \/ rows' = rows \ {invalid[w]} /\ NotDue(invalid[w])
       \/ "deleteFails" \in Faults /\ UNCHANGED <<rows, due>>
    /\ pc' = [pc EXCEPT ![w] = "send"] /\ invalid' = [invalid EXCEPT ![w] = None]
    /\ UNCHANGED <<blocks, wanted, alive, event, todo, tokens, seen, open, sent>>

LoopEnds(w) ==
    /\ pc[w] = "send" /\ tokens[w] = {}
    /\ EndCall(w, {})

SendNotification(w) ==
    \/ CheckRegistered(w) \/ CheckBlocked(w) \/ ReadTokens(w) \/ Resolve(w)
    \/ (\E c \in Clients : SendOne(w, c)) \/ ForgetToken(w) \/ LoopEnds(w)

Next ==
    \/ \E c \in Clients : Register(c) \/ Unregister(c)
    \/ \E p \in BlockPairs : Block(p) \/ Unblock(p)
    \/ \E v \in Devices : TokenDies(v)
    \/ \E w \in Workers : SendNotification(w) \/ \E e \in Events : Handle(w, e)

Spec == Init /\ [][Next]_vars

-----------------------------------------------------------------------------
\* The state has its types; a worker that is idle holds nothing.
TypeOK ==
    /\ rows \subseteq Clients /\ blocks \subseteq BlockPairs /\ alive \subseteq Devices
    /\ wanted \subseteq Clients
    /\ pc \in [Workers -> {"idle", "registered", "blocked", "tokens", "resolve", "send",
                          "forget"}]
    /\ event \in [Workers -> Events \cup {None}]
    /\ tokens \in [Workers -> SUBSET Clients]
    /\ invalid \in [Workers -> Clients \cup {None}]
    /\ \A w \in Workers :
          /\ pc[w] = "idle" <=> event[w] = None
          /\ pc[w] = "idle" <=> todo[w] = <<>>
          /\ tokens[w] # {} => pc[w] \in {"resolve", "send", "forget"}
          /\ pc[w] = "forget" <=> invalid[w] # None

\* Whoever is pushed to was registered, and not blocked in either direction, at some
\* time since the event was taken, and is concerned by the event without having caused
\* it, whatever registers, logs out, blocks and unblocks in between (sendNotification).
OnlyWelcome ==
    \A w \in Workers, c \in Clients : sent[w][c] > 0 =>
        /\ c \in seen[w]
        /\ c[1] \in open[w]
        /\ c[1] \in {event[w].to, event[w].via, event[w].quoted} \cup ToSet(event[w].mentions)
        /\ c[1] # event[w].actor

\* No one is forgotten: an event that is done has tried every device that was registered
\* and not blocked all the time, also when pushes to others failed or their tokens were
\* removed in between; only a read of the tokens that fails, or stops early, loses any
\* (sendNotification).
NoOneForgotten ==
    [][\A w \in Workers : pc[w] # "idle" /\ pc'[w] = "idle" =>
          \A c \in due[w] : sent[w][c] > 0 \/ (pc[w] = "tokens" /\ c[1] = target(w))]_vars

\* One like, repost or follow is one push to a device, not one as a post's author and
\* another as its reposter (handleLike, handleRepost, handleFollow).
OncePerEngagement ==
    \A w \in Workers, c \in Clients : pc[w] # "idle" /\ event[w].kind # "post" => sent[w][c] <= 1

\* A registration that was answered 200 and not taken back stays as long as the token
\* lives, whatever the providers answered and other devices' tokens did (sendNotification
\* removes a row for ErrTokenInvalid only).
LiveRowKept == \A c \in wanted : c[2] \in alive => c \in rows
=============================================================================
