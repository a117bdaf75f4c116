--------------------------- MODULE DeliveryProofs ---------------------------
(* Theorems about module Delivery, for every value of its constants. *)
EXTENDS Delivery, SequenceTheorems, TLAPS

\* No answer about a valid token is taken for ErrTokenInvalid (APNsSender.Send and
\* FCMSender.Send, given what providers answer).
LEMMA OnlyDeadIsInvalid ==
    ASSUME NEW d, NEW valid \in BOOLEAN, "invalid" \in Outcomes(d, valid)
    PROVE  ~valid
<1> SUFFICES ASSUME valid PROVE FALSE
  OBVIOUS
<1>1. PICK a \in Answers(Route(d), valid) : Verdict(Route(d), a) = "invalid"
  BY DEF Outcomes
<1>2. a \in Refusals
  BY <1>1 DEF Answers, Verdict, TokenInvalid, Taken
<1>3. a.why \notin {"Unregistered", "BadDeviceToken", "UNREGISTERED", "NOT_FOUND"} /\ a.code # 410
  BY <1>2 DEF Refusals
<1> QED BY <1>1, <1>3 DEF Verdict, TokenInvalid

Steps == {"idle", "registered", "blocked", "tokens", "resolve", "send", "forget"}

\* The row a worker is about to remove belongs to a dead token: the verdict of the
\* provider stays true while the worker holds it, since a token never comes back.
Verdicts == \A w \in Workers : pc[w] = "forget" => invalid[w][2] \notin alive

LiveInv ==
    /\ pc \in [Workers -> Steps]
    /\ invalid \in [Workers -> Clients \cup {None}]
    /\ Verdicts
    /\ LiveRowKept

\* A worker that ends a call or goes to a gate removes no row and gives no verdict.
LEMMA QuietStep ==
    ASSUME LiveInv, NEW w \in Workers, NEW step \in Steps \ {"forget"},
           pc' = [pc EXCEPT ![w] = step], UNCHANGED <<rows, wanted, alive, invalid>>
    PROVE  LiveInv'
  BY DEF LiveInv, Verdicts, LiveRowKept

\* The return of sendNotification is such a step.
LEMMA EndCallStep ==
    ASSUME LiveInv, NEW w \in Workers, NEW lost, EndCall(w, lost)
    PROVE  LiveInv'
<1>1. PICK step \in {"registered", "idle"} : pc' = [pc EXCEPT ![w] = step]
  BY DEF EndCall
<1>2. UNCHANGED <<rows, wanted, alive, invalid>>
  BY DEF EndCall
<1> QED BY <1>1, <1>2, QuietStep DEF Steps

\* So is passing a gate of sendNotification.
LEMMA GotoStep ==
    ASSUME LiveInv, NEW w \in Workers, NEW step \in Steps \ {"forget"}, NEW lost,
           Goto(w, step, lost)
    PROVE  LiveInv'
  BY QuietStep DEF Goto

\* Every step keeps LiveInv: a row goes by an unregister, which ends the wish for it
\* too, or by ForgetToken (sendNotification), which has Verdicts on its side.
LEMMA LiveStep == LiveInv /\ [Next]_vars => LiveInv'
<1> SUFFICES ASSUME LiveInv, [Next]_vars PROVE LiveInv'
  OBVIOUS
<1>1. CASE UNCHANGED vars
  BY <1>1 DEF vars, worker, LiveInv, Verdicts, LiveRowKept
<1>2. ASSUME NEW c \in Clients, Register(c) PROVE LiveInv'
  BY <1>2 DEF Register, worker, LiveInv, Verdicts, LiveRowKept
<1>3. ASSUME NEW c \in Clients, Unregister(c) PROVE LiveInv'
  BY <1>3 DEF Unregister, worker, LiveInv, Verdicts, LiveRowKept
<1>4. ASSUME NEW p \in BlockPairs, Block(p) \/ Unblock(p) PROVE LiveInv'
  BY <1>4 DEF Block, Unblock, worker, LiveInv, Verdicts, LiveRowKept
<1>5. ASSUME NEW v \in Devices, TokenDies(v) PROVE LiveInv'
  BY <1>5 DEF TokenDies, worker, LiveInv, Verdicts, LiveRowKept
<1>6. ASSUME NEW w \in Workers, NEW e \in Events, Handle(w, e) PROVE LiveInv'
  BY <1>6, QuietStep DEF Handle, Steps
<1>7. ASSUME NEW w \in Workers, SendNotification(w) PROVE LiveInv'
  <2>1. CASE CheckRegistered(w)
    BY <2>1, EndCallStep, GotoStep DEF CheckRegistered, Steps
  <2>2. CASE CheckBlocked(w)
    BY <2>2, EndCallStep, GotoStep DEF CheckBlocked, Steps
  <2>3. CASE ReadTokens(w)
    BY <2>3, EndCallStep, GotoStep DEF ReadTokens, Steps
  <2>4. CASE Resolve(w)
    BY <2>4, GotoStep DEF Resolve, Steps
  <2>5. ASSUME NEW c \in Clients, SendOne(w, c) PROVE LiveInv'
    <3>1. PICK outcome \in Outcomes(c[2], c[2] \in alive) :
             /\ pc'      = [pc EXCEPT ![w] = IF outcome = "invalid" THEN "forget" ELSE @]
             /\ invalid' = [invalid EXCEPT ![w] = IF outcome = "invalid" THEN c ELSE None]
      BY <2>5 DEF SendOne
    <3>2. pc[w] = "send" /\ UNCHANGED <<rows, wanted, alive>>
      BY <2>5 DEF SendOne
    <3>3. outcome = "invalid" => c[2] \notin alive
      BY OnlyDeadIsInvalid
    <3> QED BY <3>1, <3>2, <3>3 DEF LiveInv, Verdicts, LiveRowKept, Steps
  <2>6. CASE ForgetToken(w)
    <3>1. /\ rows \ {invalid[w]} \subseteq rows'
          /\ invalid[w][2] \notin alive
          /\ UNCHANGED <<wanted, alive>>
          /\ pc' = [pc EXCEPT ![w] = "send"] /\ invalid' = [invalid EXCEPT ![w] = None]
      BY <2>6 DEF ForgetToken, LiveInv, Verdicts
    <3> QED BY <3>1 DEF LiveInv, Verdicts, LiveRowKept, Steps
  <2>7. CASE LoopEnds(w)
    BY <2>7, EndCallStep DEF LoopEnds
  <2> QED BY <1>7, <2>1, <2>2, <2>3, <2>4, <2>5, <2>6, <2>7 DEF SendNotification
<1> QED BY <1>1, <1>2, <1>3, <1>4, <1>5, <1>6, <1>7 DEF Next

\* Whatever the providers answer to however many workers, and whoever registers or logs
\* out in between, the gateway takes no registration from a device whose token is valid
\* (sendNotification with UnregisterToken).
THEOREM LiveRows == Spec => []LiveRowKept
<1>1. Init => LiveInv
  BY DEF Init, LiveInv, Verdicts, LiveRowKept, Steps
<1>2. LiveInv => LiveRowKept
  BY DEF LiveInv
<1> QED BY <1>1, <1>2, LiveStep, PTL DEF Spec

-----------------------------------------------------------------------------
(***************************************************************************)
(* What a worker knows and owes while it handles an event: the inductive   *)
(* invariant of TypeOK, OnlyWelcome, OncePerEngagement and NoOneForgotten. *)
(***************************************************************************)
\* Whom an event can be about; only Concerns tells whether it is.
Addressed(e) == {e.to, e.via, e.quoted} \cup ToSet(e.mentions)

\* The worker has passed the tests of handleCommit and IsRegistered, or IsBlocked too.
Tested == {"blocked", "tokens", "resolve", "send", "forget"}
Passed == {"tokens", "resolve", "send", "forget"}

\* What a worker holds is about its event, and what it knows was true since it took it.
WorkerInv(w) ==
    /\ pc[w] = "idle" => todo[w] = <<>> /\ \A c \in Clients : sent[w][c] = 0
    /\ pc[w] # "idle" =>
         /\ event[w] \in Events
         /\ todo[w] # <<>> /\ ToSet(todo[w]) \subseteq Addressed(event[w])
         /\ rows \subseteq seen[w]
         /\ {d \in DIDs : ~IsBlocked(event[w].actor, d)} \subseteq open[w]
    /\ pc[w] \in Tested => Concerns(event[w], target(w))
    /\ pc[w] \in Passed => target(w) \in open[w]
    /\ tokens[w] \subseteq {c \in seen[w] : c[1] = target(w)}

\* Whoever was pushed to was welcome to it: OnlyWelcome, for one worker.
SentInv(w) ==
    \A c \in Clients : sent[w][c] > 0 =>
        /\ c \in seen[w] /\ c[1] \in open[w]
        /\ c[1] \in Addressed(event[w]) /\ Concerns(event[w], c[1])

\* A client is tried once at most in an engagement, and not before its turn.
OnceInv(w) ==
    pc[w] # "idle" /\ event[w].kind # "post" =>
        /\ \A i, j \in 1..Len(todo[w]) : todo[w][i] = todo[w][j] => i = j
        /\ \A c \in Clients :
              /\ sent[w][c] <= 1
              /\ \A i \in 2..Len(todo[w]) : c[1] = todo[w][i] => sent[w][c] = 0
              /\ c[1] = target(w) /\ (pc[w] \notin {"send", "forget"} \/ c \in tokens[w])
                    => sent[w][c] = 0

\* The turn of c is still to come, or it is being pushed to.
Later(w, c) == \E i \in 2..Len(todo[w]) : todo[w][i] = c[1]
Ahead(w, c) ==
    \/ Later(w, c)
    \/ c[1] = target(w) /\ (pc[w] \in {"registered", "blocked", "tokens"} \/ c \in tokens[w])

\* Whoever is due a push could get it now, and has been tried or is still ahead.
DueInv(w) ==
    pc[w] # "idle" =>
        \A c \in due[w] :
            /\ c \in rows
            /\ ~IsBlocked(event[w].actor, c[1]) /\ Concerns(event[w], c[1])
            /\ sent[w][c] > 0 \/ Ahead(w, c)

\* The types of what TypeOK leaves out.
HeldTypeOK ==
    /\ todo \in [Workers -> Seq(DIDs \cup {None})]
    /\ seen \in [Workers -> SUBSET Clients] /\ open \in [Workers -> SUBSET DIDs]
    /\ due \in [Workers -> SUBSET Clients]
    /\ sent \in [Workers -> [Clients -> Nat]]

EventInv(w) == WorkerInv(w) /\ SentInv(w) /\ OnceInv(w) /\ DueInv(w)

DInv == TypeOK /\ HeldTypeOK /\ \A w \in Workers : EventInv(w)

\* The calls of an event are for those it addresses, and for nobody twice in an
\* engagement (handleCommit).
LEMMA CallsFit ==
    ASSUME NEW e \in Events
    PROVE  /\ Calls(e) \in Seq(DIDs \cup {None})
           /\ ToSet(Calls(e)) \subseteq Addressed(e)
           /\ e.kind # "post" =>
                 \A i, j \in 1..Len(Calls(e)) : Calls(e)[i] = Calls(e)[j] => i = j
<1>t. /\ e.kind \in {"like", "repost", "post", "follow"}
      /\ {e.to, e.via, e.quoted} \subseteq DIDs \cup {None} /\ e.mentions \in Seq(DIDs)
  BY DeliveryAssumption DEF EventType
<1>1. CASE e.kind = "post"
  <2>1. e.mentions \in Seq(DIDs \cup {None}) /\ <<e.to, e.quoted>> \in Seq(DIDs \cup {None})
    BY <1>t
  <2>2. /\ PostCalls(e) \in Seq(DIDs \cup {None})
        /\ Len(PostCalls(e)) = 2 + Len(e.mentions)
        /\ \A i \in 1..Len(PostCalls(e)) :
              PostCalls(e)[i] = IF i <= 2 THEN <<e.to, e.quoted>>[i] ELSE e.mentions[i - 2]
    BY <2>1, ConcatProperties DEF PostCalls
  <2>3. \A i \in 1..Len(PostCalls(e)) : PostCalls(e)[i] \in Addressed(e)
    <3> SUFFICES ASSUME NEW i \in 1..Len(PostCalls(e)) PROVE PostCalls(e)[i] \in Addressed(e)
      OBVIOUS
    <3>1. CASE i <= 2
      BY <3>1, <2>2 DEF Addressed
    <3>2. CASE i > 2
      <4>1. i - 2 \in DOMAIN e.mentions
        BY <3>2, <2>2, <1>t
      <4> QED
        BY <3>2, <4>1, <2>2 DEF Addressed, ToSet
    <3> QED
      BY <3>1, <3>2
  <2> QED
    BY <1>1, <2>2, <2>3 DEF Calls, ToSet
<1>2. CASE e.kind = "follow"
  <2>1. Calls(e) = IF Concerns(e, e.to) THEN <<e.to>> ELSE <<>>
    BY <1>2 DEF Calls
  <2>2. CASE Calls(e) = <<e.to>>
    BY <2>2, <1>t DEF ToSet, Addressed
  <2>3. CASE Calls(e) = <<>>
    BY <2>3 DEF ToSet
  <2> QED
    BY <2>1, <2>2, <2>3
<1>3. CASE e.kind \in {"like", "repost"}
  <2>1. \/ Calls(e) = <<>> \/ Calls(e) = <<e.to>>
        \/ Calls(e) = <<e.to, e.via>> /\ e.via # e.to
    BY <1>3 DEF Calls, EngagementCalls
  <2>2. CASE Calls(e) = <<e.to, e.via>> /\ e.via # e.to
    BY <2>2, <1>t DEF ToSet, Addressed
  <2>3. CASE Calls(e) = <<e.to>>
    BY <2>3, <1>t DEF ToSet, Addressed
  <2>4. CASE Calls(e) = <<>>
    BY <2>4 DEF ToSet
  <2> QED
    BY <2>1, <2>2, <2>3, <2>4
<1> QED
  BY <1>1, <1>2, <1>3, <1>t

\* What is left of the calls when one is done.
LEMMA Rest ==
    ASSUME NEW S, NEW s \in Seq(S), s # <<>>
    PROVE  /\ Head(s) = s[1] /\ 1 \in 1..Len(s) /\ Len(s) \in Nat /\ Tail(s) \in Seq(S)
           /\ Len(Tail(s)) = Len(s) - 1
           /\ \A i \in 1..Len(Tail(s)) : i + 1 \in 2..Len(s) /\ Tail(s)[i] = s[i + 1]
           /\ ToSet(Tail(s)) \subseteq ToSet(s)
           /\ Tail(s) = <<>> <=> ~(Len(s) > 1)
<1>1. /\ Head(s) = s[1] /\ 1 \in 1..Len(s) /\ Len(s) \in Nat /\ Tail(s) \in Seq(S)
      /\ Len(Tail(s)) = Len(s) - 1
      /\ \A i \in 1..Len(Tail(s)) : i + 1 \in 2..Len(s) /\ Tail(s)[i] = s[i + 1]
  BY HeadTailProperties, LenProperties
<1>2. ToSet(Tail(s)) \subseteq ToSet(s)
  BY <1>1 DEF ToSet
<1>3. Tail(s) = <<>> <=> Len(Tail(s)) = 0
  BY <1>1, EmptySeq
<1> QED
  BY <1>1, <1>2, <1>3

Types == TypeOK /\ HeldTypeOK

\* sendNotification returns: the types stay.
LEMMA EndCallTypes ==
    ASSUME Types, NEW w \in Workers, NEW lost, EndCall(w, lost), pc[w] \notin {"idle", "forget"}
    PROVE  Types'
<1> DEFINE more == Len(todo[w]) > 1
<1>1. /\ todo[w] \in Seq(DIDs \cup {None}) /\ todo[w] # <<>> /\ event[w] \in Events
  BY DEF Types, TypeOK, HeldTypeOK
<1>2. Tail(todo[w]) \in Seq(DIDs \cup {None}) /\ (Tail(todo[w]) = <<>> <=> ~more)
  BY <1>1, Rest
<1> HIDE DEF more
<1>3. HeldTypeOK'
  BY <1>2 DEF Types, HeldTypeOK, EndCall
<1>4. TypeOK'
  <2>1. /\ rows' = rows /\ blocks' = blocks /\ alive' = alive /\ wanted' = wanted
        /\ invalid' = invalid
        /\ pc' = [pc EXCEPT ![w] = IF more THEN "registered" ELSE "idle"]
        /\ event' = [event EXCEPT ![w] = IF more THEN @ ELSE None]
        /\ todo' = [todo EXCEPT ![w] = Tail(@)]
        /\ tokens' = [tokens EXCEPT ![w] = {}]
    BY DEF EndCall, more
  <2>2. None \notin Events
    BY DeliveryAssumption
  <2> QED
    BY <2>1, <2>2, <1>1, <1>2 DEF Types, TypeOK, HeldTypeOK
<1> QED
  BY <1>3, <1>4 DEF Types

\* Passing a gate: so do they.
LEMMA GotoTypes ==
    ASSUME Types, NEW w \in Workers, pc[w] \notin {"idle", "forget"},
           NEW step \in {"blocked", "tokens", "resolve", "send"}, NEW lost, Goto(w, step, lost),
           tokens' \in [Workers -> SUBSET Clients],
           \A v \in Workers \ {w} : tokens'[v] = tokens[v],
           tokens'[w] # {} => step \in {"resolve", "send"}
    PROVE  Types'
  BY DEF Goto, Types, TypeOK, HeldTypeOK, ghosts

\* Every step keeps the types, an idle worker's emptiness and the verdict of a
\* worker that is about to remove a row.
LEMMA TypesStep == Types /\ [Next]_vars => Types'
<1> SUFFICES ASSUME Types, [Next]_vars PROVE Types'
  OBVIOUS
<1>0. /\ None \notin Events /\ None \notin Clients
      /\ \A w \in Workers : pc[w] # "idle" => event[w] \in Events /\ todo[w] # <<>>
  BY DeliveryAssumption DEF Types, TypeOK
<1>1. CASE UNCHANGED vars
  BY <1>1 DEF vars, worker, ghosts, Types, TypeOK, HeldTypeOK
<1>2. ASSUME NEW c \in Clients, Register(c) \/ Unregister(c) PROVE Types'
  <2>1. TypeOK'
    BY <1>2 DEF Register, Unregister, worker, Types, TypeOK
  <2>2. HeldTypeOK'
    <3>1. CASE Register(c)
      BY <3>1 DEF Register, worker, Types, HeldTypeOK
    <3>2. CASE Unregister(c)
      BY <3>2 DEF Unregister, NotDue, worker, Types, HeldTypeOK
    <3> QED
      BY <1>2, <3>1, <3>2
  <2> QED
    BY <2>1, <2>2 DEF Types
<1>3. ASSUME NEW p \in BlockPairs, Block(p) \/ Unblock(p) PROVE Types'
  <2>1. TypeOK'
    BY <1>3 DEF Block, Unblock, worker, Types, TypeOK
  <2>2. HeldTypeOK'
    <3>1. CASE Block(p)
      BY <3>1 DEF Block, worker, Types, HeldTypeOK
    <3>2. CASE Unblock(p)
      BY <3>2 DEF Unblock, worker, Types, HeldTypeOK
    <3> QED
      BY <1>3, <3>1, <3>2
  <2> QED
    BY <2>1, <2>2 DEF Types
<1>4. ASSUME NEW v \in Devices, TokenDies(v) PROVE Types'
  BY <1>4 DEF TokenDies, worker, ghosts, Types, TypeOK, HeldTypeOK
<1>5. ASSUME NEW w \in Workers, NEW e \in Events, Handle(w, e) PROVE Types'
  <2>1. Calls(e) \in Seq(DIDs \cup {None}) /\ Calls(e) # <<>>
    BY <1>5, CallsFit DEF Handle
  <2>2. HeldTypeOK'
    BY <1>5, <2>1 DEF Handle, Types, TypeOK, HeldTypeOK
  <2>3. TypeOK'
    BY <1>0, <1>5, <2>1 DEF Handle, Types, TypeOK, HeldTypeOK
  <2> QED
    BY <2>2, <2>3 DEF Types
<1>6. ASSUME NEW w \in Workers, SendNotification(w) PROVE Types'
  <2>t. tokens \in [Workers -> SUBSET Clients]
    BY DEF Types, TypeOK
  <2>1. CASE CheckRegistered(w)
    <3>1. CASE Goto(w, "blocked", {}) /\ UNCHANGED tokens
      BY <2>1, <2>t, <3>1, GotoTypes DEF CheckRegistered, Types, TypeOK
    <3> QED
      BY <2>1, <3>1, EndCallTypes DEF CheckRegistered
  <2>2. CASE CheckBlocked(w)
    <3>1. CASE Goto(w, "tokens", {}) /\ UNCHANGED tokens
      BY <2>2, <2>t, <3>1, GotoTypes DEF CheckBlocked, Types, TypeOK
    <3> QED
      BY <2>2, <3>1, EndCallTypes DEF CheckBlocked
  <2>3. CASE ReadTokens(w)
    <3> DEFINE held == {c \in rows : c[1] = target(w)}
    <3>1. ASSUME NEW cut, Goto(w, "resolve", cut), tokens' = [tokens EXCEPT ![w] = held \ cut]
          PROVE  Types'
      <4>1. held \ cut \subseteq Clients /\ pc[w] = "tokens"
        BY <2>3 DEF ReadTokens, Types, TypeOK
      <4>2. /\ tokens' \in [Workers -> SUBSET Clients]
            /\ \A v \in Workers \ {w} : tokens'[v] = tokens[v]
        BY <3>1, <4>1 DEF Types, TypeOK
      <4> QED
        BY <3>1, <4>1, <4>2, GotoTypes
    <3> QED
      BY <2>3, <3>1, EndCallTypes DEF ReadTokens
  <2>4. CASE Resolve(w)
    BY <2>4, <2>t, GotoTypes DEF Resolve
  <2>5. ASSUME NEW c \in Clients, SendOne(w, c) PROVE Types'
    <3>1. PICK outcome \in Outcomes(c[2], c[2] \in alive) :
             /\ pc'      = [pc EXCEPT ![w] = IF outcome = "invalid" THEN "forget" ELSE @]
             /\ invalid' = [invalid EXCEPT ![w] = IF outcome = "invalid" THEN c ELSE None]
      BY <2>5 DEF SendOne
    <3>2. /\ pc[w] = "send" /\ tokens' = [tokens EXCEPT ![w] = @ \ {c}]
          /\ sent' = [sent EXCEPT ![w][c] = @ + 1]
          /\ UNCHANGED <<rows, blocks, wanted, alive, event, todo, seen, open, due>>
      BY <2>5 DEF SendOne
    <3>3. HeldTypeOK'
      BY <3>2 DEF Types, HeldTypeOK
    <3>4. TypeOK'
      BY <1>0, <3>1, <3>2 DEF Types, TypeOK
    <3> QED
      BY <3>3, <3>4 DEF Types
  <2>6. CASE ForgetToken(w)
    <3>1. HeldTypeOK'
      BY <2>6 DEF ForgetToken, NotDue, Types, HeldTypeOK
    <3>2. TypeOK'
      BY <1>0, <2>6 DEF ForgetToken, Types, TypeOK
    <3> QED
      BY <3>1, <3>2 DEF Types
  <2>7. CASE LoopEnds(w)
    BY <2>7, EndCallTypes DEF LoopEnds
  <2> QED
    BY <1>6, <2>1, <2>2, <2>3, <2>4, <2>5, <2>6, <2>7 DEF SendNotification
<1> QED
  BY <1>1, <1>2, <1>3, <1>4, <1>5, <1>6 DEF Next

-----------------------------------------------------------------------------
\* What others do: they may add to what a worker has seen, and end what is due.
LEMMA Apart ==
    ASSUME Types, NEW w \in Workers, EventInv(w), Types',
           pc'[w] = pc[w], event'[w] = event[w], todo'[w] = todo[w],
           tokens'[w] = tokens[w], sent'[w] = sent[w],
           pc[w] # "idle" =>
               /\ seen[w] \subseteq seen'[w] /\ open[w] \subseteq open'[w]
               /\ rows' \subseteq seen'[w]
               /\ {d \in DIDs : ~IsBlocked(event[w].actor, d)'} \subseteq open'[w]
               /\ due'[w] \subseteq due[w] /\ due'[w] \subseteq rows'
               /\ \A c \in due'[w] : ~IsBlocked(event[w].actor, c[1])'
    PROVE  EventInv(w)'
<1>1. WorkerInv(w)'
  <2>1. pc[w] = "idle" => tokens'[w] = {}
    BY DEF Types, TypeOK
  <2>2. WorkerInv(w)
    BY DEF EventInv
  <2>3. pc[w] = "idle" => pc[w] \notin Tested /\ pc[w] \notin Passed
    BY DEF Tested, Passed
  <2>4. pc[w] # "idle" => tokens[w] \subseteq {c \in seen'[w] : c[1] = target(w)}
    BY <2>2 DEF WorkerInv
  <2>5. target(w)' = target(w)
    BY DEF target
  <2>6. tokens'[w] \subseteq {c \in seen'[w] : c[1] = target(w)}
    BY <2>1, <2>4
  <2> QED
    BY <2>2, <2>3, <2>5, <2>6 DEF WorkerInv
<1>2. OnceInv(w)'
  BY DEF EventInv, OnceInv, target
<1>3. DueInv(w)'
  <2>1. \A c : Ahead(w, c)' <=> Ahead(w, c)
    BY DEF Ahead, Later, target
  <2> QED
    BY <2>1 DEF EventInv, DueInv
<1>4. SentInv(w)'
  BY DEF EventInv, WorkerInv, SentInv
<1> QED
  BY <1>1, <1>2, <1>3, <1>4 DEF EventInv

\* A worker takes an event.
LEMMA HandleKeeps ==
    ASSUME Types, NEW w \in Workers, EventInv(w), Types', NEW e \in Events, Handle(w, e)
    PROVE  EventInv(w)'
<1> DEFINE unblocked == {d \in DIDs : ~IsBlocked(e.actor, d)}
           targets == {d \in ToSet(Calls(e)) : Concerns(e, d)}
<1>1. /\ pc[w] = "idle" /\ Calls(e) # <<>> /\ pc'[w] = "registered" /\ event'[w] = e
      /\ todo'[w] = Calls(e) /\ seen'[w] = rows /\ open'[w] = unblocked
      /\ due'[w] = {c \in rows : c[1] \in targets \cap unblocked}
      /\ UNCHANGED <<rows, blocks, tokens, sent>>
  BY DEF Handle, Types, TypeOK, HeldTypeOK
<1>2. tokens[w] = {} /\ \A c \in Clients : sent[w][c] = 0
  BY <1>1 DEF Types, TypeOK, EventInv, WorkerInv
<1>3. WorkerInv(w)'
  BY <1>1, <1>2, CallsFit DEF WorkerInv, Tested, Passed, IsBlocked
<1>4. OnceInv(w)'
  BY <1>1, <1>2, CallsFit DEF OnceInv
<1>5. DueInv(w)'
  <2>1. /\ todo'[w] \in Seq(DIDs \cup {None}) /\ todo'[w] # <<>>
        /\ Len(todo'[w]) \in Nat /\ target(w)' = todo'[w][1]
    BY <1>1, CallsFit, Rest DEF target
  <2>2. ASSUME NEW d \in ToSet(todo'[w])
        PROVE  d = todo'[w][1] \/ \E i \in 2..Len(todo'[w]) : todo'[w][i] = d
    BY <2>1 DEF ToSet
  <2>3. ASSUME NEW c \in due'[w]
        PROVE  /\ c \in rows' /\ Ahead(w, c)'
               /\ ~IsBlocked(event[w].actor, c[1])' /\ Concerns(event'[w], c[1])
    <3>1. c \in rows /\ c[1] \in targets /\ c[1] \in unblocked
      BY <1>1
    <3>2. c[1] \in ToSet(todo'[w])
      BY <1>1, <3>1
    <3>3. Ahead(w, c)'
      BY <1>1, <2>1, <2>2, <3>2 DEF Ahead, Later
    <3> QED
      BY <1>1, <3>1, <3>3 DEF IsBlocked
  <2> QED
    BY <2>3 DEF DueInv
<1>6. SentInv(w)'
  BY <1>1, <1>2 DEF SentInv
<1> QED
  BY <1>3, <1>4, <1>5, <1>6 DEF EventInv

\* A call is over: what it owed is paid or lost, the next one owes the rest.
LEMMA EndCallKeeps ==
    ASSUME Types, NEW w \in Workers, EventInv(w), Types', NEW lost, EndCall(w, lost),
           pc[w] # "idle",
           \A c \in due[w] : c[1] = target(w) => c \in lost \/ sent[w][c] > 0 \/ Later(w, c)
    PROVE  EventInv(w)'
<1>0. WorkerInv(w) /\ OnceInv(w) /\ DueInv(w)
  BY DEF EventInv
<1>1. /\ todo[w] \in Seq(DIDs \cup {None}) /\ todo[w] # <<>> /\ event[w] \in Events
      /\ due[w] \subseteq Clients
  BY DEF Types, TypeOK, HeldTypeOK
<1>2. /\ Len(todo[w]) \in Nat /\ target(w) = todo[w][1]
      /\ Len(Tail(todo[w])) = Len(todo[w]) - 1
      /\ \A i \in 1..Len(Tail(todo[w])) : Tail(todo[w])[i] = todo[w][i + 1]
      /\ ToSet(Tail(todo[w])) \subseteq ToSet(todo[w])
      /\ Tail(todo[w]) = <<>> <=> ~(Len(todo[w]) > 1)
      /\ Len(todo[w]) > 1 => Head(Tail(todo[w])) = todo[w][2]
  <2>1. Tail(todo[w]) # <<>> => Head(Tail(todo[w])) = Tail(todo[w])[1]
    BY <1>1, Rest
  <2> QED
    BY <1>1, <2>1, Rest DEF target
<1>3. CASE Len(todo[w]) > 1
  <2>1. /\ pc'[w] = "registered" /\ todo'[w] = Tail(todo[w]) /\ tokens'[w] = {}
        /\ event'[w] = event[w] /\ seen'[w] = seen[w] /\ open'[w] = open[w]
        /\ due'[w] = due[w] \ lost /\ sent'[w] = sent[w]
        /\ UNCHANGED <<rows, blocks>>
    BY <1>3 DEF EndCall, Types, TypeOK, HeldTypeOK
  <2>2. WorkerInv(w)'
    BY <1>0, <1>2, <1>3, <2>1 DEF WorkerInv, IsBlocked, Tested, Passed
  <2>t. target(w)' = todo[w][2]
    BY <1>2, <1>3, <2>1 DEF target
  <2>3. OnceInv(w)'
    <3> SUFFICES ASSUME event[w].kind # "post" PROVE OnceInv(w)'
      BY <2>1 DEF OnceInv
    <3>1. \A i, j \in 1..Len(todo'[w]) : todo'[w][i] = todo'[w][j] => i = j
      <4> SUFFICES ASSUME NEW i \in 1..Len(todo'[w]), NEW j \in 1..Len(todo'[w]),
                          todo'[w][i] = todo'[w][j]
                   PROVE  i = j
        OBVIOUS
      <4>1. /\ i + 1 \in 1..Len(todo[w]) /\ j + 1 \in 1..Len(todo[w])
            /\ todo[w][i + 1] = todo[w][j + 1]
        BY <1>2, <2>1
      <4>2. i + 1 = j + 1
        BY <4>1, <1>0 DEF OnceInv
      <4> QED
        BY <4>2
    <3>2. ASSUME NEW c \in Clients
          PROVE  /\ sent'[w][c] <= 1
                 /\ \A i \in 2..Len(todo'[w]) : c[1] = todo'[w][i] => sent'[w][c] = 0
                 /\ c[1] = target(w)' => sent'[w][c] = 0
      <4>1. ASSUME NEW i \in 2..Len(todo'[w]), c[1] = todo'[w][i] PROVE sent'[w][c] = 0
        <5>1. i + 1 \in 2..Len(todo[w]) /\ c[1] = todo[w][i + 1]
          BY <4>1, <1>2, <2>1
        <5> QED
          BY <5>1, <1>0, <2>1 DEF OnceInv
      <4>2. 2 \in 2..Len(todo[w])
        BY <1>2, <1>3
      <4>3. c[1] = target(w)' => sent'[w][c] = 0
        BY <4>2, <1>0, <2>1, <2>t DEF OnceInv
      <4> QED
        BY <4>1, <4>3, <1>0, <2>1 DEF OnceInv
    <3> QED
      BY <3>1, <3>2 DEF OnceInv
  <2>4. DueInv(w)'
    <3> SUFFICES ASSUME NEW c \in due'[w]
                 PROVE  /\ c \in rows' /\ ~IsBlocked(event[w].actor, c[1])'
                        /\ Concerns(event'[w], c[1])
                        /\ (sent[w][c] > 0 \/ Ahead(w, c))'
      BY DEF DueInv
    <3>1. /\ c \in due[w] /\ c \notin lost /\ c \in rows /\ ~IsBlocked(event[w].actor, c[1])
          /\ Concerns(event[w], c[1]) /\ (sent[w][c] > 0 \/ Ahead(w, c))
      BY <1>0, <2>1 DEF DueInv
    <3>2. sent[w][c] > 0 \/ \E i \in 2..Len(todo[w]) : todo[w][i] = c[1]
      BY <3>1 DEF Ahead, Later
    <3>3. ASSUME NEW i \in 2..Len(todo[w]), todo[w][i] = c[1] PROVE Ahead(w, c)'
      <4>1. CASE i = 2
        BY <4>1, <3>3, <2>1, <2>t DEF Ahead, Later
      <4>2. CASE i # 2
        <5>1. i - 1 \in 2..Len(todo'[w]) /\ todo'[w][i - 1] = c[1]
          BY <4>2, <3>3, <1>2, <2>1
        <5> QED
          BY <5>1 DEF Ahead, Later
      <4> QED
        BY <4>1, <4>2
    <3> QED
      BY <3>1, <3>2, <3>3, <2>1 DEF IsBlocked
  <2>5. SentInv(w)'
    BY <2>1 DEF EventInv, SentInv
  <2> QED
    BY <2>2, <2>3, <2>4, <2>5 DEF EventInv
<1>4. CASE ~(Len(todo[w]) > 1)
  <2>1. /\ pc'[w] = "idle" /\ todo'[w] = <<>> /\ tokens'[w] = {}
        /\ sent'[w] = [c \in Clients |-> 0]
    BY <1>2, <1>4 DEF EndCall, Types, TypeOK, HeldTypeOK
  <2> QED
    BY <2>1 DEF EventInv, WorkerInv, SentInv, OnceInv, DueInv, Tested, Passed
<1> QED
  BY <1>3, <1>4

\* A gate is passed: what is due is still ahead or in hand.
LEMMA GotoKeeps ==
    ASSUME Types, NEW w \in Workers, EventInv(w), Types',
           NEW step \in {"blocked", "tokens", "resolve", "send"}, NEW lost, Goto(w, step, lost),
           pc[w] \notin {"idle", "send", "forget"},
           Concerns(event[w], target(w)), step # "blocked" => target(w) \in open[w],
           tokens'[w] \subseteq {c \in rows : c[1] = target(w)} \/ tokens'[w] = tokens[w],
           \A c \in due[w] \ lost : c[1] = target(w) =>
               sent[w][c] > 0 \/ Later(w, c) \/ step \in {"blocked", "tokens"} \/ c \in tokens'[w]
    PROVE  EventInv(w)'
<1>0. WorkerInv(w) /\ OnceInv(w) /\ DueInv(w)
  BY DEF EventInv
<1>1. /\ pc'[w] = step
      /\ due'[w] = due[w] \ lost /\ UNCHANGED <<rows, blocks, event, todo, seen, open, sent>>
  BY DEF Goto, Types, TypeOK, HeldTypeOK
<1>t. target(w)' = target(w)
  BY <1>1 DEF target
<1>2. WorkerInv(w)'
  <2>1. rows \subseteq seen[w]
    BY <1>0 DEF WorkerInv
  <2>2. (tokens[w] \subseteq {c \in seen[w] : c[1] = target(w)})'
    BY <2>1, <1>0, <1>1, <1>t DEF WorkerInv
  <2> QED
    BY <2>2, <1>0, <1>1, <1>t DEF WorkerInv, IsBlocked, Tested, Passed
<1>3. OnceInv(w)'
  <2>1. \A c \in Clients : /\ event[w].kind # "post" /\ c[1] = target(w) => sent[w][c] = 0
    BY <1>0 DEF OnceInv
  <2> QED
    BY <2>1, <1>0, <1>1, <1>t DEF OnceInv
<1>4. DueInv(w)'
  BY <1>0, <1>1, <1>t DEF DueInv, Ahead, Later, IsBlocked
<1>5. SentInv(w)'
  BY <1>1 DEF EventInv, SentInv
<1> QED
  BY <1>2, <1>3, <1>4, <1>5 DEF EventInv

\* One push of the loop: its token leaves the hand, and its count goes up.
LEMMA SendOneKeeps ==
    ASSUME Types, NEW w \in Workers, EventInv(w), Types', NEW c \in Clients, SendOne(w, c)
    PROVE  EventInv(w)'
<1>0. WorkerInv(w) /\ OnceInv(w) /\ DueInv(w)
  BY DEF EventInv
<1>1. /\ pc[w] = "send" /\ pc'[w] \in {"send", "forget"} /\ c \in tokens[w]
      /\ tokens'[w] = tokens[w] \ {c}
      /\ UNCHANGED <<rows, blocks, event, todo, seen, open, due>>
  BY DEF SendOne, Types, TypeOK
<1>2. /\ \A d \in Clients : sent[w][d] \in Nat
      /\ \A d \in Clients : sent'[w][d] = IF d = c THEN sent[w][d] + 1 ELSE sent[w][d]
  BY DEF SendOne, Types, HeldTypeOK
<1>t. target(w)' = target(w) /\ c[1] = target(w)
  BY <1>0, <1>1 DEF target, WorkerInv
<1>3. WorkerInv(w)'
  BY <1>0, <1>1, <1>t DEF WorkerInv, IsBlocked, Tested, Passed
<1>4. OnceInv(w)'
  <2> SUFFICES ASSUME event[w].kind # "post" PROVE OnceInv(w)'
    BY <1>1 DEF OnceInv
  <2>1. /\ \A i, j \in 1..Len(todo[w]) : todo[w][i] = todo[w][j] => i = j
        /\ todo[w][1] = target(w) /\ Len(todo[w]) \in Nat /\ 1 \in 1..Len(todo[w])
    <3>1. todo[w] \in Seq(DIDs \cup {None}) /\ todo[w] # <<>>
      BY <1>1 DEF Types, TypeOK, HeldTypeOK
    <3> QED
      BY <3>1, <1>0, <1>1, Rest DEF OnceInv, target
  <2>2. \A i \in 2..Len(todo[w]) : todo[w][i] # c[1]
    <3> SUFFICES ASSUME NEW i \in 2..Len(todo[w]), todo[w][i] = c[1] PROVE FALSE
      OBVIOUS
    <3>1. i \in 1..Len(todo[w]) /\ i # 1
      BY <2>1
    <3> QED
      BY <3>1, <2>1, <1>t
  <2>3. sent[w][c] = 0
    BY <1>0, <1>1, <1>t DEF OnceInv
  <2>4. ASSUME NEW d \in Clients
        PROVE  /\ sent'[w][d] <= 1
               /\ \A i \in 2..Len(todo[w]) : d[1] = todo[w][i] => sent'[w][d] = 0
               /\ d[1] = target(w) /\ d \in tokens'[w] => sent'[w][d] = 0
    <3>1. CASE d = c
      BY <3>1, <2>2, <2>3, <1>1, <1>2
    <3>2. CASE d # c
      BY <3>2, <1>0, <1>1, <1>2 DEF OnceInv
    <3> QED
      BY <3>1, <3>2
  <2> QED
    BY <2>1, <2>4, <1>1, <1>t DEF OnceInv
<1>5. DueInv(w)'
  <2> SUFFICES ASSUME NEW d \in due[w] PROVE (sent[w][d] > 0 \/ Ahead(w, d))'
    BY <1>0, <1>1 DEF DueInv, IsBlocked
  <2>1. d \in Clients /\ (sent[w][d] > 0 \/ Ahead(w, d))
    BY <1>0, <1>1 DEF DueInv, Types, HeldTypeOK
  <2>2. CASE d = c
    BY <2>1, <2>2, <1>2
  <2>3. CASE d # c
    BY <2>1, <2>3, <1>1, <1>2, <1>t DEF Ahead, Later
  <2> QED
    BY <2>2, <2>3
<1>6. SentInv(w)'
  <2>1. /\ c \in seen[w] /\ target(w) \in open[w] /\ Concerns(event[w], target(w))
        /\ ToSet(todo[w]) \subseteq Addressed(event[w])
    BY <1>0, <1>1 DEF WorkerInv, Tested, Passed
  <2>2. todo[w] \in Seq(DIDs \cup {None}) /\ todo[w] # <<>>
    BY <1>1 DEF Types, TypeOK, HeldTypeOK
  <2>3. target(w) \in ToSet(todo[w])
    BY <2>2, Rest DEF target, ToSet
  <2>4. \A d \in Clients : d # c => (sent'[w][d] > 0 => sent[w][d] > 0)
    BY <1>2
  <2> QED
    BY <2>1, <2>3, <2>4, <1>1, <1>t DEF EventInv, SentInv
<1> QED
  BY <1>3, <1>4, <1>5, <1>6 DEF EventInv

\* A row whose token was refused goes, or stays because its removal failed; the worker
\* goes on with the other tokens in hand.
LEMMA ForgetTokenKeeps ==
    ASSUME Types, NEW w \in Workers, EventInv(w), Types', ForgetToken(w)
    PROVE  EventInv(w)'
<1>0. WorkerInv(w) /\ OnceInv(w) /\ DueInv(w)
  BY DEF EventInv
<1>1. /\ pc[w] = "forget" /\ pc'[w] = "send"
      /\ rows' \subseteq rows
      /\ due'[w] \subseteq due[w] /\ due'[w] \cap rows \subseteq rows'
      /\ UNCHANGED <<blocks, event, todo, tokens, seen, open, sent>>
  BY DEF ForgetToken, NotDue, Types, TypeOK
<1>t. target(w)' = target(w)
  BY <1>1 DEF target
<1>3. WorkerInv(w)'
  BY <1>0, <1>1, <1>t DEF WorkerInv, IsBlocked, Tested, Passed
<1>4. OnceInv(w)'
  BY <1>0, <1>1, <1>t DEF OnceInv
<1>5. DueInv(w)'
  BY <1>0, <1>1, <1>t DEF DueInv, Ahead, Later, IsBlocked
<1>6. SentInv(w)'
  BY <1>1 DEF EventInv, SentInv
<1> QED
  BY <1>3, <1>4, <1>5, <1>6 DEF EventInv

\* A call that ends at a gate, or with no token left, has nothing left to pay.
Over(w) ==
    \/ pc[w] = "registered" /\ ~(Concerns(event[w], target(w)) /\ \E c \in rows : c[1] = target(w))
    \/ pc[w] = "blocked" /\ IsBlocked(event[w].actor, target(w))
    \/ pc[w] = "send" /\ tokens[w] = {}

LEMMA Paid ==
    ASSUME NEW w \in Workers, EventInv(w), Over(w), NEW c \in due[w]
    PROVE  sent[w][c] > 0 \/ Later(w, c)
<1>1. /\ c \in rows /\ ~IsBlocked(event[w].actor, c[1]) /\ Concerns(event[w], c[1])
      /\ sent[w][c] > 0 \/ Ahead(w, c)
  BY DEF EventInv, DueInv, Over
<1> QED
  BY <1>1 DEF Over, Ahead

\* The worker's own steps.
LEMMA OwnKeeps ==
    ASSUME Types, NEW w \in Workers, EventInv(w), Types', SendNotification(w)
    PROVE  EventInv(w)'
<1>0. WorkerInv(w) /\ DueInv(w)
  BY DEF EventInv
<1>1. CASE CheckRegistered(w)
  <2>1. CASE Goto(w, "blocked", {}) /\ UNCHANGED tokens
                /\ Concerns(event[w], target(w)) /\ \E c \in rows : c[1] = target(w)
    BY <1>1, <2>1, GotoKeeps DEF CheckRegistered
  <2>2. CASE EndCall(w, {}) /\ Over(w)
    BY <1>1, <2>2, Paid, EndCallKeeps DEF CheckRegistered
  <2> QED
    BY <1>1, <2>1, <2>2 DEF CheckRegistered, Over
<1>2. CASE CheckBlocked(w)
  <2>1. CASE EndCall(w, {}) /\ Over(w)
    BY <1>2, <2>1, Paid, EndCallKeeps DEF CheckBlocked
  <2>2. CASE /\ Goto(w, "tokens", {}) /\ UNCHANGED tokens
             /\ ~IsBlocked(event[w].actor, target(w))
    <3>1. Concerns(event[w], target(w))
      BY <1>0, <1>2 DEF CheckBlocked, WorkerInv, Tested
    <3>2. todo[w] \in Seq(DIDs \cup {None}) /\ todo[w] # <<>>
      BY <1>2 DEF CheckBlocked, Types, TypeOK, HeldTypeOK
    <3>3. target(w) \in DIDs \cup {None}
      BY <3>2 DEF target
    <3>4. target(w) \in open[w]
      BY <1>0, <1>2, <2>2, <3>1, <3>3 DEF CheckBlocked, WorkerInv, Concerns
    <3> QED
      BY <1>2, <2>2, <3>1, <3>4, GotoKeeps DEF CheckBlocked
  <2> QED
    BY <1>2, <2>1, <2>2 DEF CheckBlocked, Over
<1>3. CASE ReadTokens(w)
  <2>1. ASSUME NEW cut, Goto(w, "resolve", cut),
               tokens' = [tokens EXCEPT ![w] = {c \in rows : c[1] = target(w)} \ cut]
        PROVE  EventInv(w)'
    <3>1. pc[w] = "tokens" /\ tokens'[w] = {c \in rows : c[1] = target(w)} \ cut
      BY <1>3, <2>1 DEF ReadTokens, Types, TypeOK
    <3>2. Concerns(event[w], target(w)) /\ target(w) \in open[w]
      BY <1>0, <3>1 DEF WorkerInv, Tested, Passed
    <3>3. \A c \in due[w] \ cut : c[1] = target(w) => c \in tokens'[w]
      BY <1>0, <3>1 DEF DueInv
    <3> QED
      BY <2>1, <3>1, <3>2, <3>3, GotoKeeps
  <2>2. CASE EndCall(w, {c \in Clients : c[1] = target(w)})
    <3>1. pc[w] = "tokens" /\ due[w] \subseteq Clients
      BY <1>3 DEF ReadTokens, Types, HeldTypeOK
    <3> QED
      BY <2>2, <3>1, EndCallKeeps
  <2> QED
    BY <1>3, <2>1, <2>2 DEF ReadTokens
<1>4. CASE Resolve(w)
  <2>1. /\ pc[w] = "resolve" /\ tokens'[w] = tokens[w] /\ Goto(w, "send", {})
    BY <1>4 DEF Resolve
  <2>2. Concerns(event[w], target(w)) /\ target(w) \in open[w]
    BY <1>0, <2>1 DEF WorkerInv, Tested, Passed
  <2>3. \A c \in due[w] : sent[w][c] > 0 \/ Later(w, c) \/ c \in tokens'[w]
    BY <1>0, <2>1 DEF DueInv, Ahead
  <2> QED
    BY <2>1, <2>2, <2>3, GotoKeeps
<1>5. CASE LoopEnds(w)
  <2>1. Over(w) /\ pc[w] # "idle" /\ EndCall(w, {})
    BY <1>5 DEF LoopEnds, Over
  <2> QED
    BY <2>1, Paid, EndCallKeeps
<1> QED
  BY <1>1, <1>2, <1>3, <1>4, <1>5, SendOneKeeps, ForgetTokenKeeps DEF SendNotification

\* What a worker does leaves the other workers' events alone, but a row it removes.
LEMMA OthersApart ==
    ASSUME NEW v \in Workers, NEW w \in Workers, v # w, Types,
           SendNotification(v) \/ \E e \in Events : Handle(v, e)
    PROVE  /\ pc'[w] = pc[w] /\ event'[w] = event[w] /\ todo'[w] = todo[w]
           /\ tokens'[w] = tokens[w] /\ sent'[w] = sent[w]
           /\ seen'[w] = seen[w] /\ open'[w] = open[w] /\ blocks' = blocks
           /\ rows' \subseteq rows /\ due'[w] \subseteq due[w] /\ due'[w] \cap rows \subseteq rows'
<1>1. ASSUME NEW lost, EndCall(v, lost)
      PROVE  /\ pc'[w] = pc[w] /\ event'[w] = event[w] /\ todo'[w] = todo[w]
             /\ tokens'[w] = tokens[w] /\ sent'[w] = sent[w] /\ seen'[w] = seen[w]
             /\ open'[w] = open[w] /\ due'[w] = due[w] /\ UNCHANGED <<rows, blocks>>
  BY <1>1 DEF EndCall, Types, TypeOK, HeldTypeOK
<1>2. ASSUME NEW step, NEW lost, Goto(v, step, lost), tokens'[w] = tokens[w]
      PROVE  /\ pc'[w] = pc[w] /\ event'[w] = event[w] /\ todo'[w] = todo[w]
             /\ tokens'[w] = tokens[w] /\ sent'[w] = sent[w] /\ seen'[w] = seen[w]
             /\ open'[w] = open[w] /\ due'[w] = due[w] /\ UNCHANGED <<rows, blocks>>
  BY <1>2 DEF Goto, Types, TypeOK, HeldTypeOK
<1>3. CASE CheckRegistered(v)
  BY <1>1, <1>2, <1>3 DEF CheckRegistered
<1>4. CASE CheckBlocked(v)
  BY <1>1, <1>2, <1>4 DEF CheckBlocked
<1>5. CASE ReadTokens(v)
  <2>1. ASSUME NEW cut, Goto(v, "resolve", cut),
               tokens' = [tokens EXCEPT ![v] = {c \in rows : c[1] = target(v)} \ cut]
        PROVE  /\ pc'[w] = pc[w] /\ event'[w] = event[w] /\ todo'[w] = todo[w]
               /\ tokens'[w] = tokens[w] /\ sent'[w] = sent[w] /\ seen'[w] = seen[w]
               /\ open'[w] = open[w] /\ due'[w] = due[w] /\ UNCHANGED <<rows, blocks>>
    <3>1. tokens'[w] = tokens[w]
      BY <2>1 DEF Types, TypeOK
    <3> QED
      BY <2>1, <3>1, <1>2
  <2> QED
    BY <1>5, <2>1, <1>1 DEF ReadTokens
<1>6. CASE Resolve(v)
  BY <1>2, <1>6 DEF Resolve
<1>7. ASSUME NEW c \in Clients, SendOne(v, c)
      PROVE  /\ pc'[w] = pc[w] /\ tokens'[w] = tokens[w] /\ sent'[w] = sent[w]
             /\ UNCHANGED <<rows, blocks, event, todo, seen, open, due>>
  BY <1>7 DEF SendOne, Types, TypeOK, HeldTypeOK
<1>8. CASE ForgetToken(v)
  BY <1>8 DEF ForgetToken, NotDue, Types, TypeOK
<1>9. CASE LoopEnds(v)
  BY <1>1, <1>9 DEF LoopEnds
<1>10. ASSUME NEW e \in Events, Handle(v, e)
       PROVE  /\ pc'[w] = pc[w] /\ event'[w] = event[w] /\ todo'[w] = todo[w]
              /\ seen'[w] = seen[w] /\ open'[w] = open[w] /\ due'[w] = due[w]
              /\ UNCHANGED <<tokens, sent, rows, blocks>>
  BY <1>10 DEF Handle, Types, TypeOK, HeldTypeOK
<1> QED
  BY <1>3, <1>4, <1>5, <1>6, <1>7, <1>8, <1>9, <1>10 DEF SendNotification

\* Every step, of whichever worker, client, block or token, keeps what each worker
\* knows and owes.
LEMMA EventStep ==
    ASSUME DInv, [Next]_vars, Types', NEW w \in Workers
    PROVE  EventInv(w)'
<1>0. /\ Types /\ EventInv(w) /\ WorkerInv(w) /\ DueInv(w)
  BY DEF DInv, Types, EventInv
<1>i. /\ pc[w] # "idle" => rows \subseteq seen[w] /\ due[w] \subseteq rows
      /\ pc[w] # "idle" => {d \in DIDs : ~IsBlocked(event[w].actor, d)} \subseteq open[w]
      /\ pc[w] # "idle" => \A c \in due[w] : ~IsBlocked(event[w].actor, c[1])
  BY <1>0 DEF WorkerInv, DueInv
<1>d. due[w] \subseteq Clients /\ rows \subseteq Clients
  BY <1>0 DEF Types, TypeOK, HeldTypeOK
<1>1. CASE UNCHANGED vars
  BY <1>0, <1>1, <1>i, Apart DEF vars, worker, ghosts, IsBlocked
<1>2. ASSUME NEW c \in Clients, Register(c) PROVE EventInv(w)'
  <2>1. /\ UNCHANGED <<blocks, worker, open, due, sent>> /\ rows' = rows \cup {c}
        /\ pc[w] # "idle" => seen'[w] = seen[w] \cup {c}
    BY <1>2 DEF Register, Busy
  <2> QED
    BY <1>0, <1>i, <2>1, Apart DEF worker, IsBlocked
<1>3. ASSUME NEW c \in Clients, Unregister(c) PROVE EventInv(w)'
  <2>1. /\ UNCHANGED <<blocks, worker, open, seen, sent>> /\ rows' = rows \ {c}
        /\ due'[w] = due[w] \ {c}
    BY <1>3 DEF Unregister, NotDue
  <2> QED
    BY <1>0, <1>i, <2>1, Apart DEF worker, IsBlocked
<1>4. ASSUME NEW p \in BlockPairs, Block(p) PROVE EventInv(w)'
  <2>1. /\ UNCHANGED <<rows, worker, open, seen, sent>> /\ blocks' = blocks \cup {p}
        /\ due'[w] = {c \in due[w] : {event[w].actor, c[1]} # {p[1], p[2]}}
    BY <1>4 DEF Block
  <2>2. \A d : ~IsBlocked(event[w].actor, d)' => ~IsBlocked(event[w].actor, d)
    BY <2>1 DEF IsBlocked, Blocked, worker
  <2>3. ASSUME NEW c \in due'[w], pc[w] # "idle" PROVE ~IsBlocked(event[w].actor, c[1])'
    <3>1. c \in due[w] /\ {event[w].actor, c[1]} # {p[1], p[2]}
      BY <2>1
    <3>2. ~IsBlocked(event[w].actor, c[1])
      BY <3>1, <1>i, <2>3
    <3>3. /\ p = <<event[w].actor, c[1]>> => p[1] = event[w].actor /\ p[2] = c[1]
          /\ p = <<c[1], event[w].actor>> => p[2] = event[w].actor /\ p[1] = c[1]
      OBVIOUS
    <3> QED
      BY <2>1, <3>1, <3>2, <3>3 DEF IsBlocked, Blocked, worker
  <2> QED
    BY <1>0, <1>i, <2>1, <2>2, <2>3, Apart DEF worker
<1>5. ASSUME NEW p \in BlockPairs, Unblock(p) PROVE EventInv(w)'
  <2>1. /\ UNCHANGED <<rows, worker, due, seen, sent>> /\ blocks' = blocks \ {p}
        /\ pc[w] # "idle" => open'[w] = open[w] \cup {d \in DIDs : ~Blocked(blocks', event[w].actor, d)}
    BY <1>5 DEF Unblock, Busy
  <2>2. \A d : ~IsBlocked(event[w].actor, d) => ~IsBlocked(event[w].actor, d)'
    BY <2>1 DEF IsBlocked, Blocked, worker
  <2>3. pc[w] # "idle" => {d \in DIDs : ~IsBlocked(event[w].actor, d)'} \subseteq open'[w]
    BY <2>1 DEF IsBlocked, worker
  <2> QED
    BY <1>0, <1>i, <2>1, <2>2, <2>3, Apart DEF worker
<1>6. ASSUME NEW v \in Devices, TokenDies(v) PROVE EventInv(w)'
  BY <1>0, <1>6, <1>i, Apart DEF TokenDies, worker, ghosts, IsBlocked
<1>7. ASSUME NEW v \in Workers, SendNotification(v) \/ \E e \in Events : Handle(v, e)
      PROVE  EventInv(w)'
  <2>1. CASE v = w
    BY <1>0, <1>7, <2>1, OwnKeeps, HandleKeeps
  <2>2. CASE v # w
    <3>1. /\ pc'[w] = pc[w] /\ event'[w] = event[w] /\ todo'[w] = todo[w]
          /\ tokens'[w] = tokens[w] /\ sent'[w] = sent[w]
          /\ seen'[w] = seen[w] /\ open'[w] = open[w] /\ blocks' = blocks
          /\ rows' \subseteq rows /\ due'[w] \subseteq due[w]
          /\ due'[w] \cap rows \subseteq rows'
      BY <1>0, <1>7, <2>2, OthersApart
    <3>2. \A d : IsBlocked(event[w].actor, d)' <=> IsBlocked(event[w].actor, d)
      BY <3>1 DEF IsBlocked
    <3> QED
      BY <1>0, <1>i, <3>1, <3>2, Apart
  <2> QED
    BY <2>1, <2>2
<1> QED
  BY <1>1, <1>2, <1>3, <1>4, <1>5, <1>6, <1>7 DEF Next

\* A step that ends an event leaves nothing unpaid, a failed read excepted.
LEMMA LastCall ==
    ASSUME DInv, [Next]_vars, NEW w \in Workers, pc[w] # "idle", pc'[w] = "idle",
           NEW c \in due[w]
    PROVE  sent[w][c] > 0 \/ (pc[w] = "tokens" /\ c[1] = target(w))
<1>0. Types /\ EventInv(w)
  BY DEF DInv, Types
<1>p. pc \in [Workers -> Steps]
  BY <1>0 DEF Types, TypeOK, Steps
<1>1. SendNotification(w)
  <2>1. CASE UNCHANGED vars
    BY <2>1 DEF vars, worker
  <2>2. ASSUME NEW d \in Clients, Register(d) \/ Unregister(d) PROVE FALSE
    BY <2>2 DEF Register, Unregister, worker
  <2>3. ASSUME NEW p \in BlockPairs, Block(p) \/ Unblock(p) PROVE FALSE
    BY <2>3 DEF Block, Unblock, worker
  <2>4. ASSUME NEW v \in Devices, TokenDies(v) PROVE FALSE
    BY <2>4 DEF TokenDies, worker
  <2>5. ASSUME NEW v \in Workers, SendNotification(v) \/ \E e \in Events : Handle(v, e)
        PROVE  v = w
    BY <2>5, <1>0, OthersApart
  <2>6. ASSUME NEW e \in Events, Handle(w, e) PROVE FALSE
    BY <2>6 DEF Handle
  <2> QED
    BY <2>1, <2>2, <2>3, <2>4, <2>5, <2>6 DEF Next
<1>g. \A step \in Steps \ {"idle"} : \A lost : ~Goto(w, step, lost)
  BY <1>p DEF Goto
<1>2. \/ Over(w) /\ \E lost : EndCall(w, lost)
      \/ pc[w] = "tokens" /\ \E lost : EndCall(w, lost)
  <2>1. CASE CheckRegistered(w)
    BY <2>1, <1>g DEF CheckRegistered, Over, Steps
  <2>2. CASE CheckBlocked(w)
    BY <2>2, <1>g DEF CheckBlocked, Over, Steps
  <2>3. CASE ReadTokens(w)
    BY <2>3, <1>g DEF ReadTokens, Steps
  <2>4. CASE Resolve(w)
    BY <2>4, <1>g DEF Resolve, Steps
  <2>5. ASSUME NEW d \in Clients, SendOne(w, d) PROVE FALSE
    BY <2>5, <1>p DEF SendOne
  <2>6. CASE ForgetToken(w)
    BY <2>6, <1>p DEF ForgetToken
  <2>7. CASE LoopEnds(w)
    BY <2>7 DEF LoopEnds, Over
  <2> QED
    BY <1>1, <2>1, <2>2, <2>3, <2>4, <2>5, <2>6, <2>7 DEF SendNotification
<1>3. ~Later(w, c)
  <2>1. PICK lost : EndCall(w, lost)
    BY <1>2
  <2>2. todo[w] \in Seq(DIDs \cup {None}) /\ ~(Len(todo[w]) > 1)
    BY <2>1, <1>0, <1>p DEF EndCall, Types, HeldTypeOK
  <2>3. Len(todo[w]) \in Nat
    BY <2>2
  <2> QED
    BY <2>2, <2>3 DEF Later
<1>4. sent[w][c] > 0 \/ Ahead(w, c)
  BY <1>0 DEF EventInv, DueInv
<1>5. CASE Over(w)
  BY <1>0, <1>3, <1>5, Paid
<1>6. CASE pc[w] = "tokens"
  BY <1>3, <1>4, <1>6 DEF Ahead
<1> QED
  BY <1>2, <1>5, <1>6

\* The invariant is one.
LEMMA DInvKept == Spec => []DInv
<1>1. Init => DInv
  <2> SUFFICES ASSUME Init PROVE DInv
    OBVIOUS
  <2>1. TypeOK /\ HeldTypeOK
    BY DeliveryAssumption DEF Init, TypeOK, HeldTypeOK
  <2>2. ASSUME NEW w \in Workers PROVE EventInv(w)
    <3>1. pc[w] = "idle" /\ todo[w] = <<>> /\ tokens[w] = {} /\ \A c \in Clients : sent[w][c] = 0
      BY DEF Init
    <3> QED
      BY <3>1 DEF EventInv, WorkerInv, SentInv, OnceInv, DueInv, Tested, Passed
  <2> QED
    BY <2>1, <2>2 DEF DInv
<1>2. DInv /\ [Next]_vars => DInv'
  <2> SUFFICES ASSUME DInv, [Next]_vars PROVE DInv'
    OBVIOUS
  <2>1. Types'
    BY TypesStep DEF DInv, Types
  <2>2. \A w \in Workers : EventInv(w)'
    BY <2>1, EventStep
  <2> QED
    BY <2>1, <2>2 DEF DInv, Types
<1> QED
  BY <1>1, <1>2, PTL DEF Spec

\* The state of the workers, the stores and the devices has its types.
THEOREM DeliveryTypeCorrect == Spec => []TypeOK
<1>1. DInv => TypeOK
  BY DEF DInv
<1> QED
  BY <1>1, DInvKept, PTL

\* Nobody is pushed to who was registered, or unblocked, at no time since the worker took
\* the event, or whom it does not concern (handleCommit and sendNotification).
THEOREM NobodyElse == Spec => []OnlyWelcome
<1>1. DInv => OnlyWelcome
  <2> SUFFICES ASSUME DInv, NEW w \in Workers, NEW c \in Clients, sent[w][c] > 0
               PROVE  /\ c \in seen[w] /\ c[1] \in open[w]
                      /\ c[1] \in Addressed(event[w]) /\ c[1] # event[w].actor
    BY DEF OnlyWelcome, Addressed
  <2>1. SentInv(w)
    BY DEF DInv, EventInv
  <2> QED
    BY <2>1 DEF SentInv, Concerns
<1> QED
  BY <1>1, DInvKept, PTL

\* No device hears twice of one like, repost or follow (handleLike, handleRepost).
THEOREM OncePer == Spec => []OncePerEngagement
<1>1. DInv => OncePerEngagement
  BY DEF DInv, EventInv, OnceInv, OncePerEngagement
<1> QED
  BY <1>1, DInvKept, PTL

\* An event is done only when everyone who was due a push of it has been tried, whatever
\* others registered, blocked or lost meanwhile (sendNotification).
THEOREM NobodyLeftOut == Spec => NoOneForgotten
<1> DEFINE Done(w) == pc[w] # "idle" /\ pc'[w] = "idle" =>
          \A c \in due[w] : sent[w][c] > 0 \/ (pc[w] = "tokens" /\ c[1] = target(w))
<1>1. DInv /\ [Next]_vars => [\A w \in Workers : Done(w)]_vars
  BY LastCall
<1> QED
  BY <1>1, DInvKept, PTL DEF Spec, NoOneForgotten
=============================================================================
