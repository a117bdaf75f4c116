----------------------------- MODULE MCDelivery -----------------------------
(* Instances of Delivery for TLC: b may be registered, a and c are not. *)
EXTENDS Delivery, TLC

CONSTANTS a, b, c, d1, d2

Event(kind, to, via, quoted, mentions) ==
    [kind |-> kind, actor |-> a, to |-> to, via |-> via, quoted |-> quoted,
     mentions |-> mentions]

\* What the handlers tell apart: a reposter who is the author, or not; a follow; posts
\* that address one DID in several ways, the actor and one's own posts too.
MCEvents ==
    {Event("like", c, b, None, <<>>), Event("repost", b, b, None, <<>>),
     Event("follow", b, None, None, <<>>), Event("post", b, None, None, <<b, a>>),
     [Event("post", b, None, c, <<b>>) EXCEPT !.actor = b]}

MCClients == {<<b, d1>>, <<b, d2>>}
\* d1 has an FCM token, d2 an Expo one.
MCPlatform == [d \in Devices |-> IF d = d1 THEN "android" ELSE "ios"]

MCBlocks  == {<<b, a>>}

MCSymmetry == Permutations(Workers)
=============================================================================
