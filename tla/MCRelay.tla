------------------------------ MODULE MCRelay ------------------------------
(* Instances of Relay for TLC. *)
EXTENDS Relay, TLC

CONSTANTS own, other

Header(offered, signer) ==
    [parses |-> TRUE, offered |-> offered, signer |-> signer, es256 |-> TRUE, expired |-> FALSE]

\* From the instance; with its public key but without its private one; and from
\* somebody with a key pair of their own.
MCArriving == {Header(own, own), Header(own, other), Header(other, other)}

MCPlatform == [d \in Devices |-> "android"]

MCSymmetry == Permutations(Ids) \cup Permutations(Requests)
=============================================================================
