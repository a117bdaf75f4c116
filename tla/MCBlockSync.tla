---------------------------- MODULE MCBlockSync ----------------------------
(* Instances of BlockSync for TLC: one account's blocks; the other sides of its
   pairs may register too. *)
EXTENDS BlockSync, TLC

CONSTANTS d1, d2

MCDIDs     == {d1, d2}
MCPairs    == {<<d1, d2>>}
MCPairOf   == [k \in RKeys |-> <<d1, d2>>]
MCProcs    == Workers \cup DIDs
MCLeavers  == {d1}
MCSymmetry == Permutations(Workers)
=============================================================================
