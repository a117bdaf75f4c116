--------------------------- MODULE MCVerification ---------------------------
(* Instances of Verification for TLC. *)
EXTENDS Verification, TLC

MCSymmetry == Permutations(Workers) \cup Permutations(Records)
=============================================================================
