----------------------------- MODULE MCConsumer -----------------------------
(* Instances of Consumer for TLC.  Workers and handlers are interchangeable. *)
EXTENDS Consumer, TLC

MCSymmetry == Permutations(Handlers) \cup Permutations(Workers)
=============================================================================
