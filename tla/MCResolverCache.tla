--------------------------- MODULE MCResolverCache ---------------------------
(* Instances of ResolverCache for TLC. *)
EXTENDS ResolverCache, TLC

MCSymmetry == Permutations(Keys \ Failing) \cup Permutations(Callers)
=============================================================================
