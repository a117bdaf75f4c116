---------------------------- MODULE MCTokenStore ----------------------------
(* Instances of TokenStore for TLC.  Tokens, applications and goroutines are
   interchangeable in every definition of TokenStore; DIDs as well. *)
EXTENDS TokenStore, TLC

MCSymmetry == Permutations(DIDs) \cup Permutations(Tokens)
                  \cup Permutations(Apps) \cup Permutations(Procs)
=============================================================================
