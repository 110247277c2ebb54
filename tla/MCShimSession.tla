--------------------------- MODULE MCShimSession ---------------------------
(* ShimSession on small sets. *)
EXTENDS ShimSession, TLC

Symmetry == Permutations(Shims) \cup Permutations(Windows)
=============================================================================
