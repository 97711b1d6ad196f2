--------------------------- MODULE MCTokenBucket ---------------------------
(***************************************************************************)
(* Model checking of TokenBucket.                                          *)
(***************************************************************************)
EXTENDS TokenBucket, TLC

Symmetry == Permutations(Threads)
=============================================================================
