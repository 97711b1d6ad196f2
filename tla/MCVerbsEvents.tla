--------------------------- MODULE MCVerbsEvents ---------------------------
(***************************************************************************)
(* Model checking of VerbsEvents: the threads that get and acknowledge     *)
(* events are interchangeable.                                             *)
(***************************************************************************)
EXTENDS VerbsEvents, TLC

Symmetry == Permutations(Threads)
=============================================================================
