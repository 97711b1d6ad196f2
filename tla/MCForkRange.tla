---------------------------- MODULE MCForkRange ----------------------------
(***************************************************************************)
(* Six pages of two addresses and buffers that are adjacent, overlap, nest *)
(* and share a page without overlapping; one is at address NULL.           *)
(***************************************************************************)
EXTENDS ForkRange

MCRegions == {<<0, 2>>, <<2, 1>>, <<2, 4>>, <<3, 2>>, <<4, 2>>, <<6, 3>>}
=============================================================================
