------------------------------- MODULE MCSlab -------------------------------
(***************************************************************************)
(* Instances of Slab for TLC.                                              *)
(***************************************************************************)
EXTENDS Slab, TLC

CONSTANTS p1, p2, d1, d2, d3, s1, s2, s3, s4

Symmetric == Permutations(Proc) \cup Permutations(Fd) \cup Permutations(Page)
=============================================================================
