---------------------------- MODULE MCFileBlocks ----------------------------
(* An instance of FileBlocks for TLC: a file of one inode each. *)
EXTENDS FileBlocks, TLC

CONSTANTS p1, p2, f1, f2

OneEach == (f1 :> 1) @@ (f2 :> 2)
Symmetric == Permutations(Writer)
=============================================================================
