---------------------------- MODULE MCMirrorLog ----------------------------
(***************************************************************************)
(* Instances of MirrorLog for TLC.                                         *)
(***************************************************************************)
EXTENDS MirrorLog, TLC

CONSTANTS p1, p2, p3, b1, b2, b3, A

NoFailure == {}
NoBadBlock == {}
AnyDiskMayFail == {-1, 0, 1}
BadSlot == {SlotAddr(1)}

\* Blocks and processes are interchangeable where no liveness is checked.
Symmetric == Permutations(Block) \cup Permutations(Proc)
=============================================================================
