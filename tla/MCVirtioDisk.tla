---------------------------- MODULE MCVirtioDisk ----------------------------
(* Instances of VirtioDisk for TLC. *)
EXTENDS VirtioDisk, TLC

CONSTANTS b1, b2, b3, k1, k2, v1, v2

\* Buffers, blocks and contents are interchangeable, where no liveness property
\* tells them apart.
Symmetric == Permutations(Buf) \cup Permutations(Block) \cup Permutations(Value)
=============================================================================
