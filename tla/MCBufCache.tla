---------------------------- MODULE MCBufCache ----------------------------
(***************************************************************************)
(* Instances of BufCache for TLC: the first half of the disk is 0..D - 1.  *)
(***************************************************************************)
EXTENDS BufCache, TLC

CONSTANTS p1, p2, A

TwoHalves == 0..2 * DISK1_START_BLOCK - 1
FsBlocks == 0..DISK1_START_BLOCK - 1
NoBlock == -1

\* Readers and logging writers of every block.
FsCalls == {"read", "write", "install"} \X FsBlocks
\* The same, and the raw calls on the mirror only, as the tests of mp4 make.
MirrorRawCalls == FsCalls \cup ({"raw_read", "raw_write"} \X {DISK1_START_BLOCK})

Boot(ps, cs, blocks, id) == [procs |-> ps, calls |-> cs, header |-> blocks, fail |-> id]

\* All processes with disk 1 failed; one process that recovers block 0 first and
\* does not write it again, with both disks.
DegradedOrRecovered ==
  {Boot(Proc, MirrorRawCalls, {}, 1)} \cup
  {Boot({p}, FsCalls \ {<<"write", 0>>}, {0}, -1) : p \in Proc}

Symmetric == Permutations(Proc)
=============================================================================
