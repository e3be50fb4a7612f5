------------------------------ MODULE BufCache ------------------------------
(***************************************************************************)
(* The buffer cache of mp4 (kernel/bio.c): bget() with its LRU list and    *)
(* reference counts, bread() with its fall-back to the mirror, bwrite() to *)
(* both halves of the disk, brelse(), bpin() and bunpin(), used the way    *)
(* the rest of the kernel uses them: readers, system calls that modify a   *)
(* block and log it, the commit that installs the logged blocks, recovery, *)
(* and raw_read() and raw_write().                                         *)
(*                                                                         *)
(* Physical blocks are numbers; block n < DISK1_START_BLOCK has its mirror *)
(* at n + DISK1_START_BLOCK.  Both bread() and bwrite() let b->blockno     *)
(* point to the mirror while they sleep in virtio_disk_rw().  One step is  *)
(* one critical section of bcache.lock, one change of a sleep lock or one  *)
(* disk transfer.                                                          *)
(***************************************************************************)
EXTENDS Integers, FiniteSets

CONSTANTS
  Proc,              \* processes
  NBUF,              \* param.h
  DISK1_START_BLOCK, \* param.h
  Pbn,               \* physical blocks of both halves
  Data, Zero,        \* contents of a block; what mkfs writes
  NoProc, NoBlk,     \* nobody, and the block number of a fresh buffer
  RefMod,            \* b->refcnt is a uint: 2^32 in the code
  Boots              \* the ways to start: records of the processes, the calls they
                     \* make (<<name, block>>), the blocks in the log header on
                     \* disk, and force_disk_fail_id

ASSUME CacheAssumption ==
  /\ NBUF \in Nat \ {0} /\ RefMod \in Nat \ {0}
  /\ DISK1_START_BLOCK \in Nat \ {0}
  /\ Pbn \subseteq 0..2 * DISK1_START_BLOCK - 1
  /\ Zero \in Data /\ NoBlk \notin Pbn /\ NoProc \notin Proc
  /\ \A b \in Boots :
       /\ b.procs \subseteq Proc /\ b.header \subseteq Pbn /\ b.fail \in {-1, 0, 1}
       /\ b.calls \subseteq {"read", "write", "install", "raw_read", "raw_write"} \X Pbn

VARIABLES
  blockno, valid, refcnt, data, \* the fields of struct buf
  owner,                        \* who has b->lock
  lru,                          \* bcache.head: most recently used first
  disk,
  pc, call, want, bf,           \* each process: where, in what, its blockno, its b
  saved,                        \* virtio_disk_rw()'s sector or bwrite()'s pbn0
  logged, committing,           \* log.lh.block[] and log.committing
  header,                       \* blocks recovery still has to install
  last,                         \* history: what was last written in each block
  boot                          \* how the system was started

bvars == <<blockno, valid, refcnt, data, owner, lru>>
pvars == <<call, want, bf, saved>>
lvars == <<logged, committing, header>>
vars  == <<bvars, disk, pc, pvars, lvars, last, boot>>

Buf == 1..NBUF
NoBuf == 0
Mirror(n) == n + DISK1_START_BLOCK
Raw == {"raw_read", "raw_write"}

Init ==
  /\ boot \in Boots
  /\ blockno = [i \in Buf |-> NoBlk] /\ valid = [i \in Buf |-> FALSE]
  /\ refcnt = [i \in Buf |-> 0] /\ data = [i \in Buf |-> Zero]
  /\ owner = [i \in Buf |-> NoProc]
  /\ lru = [i \in Buf |-> NBUF + 1 - i]          \* binit()
  /\ disk = [n \in Pbn |-> Zero]
  /\ pc = [p \in Proc |-> "idle"] /\ call = [p \in Proc |-> "read"]
  /\ want = [p \in Proc |-> NoBlk] /\ bf = [p \in Proc |-> NoBuf]
  /\ saved = [p \in Proc |-> NoBlk]
  /\ logged = {} /\ committing = FALSE /\ header = boot.header
  \* What the log holds of the blocks in the header is newer than the disk.
  /\ last \in [Pbn -> Data] /\ \A n \in Pbn \ boot.header : last[n] = Zero

(***************************************************************************)
(* The callers.                                                            *)
(***************************************************************************)
Busy(c) == {p \in Proc : pc[p] # "idle" /\ call[p] = c}

\* begin_op() keeps writers out of a commit, end_op() the commit out of
\* writers; one process commits, block after block.
MayCall(c, n) ==
  /\ header = {}
  /\ c = "write" => ~committing
  /\ c = "install" => n \in logged /\ Busy("write") = {} /\ Busy("install") = {}

Enter(p, c, n) ==
  /\ pc[p] = "idle"
  /\ pc' = [pc EXCEPT ![p] = "bget"]
  /\ call' = [call EXCEPT ![p] = c] /\ want' = [want EXCEPT ![p] = n]
  /\ UNCHANGED <<bvars, disk, bf, saved, logged, header, last>>

Start(p, c, n) ==
  /\ MayCall(c, n) /\ Enter(p, c, n)
  /\ committing' = (committing \/ c = "install")

\* recover_from_log(), before any other process runs.
Recover(p) ==
  /\ \A q \in Proc : pc[q] = "idle"
  /\ \E n \in header : Enter(p, "recover", n)
  /\ UNCHANGED committing

(***************************************************************************)
(* bget().                                                                 *)
(***************************************************************************)
\* Mutant: a buffer that is still being filled is passed over.
HitsIfValid(n) == {k \in Buf : blockno[lru[k]] = n /\ valid[lru[k]]}

Hits(n) == {k \in Buf : blockno[lru[k]] = n}
Unused == {k \in Buf : refcnt[lru[k]] = 0}
First(S) == CHOOSE k \in S : \A m \in S : k <= m

Last(S) == CHOOSE k \in S : \A m \in S : k >= m

\* Mutant: the recycled buffer stays valid.
RecycledStillValid(i) == valid

Recycled(i) == [valid EXCEPT ![i] = FALSE]

BgetHit(p) ==
  /\ pc[p] = "bget" /\ Hits(want[p]) # {}
  /\ LET i == lru[First(Hits(want[p]))]
     IN  /\ refcnt' = [refcnt EXCEPT ![i] = (@ + 1) % RefMod]
         /\ bf' = [bf EXCEPT ![p] = i]
  /\ pc' = [pc EXCEPT ![p] = "lock"]
  /\ UNCHANGED <<blockno, valid, data, owner, lru, disk, call, want, saved, lvars,
                 last>>

BgetRecycle(p) ==
  /\ pc[p] = "bget" /\ Hits(want[p]) = {} /\ Unused # {}
  /\ LET i == lru[Last(Unused)]
     IN  /\ blockno' = [blockno EXCEPT ![i] = want[p]]
         /\ valid' = Recycled(i)
         /\ refcnt' = [refcnt EXCEPT ![i] = 1]
         /\ bf' = [bf EXCEPT ![p] = i]
  /\ pc' = [pc EXCEPT ![p] = "lock"]
  /\ UNCHANGED <<data, owner, lru, disk, call, want, saved, lvars, last>>

\* panic("bget: no buffers")
BgetPanic(p) ==
  /\ pc[p] = "bget" /\ Hits(want[p]) = {} /\ Unused = {}
  /\ pc' = [pc EXCEPT ![p] = "panicked"]
  /\ UNCHANGED <<bvars, disk, pvars, lvars, last>>

(***************************************************************************)
(* acquiresleep(), bread()'s transfer, what the caller does.               *)
(***************************************************************************)
FallsBack(p) == call[p] \notin Raw /\ boot.fail = 0

\* bread() with the buffer locked: it is done, or sleeps in virtio_disk_rw().
Acquire(p) ==
  /\ pc[p] = "lock" /\ owner[bf[p]] = NoProc
  /\ owner' = [owner EXCEPT ![bf[p]] = p]
  /\ blockno' = IF FallsBack(p) THEN [blockno EXCEPT ![bf[p]] = Mirror(want[p])]
                ELSE blockno
  /\ saved' = [saved EXCEPT ![p] = blockno'[bf[p]]]
  /\ pc' = [pc EXCEPT ![p] = IF call[p] \in Raw THEN "raw"
                             ELSE IF valid[bf[p]] /\ ~FallsBack(p) THEN "use"
                             ELSE "reading"]
  /\ UNCHANGED <<valid, refcnt, data, lru, disk, call, want, bf, lvars, last>>

ReadDone(p) ==
  /\ pc[p] = "reading"
  /\ data' = [data EXCEPT ![bf[p]] = disk[saved[p]]]
  /\ blockno' = IF FallsBack(p) THEN [blockno EXCEPT ![bf[p]] = want[p]] ELSE blockno
  /\ valid' = [valid EXCEPT ![bf[p]] = TRUE]
  /\ pc' = [pc EXCEPT ![p] = "use"]
  /\ UNCHANGED <<refcnt, owner, lru, disk, pvars, lvars, last>>

UseRead(p) ==
  /\ pc[p] = "use" /\ call[p] = "read"
  /\ pc' = [pc EXCEPT ![p] = "release"]
  /\ UNCHANGED <<bvars, disk, pvars, lvars, last>>

\* A system call changes the block and calls log_write().
UseWrite(p, v) ==
  LET i == bf[p]
      n == blockno[i]
  IN  /\ pc[p] = "use" /\ call[p] = "write"
      /\ data' = [data EXCEPT ![i] = v] /\ last' = [last EXCEPT ![want[p]] = v]
      /\ logged' = logged \cup {n}
      /\ refcnt' = IF n \in logged THEN refcnt
                   ELSE [refcnt EXCEPT ![i] = (@ + 1) % RefMod]
      /\ pc' = [pc EXCEPT ![p] = "release"]
      /\ UNCHANGED <<blockno, valid, owner, lru, disk, pvars, committing, header>>

\* install_trans() copies the log block into the buffer: what it already has,
\* or at recovery what the committed call had written.
UseInstall(p) ==
  /\ pc[p] = "use" /\ call[p] \in {"install", "recover"}
  /\ data' = IF call[p] = "recover" THEN [data EXCEPT ![bf[p]] = last[want[p]]] ELSE data
  /\ pc' = [pc EXCEPT ![p] = "bwrite"]
  /\ UNCHANGED <<blockno, valid, refcnt, owner, lru, disk, pvars, lvars, last>>

\* raw_read() and raw_write(): no valid bit is looked at.  Whether copyout() then
\* delivers what was read makes no difference to the cache.
RawRead(p) ==
  /\ pc[p] = "raw" /\ call[p] = "raw_read"
  /\ data' = [data EXCEPT ![bf[p]] = disk[saved[p]]]
  /\ pc' = [pc EXCEPT ![p] = "release"]
  /\ UNCHANGED <<blockno, valid, refcnt, owner, lru, disk, pvars, lvars, last>>

RawWrite(p, v) ==
  /\ pc[p] = "raw" /\ call[p] = "raw_write"
  /\ data' = [data EXCEPT ![bf[p]] = v] /\ valid' = [valid EXCEPT ![bf[p]] = TRUE]
  /\ disk' = [disk EXCEPT ![saved[p]] = v] /\ last' = [last EXCEPT ![saved[p]] = v]
  /\ pc' = [pc EXCEPT ![p] = "release"]
  /\ UNCHANGED <<blockno, refcnt, owner, lru, pvars, lvars>>

\* copyin() fails after it has overwritten some of the buffer.
RawWriteFails(p, v) ==
  /\ pc[p] = "raw" /\ call[p] = "raw_write"
  /\ data' = [data EXCEPT ![bf[p]] = v]
  /\ pc' = [pc EXCEPT ![p] = "release"]
  /\ UNCHANGED <<blockno, valid, refcnt, owner, lru, disk, pvars, lvars, last>>

(***************************************************************************)
(* bwrite(), bunpin() and brelse().                                        *)
(***************************************************************************)
SkipsPbn1(p) == boot.fail = 1

\* The first half of the disk; then b->blockno is the mirror's.
BwritePbn0(p) ==
  LET i == bf[p]
  IN  /\ pc[p] = "bwrite"
      /\ saved' = [saved EXCEPT ![p] = blockno[i]]
      /\ disk' = IF boot.fail = 0 THEN disk ELSE [disk EXCEPT ![blockno[i]] = data[i]]
      /\ blockno' = IF SkipsPbn1(p) THEN blockno ELSE [blockno EXCEPT ![i] = Mirror(@)]
      /\ pc' = [pc EXCEPT ![p] = IF SkipsPbn1(p) THEN "unpin" ELSE "mirror"]
      /\ UNCHANGED <<valid, refcnt, data, owner, lru, call, want, bf, lvars, last>>

BwritePbn1(p) ==
  /\ pc[p] = "mirror"
  /\ disk' = [disk EXCEPT ![Mirror(saved[p])] = data[bf[p]]]
  /\ blockno' = [blockno EXCEPT ![bf[p]] = saved[p]]
  /\ pc' = [pc EXCEPT ![p] = "unpin"]
  /\ UNCHANGED <<valid, refcnt, data, owner, lru, pvars, lvars, last>>

Bunpin(p) ==
  /\ pc[p] = "unpin"
  /\ refcnt' = [refcnt EXCEPT ![bf[p]] = (@ - 1) % RefMod]
  /\ logged' = logged \ {want[p]} /\ header' = header \ {want[p]}
  /\ committing' = (committing /\ logged' # {})
  /\ pc' = [pc EXCEPT ![p] = "release"]
  /\ UNCHANGED <<blockno, valid, data, owner, lru, disk, pvars, last>>

Release(p) ==
  /\ pc[p] = "release"
  /\ owner' = [owner EXCEPT ![bf[p]] = NoProc]
  /\ pc' = [pc EXCEPT ![p] = "drop"]
  /\ UNCHANGED <<blockno, valid, refcnt, data, lru, disk, pvars, lvars, last>>

\* Mutant: the count is not taken down.
LessOneKept(n) == n

LessOne(n) == (n - 1) % RefMod

ToFront(i) ==
  LET k == CHOOSE m \in Buf : lru[m] = i
  IN  [m \in Buf |-> IF m = 1 THEN i ELSE IF m <= k THEN lru[m - 1] ELSE lru[m]]

\* brelse() after releasesleep().
Drop(p) ==
  LET i == bf[p]
  IN  /\ pc[p] = "drop"
      /\ refcnt' = [refcnt EXCEPT ![i] = LessOne(@)]
      /\ lru' = IF refcnt'[i] # 0 THEN lru ELSE ToFront(i)
      /\ pc' = [pc EXCEPT ![p] = "idle"] /\ bf' = [bf EXCEPT ![p] = NoBuf]
      /\ want' = [want EXCEPT ![p] = NoBlk] /\ saved' = [saved EXCEPT ![p] = NoBlk]
      /\ UNCHANGED <<blockno, valid, data, owner, disk, call, lvars, last>>

Step(p) ==
  \/ BgetHit(p) \/ BgetRecycle(p) \/ BgetPanic(p) \/ Acquire(p) \/ ReadDone(p)
  \/ UseRead(p) \/ UseInstall(p) \/ RawRead(p)
  \/ \E v \in Data : UseWrite(p, v) \/ RawWrite(p, v) \/ RawWriteFails(p, v)
  \/ BwritePbn0(p) \/ BwritePbn1(p) \/ Bunpin(p) \/ Release(p) \/ Drop(p)

Next == /\ \E p \in boot.procs : \/ \E c \in boot.calls : Start(p, c[1], c[2])
                                 \/ Recover(p)
                                 \/ Step(p)
        /\ UNCHANGED boot

Spec == Init /\ [][Next]_vars

(***************************************************************************)
(* Properties.                                                             *)
(***************************************************************************)
PCs == {"idle", "bget", "lock", "reading", "use", "raw", "bwrite", "mirror",
        "unpin", "release", "drop", "panicked"}

\* The fields have their types and the list holds every buffer once.
TypeOK ==
  /\ blockno \in [Buf -> Pbn \cup {NoBlk}] /\ valid \in [Buf -> BOOLEAN]
  /\ refcnt \in [Buf -> 0..RefMod - 1] /\ data \in [Buf -> Data]
  /\ owner \in [Buf -> Proc \cup {NoProc}]
  /\ lru \in [Buf -> Buf] /\ \A i \in Buf : \E k \in Buf : lru[k] = i
  /\ disk \in [Pbn -> Data] /\ last \in [Pbn -> Data]
  /\ pc \in [Proc -> PCs] /\ bf \in [Proc -> 0..NBUF]
  /\ want \in [Proc -> Pbn \cup {NoBlk}] /\ saved \in [Proc -> Pbn \cup {NoBlk}]
  /\ logged \subseteq Pbn /\ committing \in BOOLEAN /\ header \subseteq Pbn

\* The cache is "a synchronization point for disk blocks used by multiple
\* processes" (bio.c:3-6): two buffers never stand for the same block, and while
\* a caller uses its buffer the buffer is still that block's and his alone,
\* nobody having recycled it meanwhile.
OneBufferPerBlock ==
  /\ TypeOK
  /\ \A i, j \in Buf : blockno[i] = blockno[j] /\ blockno[i] # NoBlk => i = j
  /\ \A p \in Proc : pc[p] \in {"use", "bwrite"} =>
       blockno[bf[p]] = want[p] /\ owner[bf[p]] = p

Inside == {"lock", "reading", "use", "raw", "bwrite", "mirror", "unpin", "release",
           "drop"}

\* bget()'s test refcnt == 0 finds exactly the buffers nobody uses, waits for
\* or has pinned.  A recovery upsets the counts for good: it unpins what nobody
\* has pinned.
RefcntExact ==
  boot.header = {} => \A i \in Buf :
    refcnt[i] = Cardinality({p \in Proc : pc[p] \in Inside /\ bf[p] = i})
                + IF blockno[i] \in logged THEN 1 ELSE 0

\* A block that is no longer in the log is, as last written, on each disk
\* that has not failed: bwrite()'s two transfers come before bunpin() and
\* before the header is cleared, at recovery as well.
InstalledOnDisks ==
  \A n \in Pbn : n < DISK1_START_BLOCK /\ n \notin logged \cup header =>
    /\ boot.fail # 0 => disk[n] = last[n]
    /\ boot.fail # 1 => disk[Mirror(n)] = last[n]

\* What a caller of bread() finds is what was last written in the block,
\* through the log or by raw_write(), whether it is still pinned, installed
\* or read back from the disk; and the disks keep it.
FreshData ==
  /\ \A p \in Proc :
       pc[p] = "use" /\ call[p] # "recover" => data[bf[p]] = last[want[p]]
  /\ InstalledOnDisks
=============================================================================
