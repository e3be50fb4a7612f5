--------------------------- MODULE BufCacheProofs ----------------------------
(***************************************************************************)
(* Theorems of BufCache for any number of processes, buffers and blocks,   *)
(* when the mirror has failed (force_disk_fail_id = 1) and the raw calls   *)
(* are about the mirror's blocks.  With both disks bwrite() lets           *)
(* b->blockno be another block's while it sleeps, and the same statements  *)
(* do not hold.                                                            *)
(***************************************************************************)
EXTENDS BufCache, FiniteSetTheorems, WellFoundedInduction, TLAPS

MirrorDown ==
  /\ boot.fail = 1 /\ boot.header = {}
  /\ \A c \in boot.calls : c[1] \in Raw <=> c[2] >= DISK1_START_BLOCK

\* A uint counts one reference for each process and one for the log.
FewProcs == IsFiniteSet(Proc) /\ Cardinality(Proc) + 1 < RefMod

Called  == PCs \ {"idle", "panicked"}
Locked  == {"reading", "use", "raw", "bwrite", "unpin", "release"}
Filled  == {"use", "bwrite", "unpin"}

\* Where a process is tells what it does, and on which half of the disk.
PlaceInv ==
  /\ header = {} /\ logged \in SUBSET Pbn
  /\ call \in [Proc -> {"read", "write", "install", "raw_read", "raw_write"}]
  /\ \A p \in Proc :
       /\ pc[p] \in Called => want[p] \in Pbn
                              /\ (call[p] \in Raw <=> want[p] >= DISK1_START_BLOCK)
       /\ pc[p] # "mirror"
       /\ pc[p] = "raw" => call[p] \in Raw
       /\ pc[p] \in {"reading", "use"} => call[p] \notin Raw
       /\ pc[p] \in {"bwrite", "unpin"} => call[p] = "install"

\* A buffer stands for one block, and for that of its users as long as they
\* use it or the log has it.
BlockInv ==
  /\ \A i, j \in Buf : blockno[i] = blockno[j] /\ blockno[i] # NoBlk => i = j
  /\ \A p \in Proc : pc[p] \in Inside => bf[p] \in Buf /\ blockno[bf[p]] = want[p]
  /\ \A n \in logged : \E i \in Buf : blockno[i] = n

LockInv ==
  \A p \in Proc : pc[p] \in Locked => owner[bf[p]] = p /\ saved[p] = want[p]

\* One process installs, and what it installs is in the log until it unpins it.
CommitInv ==
  /\ \A p, q \in Busy("install") : p = q
  /\ \A p \in Proc :
       call[p] = "install" /\ pc[p] \in Called \ {"release", "drop"} => want[p] \in logged

Holders(i) == {p \in Proc : pc[p] \in Inside /\ bf[p] = i}
Pin(i) == IF blockno[i] \in logged THEN 1 ELSE 0

CountInv == \A i \in Buf : refcnt[i] = Cardinality(Holders(i)) + Pin(i)

\* A valid buffer of a file-system block has what was last written; so has the
\* disk, unless the block is in the log, whose buffers are valid.
ContentInv ==
  /\ \A i \in Buf : blockno[i] \in logged => valid[i]
  /\ \A p \in Proc : pc[p] \in Filled => valid[bf[p]]
  /\ \A p \in Proc : pc[p] = "reading" => ~valid[bf[p]]
  /\ \A i \in Buf : valid[i] /\ blockno[i] \in Pbn /\ blockno[i] < DISK1_START_BLOCK =>
       data[i] = last[blockno[i]]
  /\ \A n \in Pbn : n < DISK1_START_BLOCK /\ n \notin logged => disk[n] = last[n]
  /\ \A p \in Proc : pc[p] = "unpin" => disk[want[p]] = last[want[p]]

Inner == TypeOK /\ PlaceInv /\ BlockInv /\ LockInv /\ CommitInv /\ CountInv /\ ContentInv

IInv == MirrorDown => Inner

-----------------------------------------------------------------------------
(* Arithmetic and counting *)

LEMMA ModBelow ==
  ASSUME NEW m \in Nat \ {0}, NEW x \in Int
  PROVE  x % m \in 0..m - 1 /\ (x \in 0..m - 1 => x % m = x)
OBVIOUS

LEMMA HoldersFinite ==
  ASSUME FewProcs, NEW i
  PROVE  /\ IsFiniteSet(Holders(i)) /\ Cardinality(Holders(i)) \in Nat
         /\ Cardinality(Holders(i)) <= Cardinality(Proc) /\ Cardinality(Proc) \in Nat
BY FS_Subset, FS_CardinalityType DEF Holders, FewProcs

\* The counts stay right when no reference is taken, given back or pinned.
LEMMA CountKept ==
  ASSUME CountInv, UNCHANGED <<refcnt, blockno, logged>>,
         \A q \in Proc : pc'[q] \in Inside <=> pc[q] \in Inside,
         \A q \in Proc : pc[q] \in Inside => bf'[q] = bf[q]
  PROVE  CountInv'
<1>1. ASSUME NEW i \in Buf PROVE Holders(i)' = Holders(i) /\ Pin(i)' = Pin(i)
  BY DEF Holders, Pin
<1> QED
  BY <1>1 DEF CountInv

\* One more user of a buffer.
LEMMA HolderAdded ==
  ASSUME FewProcs, NEW p \in Proc, NEW i, p \notin Holders(i)
  PROVE  /\ Cardinality(Holders(i) \union {p}) = Cardinality(Holders(i)) + 1
         /\ Cardinality(Holders(i)) < Cardinality(Proc)
<1>1. Holders(i) \union {p} \in SUBSET Proc
  BY DEF Holders
<1>2. Cardinality(Holders(i) \union {p}) = Cardinality(Holders(i)) + 1
  BY HoldersFinite, FS_AddElement
<1>3. Cardinality(Holders(i) \union {p}) <= Cardinality(Proc)
  BY <1>1, FS_Subset DEF FewProcs
<1> QED
  BY <1>2, <1>3, HoldersFinite

-----------------------------------------------------------------------------
(* bget()'s search *)

LEMMA LeastOf ==
  ASSUME NEW S, S \subseteq Nat, S # {}
  PROVE  \E i \in S : \A j \in S : i <= j
<1>1. PICK i \in S : \A j \in S : ~ <<j, i>> \in OpToRel(<, Nat)
  BY NatLessThanWellFounded, WFMin, Zenon
<1>2. \A j \in S : ~ (j < i)
  BY <1>1 DEF OpToRel
<1> QED
  BY <1>2

LEMMA FirstIn ==
  ASSUME NEW S \in SUBSET Buf, S # {}
  PROVE  First(S) \in S
<1>1. S \subseteq Nat
  BY DEF Buf
<1> QED
  BY <1>1, LeastOf DEF First

LEMMA LastIn ==
  ASSUME CacheAssumption, NEW S \in SUBSET Buf, S # {}
  PROVE  Last(S) \in S
<1> DEFINE T == {NBUF - k : k \in S}
<1>1. NBUF \in Nat /\ S \subseteq 1..NBUF
  BY DEF Buf, CacheAssumption
<1>2. T \subseteq Nat /\ T # {}
  <2>1. PICK k \in S : TRUE
    OBVIOUS
  <2>2. NBUF - k \in T
    OBVIOUS
  <2>3. \A m \in S : NBUF - m \in Nat
    BY <1>1
  <2> QED
    BY <2>2, <2>3
<1> HIDE DEF T
<1>3. PICK t \in T : \A u \in T : t <= u
  BY <1>2, LeastOf
<1>4. PICK k \in S : t = NBUF - k
  BY <1>3 DEF T
<1>5. \A m \in S : k >= m
  <2> SUFFICES ASSUME NEW m \in S PROVE k >= m
    OBVIOUS
  <2>1. NBUF - k <= NBUF - m
    BY <1>3, <1>4 DEF T
  <2> QED
    BY <1>1, <2>1
<1> QED
  BY <1>5 DEF Last

\* The list holds every buffer, so bget() finds a block that is there.
LEMMA HitIs ==
  ASSUME TypeOK, NEW n
  PROVE  /\ Hits(n) # {} => /\ lru[First(Hits(n))] \in Buf
                            /\ blockno[lru[First(Hits(n))]] = n
         /\ Hits(n) = {} => \A i \in Buf : blockno[i] # n
<1>1. Hits(n) \in SUBSET Buf
  BY DEF Hits
<1>2. Hits(n) # {} => First(Hits(n)) \in Hits(n)
  BY <1>1, FirstIn
<1>3. \A k \in Hits(n) : lru[k] \in Buf /\ blockno[lru[k]] = n
  BY DEF Hits, TypeOK
<1>4. Hits(n) = {} => \A i \in Buf : blockno[i] # n
  BY DEF Hits, TypeOK
<1> QED
  BY <1>2, <1>3, <1>4

LEMMA UnusedIs ==
  ASSUME CacheAssumption, TypeOK, Unused # {}
  PROVE  lru[Last(Unused)] \in Buf /\ refcnt[lru[Last(Unused)]] = 0
<1>1. Unused \in SUBSET Buf
  BY DEF Unused
<1>2. Last(Unused) \in Unused
  BY <1>1, LastIn
<1> QED
  BY <1>2 DEF Unused, TypeOK

\* A buffer whose count is 0 has no user and is not in the log.
LEMMA NobodyHas ==
  ASSUME FewProcs, CountInv, NEW i \in Buf, refcnt[i] = 0
  PROVE  Holders(i) = {} /\ blockno[i] \notin logged
<1>1. refcnt[i] = Cardinality(Holders(i)) + Pin(i) /\ Pin(i) \in {0, 1}
  BY DEF CountInv, Pin
<1>2. Cardinality(Holders(i)) = 0 /\ Pin(i) = 0
  BY <1>1, HoldersFinite
<1> QED
  BY <1>2, HoldersFinite, FS_EmptySet DEF Pin

\* brelse() moves a buffer to the front and loses none.
LEMMA FrontKept ==
  ASSUME CacheAssumption, TypeOK, NEW i \in Buf
  PROVE  ToFront(i) \in [Buf -> Buf] /\ \A j \in Buf : \E k \in Buf : ToFront(i)[k] = j
<1> DEFINE k == CHOOSE m \in Buf : lru[m] = i
<1>1. k \in Buf /\ lru[k] = i
  BY DEF TypeOK
<1>2. ToFront(i) = [m \in Buf |-> IF m = 1 THEN i ELSE IF m <= k THEN lru[m - 1] ELSE lru[m]]
  BY DEF ToFront
<1> HIDE DEF k
<1>3. Buf = 1..NBUF /\ NBUF \in Nat \ {0} /\ lru \in [Buf -> Buf]
  BY DEF Buf, CacheAssumption, TypeOK
<1>4. ToFront(i) \in [Buf -> Buf]
  <2>1. ASSUME NEW m \in Buf, m # 1 PROVE lru[m - 1] \in Buf
    BY <1>3, <2>1
  <2> QED
    BY <1>2, <1>3, <2>1
<1>5. ASSUME NEW j \in Buf PROVE \E m \in Buf : ToFront(i)[m] = j
  <2>1. PICK m \in Buf : lru[m] = j
    BY DEF TypeOK
  <2>2. CASE m = k
    BY <1>1, <1>2, <1>3, <2>1, <2>2
  <2>3. CASE m < k
    <3>1. m + 1 \in Buf /\ ToFront(i)[m + 1] = j
      BY <1>1, <1>2, <1>3, <2>1, <2>3
    <3> QED
      BY <3>1
  <2>4. CASE m > k
    <3>1. ToFront(i)[m] = j
      BY <1>1, <1>2, <1>3, <2>1, <2>4
    <3> QED
      BY <3>1
  <2> QED
    BY <1>1, <1>3, <2>2, <2>3, <2>4
<1> QED
  BY <1>4, <1>5
-----------------------------------------------------------------------------
(* The steps *)

\* A call begins: the installer is alone and what it installs is in the log.
LEMMA StartInv ==
  ASSUME CacheAssumption, FewProcs, MirrorDown, Inner,
         NEW p \in Proc, NEW c, NEW n, <<c, n>> \in boot.calls, boot \in Boots,
         Start(p, c, n)
  PROVE  Inner'
<1> USE DEF Inner
<1>1. TypeOK'
  BY DEF TypeOK, Start, Enter, bvars, PCs
<1>2. PlaceInv'
  BY DEF PlaceInv, Start, Enter, TypeOK, MirrorDown
<1>3. BlockInv'
  BY DEF BlockInv, Start, Enter, bvars, Inside
<1>4. LockInv'
  BY DEF LockInv, Start, Enter, bvars, Locked
<1>5. CommitInv'
  BY DEF CommitInv, Start, Enter, MayCall, TypeOK, PlaceInv, Busy
<1>6. CountInv'
  <2>1. UNCHANGED <<refcnt, blockno, logged>>
    BY DEF Start, Enter, bvars
  <2>2. \A q \in Proc : /\ pc'[q] \in Inside <=> pc[q] \in Inside
                        /\ pc[q] \in Inside => bf'[q] = bf[q]
    BY DEF Start, Enter, Inside
  <2> QED
    BY <2>1, <2>2, CountKept
<1>7. ContentInv'
  BY DEF ContentInv, Start, Enter, bvars, Filled
<1> QED
  BY <1>1, <1>2, <1>3, <1>4, <1>5, <1>6, <1>7

\* bget() finds the block and counts one user more.
LEMMA BgetHitInv ==
  ASSUME CacheAssumption, FewProcs, MirrorDown, Inner,
         NEW p \in Proc, BgetHit(p)
  PROVE  Inner'
<1> USE DEF Inner
<1>0. PICK i \in Buf :
      /\ pc[p] = "bget" /\ blockno[i] = want[p]
      /\ refcnt' = [refcnt EXCEPT ![i] = (@ + 1) % RefMod]
      /\ bf' = [bf EXCEPT ![p] = i] /\ pc' = [pc EXCEPT ![p] = "lock"]
      /\ UNCHANGED <<blockno, valid, data, owner, lru, disk, call, want, saved,
                     lvars, last>>
  BY HitIs DEF BgetHit
<1>1. TypeOK'
  <2>1. refcnt' \in [Buf -> 0..RefMod - 1]
    <3>1. refcnt[i] + 1 \in Int /\ RefMod \in Nat \ {0}
      BY DEF TypeOK, CacheAssumption
    <3>2. (refcnt[i] + 1) % RefMod \in 0..RefMod - 1
      BY <3>1, ModBelow
    <3> QED
      BY <1>0, <3>2 DEF TypeOK
  <2>2. pc' \in [Proc -> PCs] /\ bf' \in [Proc -> 0..NBUF]
    BY <1>0 DEF TypeOK, Buf, PCs
  <2> QED
    BY <1>0, <2>1, <2>2 DEF TypeOK, lvars
<1>2. PlaceInv'
  BY DEF PlaceInv, BgetHit, lvars, TypeOK, Called
<1>3. BlockInv'
  BY <1>0 DEF BlockInv, TypeOK, lvars
<1>4. LockInv'
  BY DEF LockInv, BgetHit, Locked
<1>5. CommitInv'
  BY DEF CommitInv, BgetHit, lvars, Called, Busy, PCs
<1>6. CountInv'
  <2>1. p \notin Holders(i) /\ Holders(i)' = Holders(i) \union {p}
    BY <1>0 DEF Holders, TypeOK, Inside
  <2>2. \A j \in Buf : j # i => Holders(j)' = Holders(j)
    BY <1>0 DEF Holders, TypeOK, Inside
  <2>3. \A j \in Buf : Pin(j)' = Pin(j) /\ Pin(j) \in {0, 1}
    BY <1>0 DEF Pin, lvars
  <2>4. refcnt[i] = Cardinality(Holders(i)) + Pin(i)
    BY <1>0 DEF CountInv
  <2>5. /\ Cardinality(Holders(i)') = Cardinality(Holders(i)) + 1
        /\ Cardinality(Holders(i)) < Cardinality(Proc)
    BY <2>1, HolderAdded
  <2>6. refcnt[i] + 1 \in 0..RefMod - 1 /\ RefMod \in Nat \ {0}
    BY <1>0, <2>3, <2>4, <2>5, HoldersFinite DEF FewProcs, CacheAssumption
  <2>7. refcnt'[i] = refcnt[i] + 1
    BY <1>0, <2>6, ModBelow DEF TypeOK
  <2>8. refcnt'[i] = Cardinality(Holders(i)') + Pin(i)'
    BY <1>0, <2>3, <2>4, <2>5, <2>7, HoldersFinite
  <2>9. \A j \in Buf : j # i => refcnt'[j] = refcnt[j]
    BY <1>0 DEF TypeOK
  <2> QED
    BY <2>2, <2>3, <2>8, <2>9 DEF CountInv
<1>7. ContentInv'
  BY DEF ContentInv, BgetHit, lvars, Filled
<1> QED
  BY <1>1, <1>2, <1>3, <1>4, <1>5, <1>6, <1>7

\* bget() recycles a buffer that nobody has and the log does not need.
LEMMA BgetRecycleInv ==
  ASSUME CacheAssumption, FewProcs, MirrorDown, Inner,
         NEW p \in Proc, BgetRecycle(p)
  PROVE  Inner'
<1> USE DEF Inner
<1>0. PICK i \in Buf :
      /\ pc[p] = "bget" /\ refcnt[i] = 0
      /\ \A j \in Buf : blockno[j] # want[p]
      /\ blockno' = [blockno EXCEPT ![i] = want[p]] /\ valid' = [valid EXCEPT ![i] = FALSE]
      /\ refcnt' = [refcnt EXCEPT ![i] = 1]
      /\ bf' = [bf EXCEPT ![p] = i] /\ pc' = [pc EXCEPT ![p] = "lock"]
      /\ UNCHANGED <<data, owner, lru, disk, call, want, saved, lvars, last>>
  BY HitIs, UnusedIs DEF BgetRecycle, Recycled
<1>b. Holders(i) = {} /\ blockno[i] \notin logged /\ want[p] \notin logged
  <2>1. Holders(i) = {} /\ blockno[i] \notin logged
    BY <1>0, NobodyHas
  <2> QED
    BY <1>0, <2>1 DEF BlockInv
<1>c. /\ want[p] \in Pbn /\ NoBlk \notin Pbn
        /\ \A q \in Proc : pc[q] \in Inside => bf[q] # i
  BY <1>0, <1>b DEF Holders, PlaceInv, Called, PCs
<1>1. TypeOK'
  <2>1. refcnt' \in [Buf -> 0..RefMod - 1]
    <3>1. 1 \in 0..RefMod - 1
      BY HoldersFinite DEF FewProcs, CacheAssumption
    <3> QED
      BY <1>0, <3>1 DEF TypeOK
  <2>2. blockno' \in [Buf -> Pbn \union {NoBlk}] /\ valid' \in [Buf -> BOOLEAN]
    BY <1>0, <1>c DEF TypeOK
  <2>3. pc' \in [Proc -> PCs] /\ bf' \in [Proc -> 0..NBUF]
    BY <1>0 DEF TypeOK, Buf, PCs
  <2> QED
    BY <1>0, <2>1, <2>2, <2>3 DEF TypeOK, lvars
<1>2. PlaceInv'
  BY DEF PlaceInv, BgetRecycle, lvars, TypeOK, Called
<1>3. BlockInv'
  <2>1. \A j, k \in Buf : blockno'[j] = blockno'[k] /\ blockno'[j] # NoBlk => j = k
    BY <1>0 DEF BlockInv, TypeOK
  <2>2. \A q \in Proc : pc'[q] \in Inside => bf'[q] \in Buf /\ blockno'[bf'[q]] = want'[q]
    BY <1>0, <1>c DEF BlockInv, TypeOK
  <2>3. \A n \in logged' : \E j \in Buf : blockno'[j] = n
    BY <1>0, <1>b DEF BlockInv, TypeOK, lvars
  <2> QED
    BY <2>1, <2>2, <2>3 DEF BlockInv
<1>4. LockInv'
  BY DEF LockInv, BgetRecycle, Locked
<1>5. CommitInv'
  BY DEF CommitInv, BgetRecycle, lvars, TypeOK, Called, Busy
<1>6. CountInv'
  <2>1. Holders(i)' = Holders(i) \union {p} /\ \A j \in Buf : j # i => Holders(j)' = Holders(j)
    BY <1>0 DEF Holders, TypeOK, Inside
  <2>2. Cardinality(Holders(i)') = 1
    <3>1. Holders(i)' = {p}
      BY <1>b, <2>1
    <3> QED
      BY <3>1, FS_Singleton
  <2>3. Pin(i)' = 0 /\ \A j \in Buf : j # i => Pin(j)' = Pin(j)
    BY <1>0, <1>b DEF Pin, TypeOK, lvars
  <2>4. refcnt'[i] = 1 /\ \A j \in Buf : j # i => refcnt'[j] = refcnt[j]
    BY <1>0 DEF TypeOK
  <2>5. \A j \in Buf : j # i => refcnt'[j] = Cardinality(Holders(j)') + Pin(j)'
    BY <2>1, <2>3, <2>4 DEF CountInv
  <2>6. refcnt'[i] = Cardinality(Holders(i)') + Pin(i)'
    BY <2>2, <2>3, <2>4
  <2> QED
    BY <2>5, <2>6 DEF CountInv
<1>7. ContentInv'
  <2>1. \A j \in Buf : blockno'[j] \in logged' => valid'[j]
    BY <1>0, <1>b DEF ContentInv, lvars
  <2>2. \A q \in Proc : pc'[q] \in Filled => valid'[bf'[q]]
    BY <1>0, <1>c DEF ContentInv, Inside, Filled
  <2>3. \A q \in Proc : pc'[q] = "reading" => ~valid'[bf'[q]]
    BY <1>0, <1>c DEF ContentInv
  <2>4. \A j \in Buf : valid'[j] /\ blockno'[j] \in Pbn
                          /\ blockno'[j] < DISK1_START_BLOCK =>
          data'[j] = last'[blockno'[j]]
    BY <1>0 DEF ContentInv, TypeOK
  <2>5. \A n \in Pbn : n < DISK1_START_BLOCK /\ n \notin logged' => disk'[n] = last'[n]
    BY <1>0 DEF ContentInv, lvars
  <2>6. \A q \in Proc : pc'[q] = "unpin" => disk'[want'[q]] = last'[want'[q]]
    BY <1>0 DEF ContentInv
  <2> QED
    BY <2>1, <2>2, <2>3, <2>4, <2>5, <2>6 DEF ContentInv
<1> QED
  BY <1>1, <1>2, <1>3, <1>4, <1>5, <1>6, <1>7

\* A panic in bget() leaves the cache as it is.
LEMMA BgetPanicInv ==
  ASSUME CacheAssumption, FewProcs, MirrorDown, Inner,
         NEW p \in Proc, BgetPanic(p)
  PROVE  Inner'
<1> USE DEF Inner
<1>1. TypeOK'
  BY DEF TypeOK, BgetPanic, bvars, pvars, lvars, PCs
<1>2. PlaceInv'
  BY DEF PlaceInv, BgetPanic, pvars, lvars, Called
<1>3. BlockInv'
  BY DEF BlockInv, BgetPanic, bvars, pvars, lvars, Inside
<1>4. LockInv'
  BY DEF LockInv, BgetPanic, bvars, pvars, Locked
<1>5. CommitInv'
  BY DEF CommitInv, BgetPanic, pvars, lvars, Called, Busy
<1>6. CountInv'
  <2>1. UNCHANGED <<refcnt, blockno, logged>>
    BY DEF BgetPanic, bvars, lvars
  <2>2. \A q \in Proc : /\ pc'[q] \in Inside <=> pc[q] \in Inside
                        /\ pc[q] \in Inside => bf'[q] = bf[q]
    BY DEF BgetPanic, pvars, Inside
  <2> QED
    BY <2>1, <2>2, CountKept
<1>7. ContentInv'
  BY DEF ContentInv, BgetPanic, bvars, pvars, lvars, Filled
<1> QED
  BY <1>1, <1>2, <1>3, <1>4, <1>5, <1>6, <1>7

\* acquiresleep(): the lock was free, so no other user is past it.
LEMMA AcquireInv ==
  ASSUME CacheAssumption, FewProcs, MirrorDown, Inner,
         NEW p \in Proc, Acquire(p)
  PROVE  Inner'
<1> USE DEF Inner
<1>1. TypeOK'
  BY DEF TypeOK, Acquire, FallsBack, lvars, BlockInv, MirrorDown, PCs, Inside
<1>2. PlaceInv'
  BY DEF PlaceInv, Acquire, lvars, TypeOK, Called
<1>3. BlockInv'
  BY DEF BlockInv, Acquire, FallsBack, lvars, Inside, MirrorDown
<1>4. LockInv'
  BY DEF LockInv, Acquire, FallsBack, TypeOK, Inside, BlockInv, MirrorDown
<1>5. CommitInv'
  BY DEF CommitInv, Acquire, lvars, TypeOK, Called, Busy
<1>6. CountInv'
  <2>1. UNCHANGED <<refcnt, blockno, logged>>
    BY DEF Acquire, FallsBack, lvars, MirrorDown
  <2>2. \A q \in Proc : /\ pc'[q] \in Inside <=> pc[q] \in Inside
                        /\ pc[q] \in Inside => bf'[q] = bf[q]
    BY DEF Acquire, Inside
  <2> QED
    BY <2>1, <2>2, CountKept
<1>7. ContentInv'
  BY DEF ContentInv, Acquire, FallsBack, lvars, Filled, MirrorDown
<1> QED
  BY <1>1, <1>2, <1>3, <1>4, <1>5, <1>6, <1>7

\* What bread() reads is not in the log, so the disk has what was last written.
LEMMA ReadDoneInv ==
  ASSUME CacheAssumption, FewProcs, MirrorDown, Inner,
         NEW p \in Proc, ReadDone(p)
  PROVE  Inner'
<1> USE DEF Inner
<1>0. PICK i \in Buf :
      /\ i = bf[p] /\ pc[p] = "reading" /\ blockno[i] = want[p]
      /\ owner[i] = p /\ saved[p] = want[p]
      /\ want[p] \in Pbn /\ NoBlk \notin Pbn
      /\ data' = [data EXCEPT ![i] = disk[want[p]]]
      /\ valid' = [valid EXCEPT ![i] = TRUE]
      /\ pc' = [pc EXCEPT ![p] = "use"]
      /\ UNCHANGED <<blockno, refcnt, owner, lru, disk, pvars, lvars, last>>
  <2>1. /\ bf[p] \in Buf /\ pc[p] = "reading" /\ blockno[bf[p]] = want[p]
        /\ owner[bf[p]] = p /\ saved[p] = want[p]
        /\ want[p] \in Pbn /\ NoBlk \notin Pbn
    BY DEF ReadDone, BlockInv, LockInv, PlaceInv, Inside, Locked, Called, PCs
  <2>2. /\ data' = [data EXCEPT ![bf[p]] = disk[want[p]]]
        /\ valid' = [valid EXCEPT ![bf[p]] = TRUE]
        /\ pc' = [pc EXCEPT ![p] = "use"]
        /\ UNCHANGED <<blockno, refcnt, owner, lru, disk, pvars, lvars, last>>
    BY <2>1 DEF ReadDone, MirrorDown, FallsBack
  <2> QED
    BY <2>1, <2>2
\* Nobody else holds the lock.
<1>a. \A q \in Proc : q # p /\ pc[q] \in Locked => bf[q] # i /\ want[q] # want[p]
  BY <1>0 DEF LockInv, BlockInv, Locked, Inside
<1>1. TypeOK'
  BY <1>0 DEF TypeOK, PCs, pvars, lvars
<1>2. PlaceInv'
  BY DEF PlaceInv, ReadDone, pvars, lvars, TypeOK, Called
<1>3. BlockInv'
  BY DEF BlockInv, ReadDone, pvars, lvars, Inside
<1>4. LockInv'
  BY DEF LockInv, ReadDone, pvars, Locked
<1>5. CommitInv'
  BY DEF CommitInv, ReadDone, pvars, lvars, TypeOK, Called, Busy
<1>6. CountInv'
  <2>1. UNCHANGED <<refcnt, blockno, logged>>
    BY DEF ReadDone, FallsBack, lvars, MirrorDown
  <2>2. \A q \in Proc : /\ pc'[q] \in Inside <=> pc[q] \in Inside
                        /\ pc[q] \in Inside => bf'[q] = bf[q]
    BY DEF ReadDone, pvars, Inside
  <2> QED
    BY <2>1, <2>2, CountKept
<1>7. ContentInv'
  <2>0. blockno[i] < DISK1_START_BLOCK => disk[want[p]] = last[want[p]]
    BY <1>0 DEF ContentInv, TypeOK
  <2>1. \A j \in Buf : blockno'[j] \in logged' => valid'[j]
    BY <1>0 DEF ContentInv, lvars
  <2>2. \A q \in Proc : pc'[q] \in Filled => valid'[bf'[q]]
    BY <1>0, <1>a DEF ContentInv, TypeOK, pvars
  <2>3. \A q \in Proc : pc'[q] = "reading" => ~valid'[bf'[q]]
    BY <1>0, <1>a DEF ContentInv, TypeOK, Locked, pvars
  <2>4. \A j \in Buf : valid'[j] /\ blockno'[j] \in Pbn
                          /\ blockno'[j] < DISK1_START_BLOCK =>
          data'[j] = last'[blockno'[j]]
    BY <1>0, <2>0 DEF ContentInv, TypeOK
  <2>5. \A n \in Pbn : n < DISK1_START_BLOCK /\ n \notin logged' => disk'[n] = last'[n]
    BY <1>0 DEF ContentInv, lvars
  <2>6. \A q \in Proc : pc'[q] = "unpin" => disk'[want'[q]] = last'[want'[q]]
    BY <1>0 DEF ContentInv, pvars
  <2> QED
    BY <2>1, <2>2, <2>3, <2>4, <2>5, <2>6 DEF ContentInv
<1> QED
  BY <1>1, <1>2, <1>3, <1>4, <1>5, <1>6, <1>7

\* A reader changes nothing.
LEMMA UseReadInv ==
  ASSUME CacheAssumption, FewProcs, MirrorDown, Inner,
         NEW p \in Proc, UseRead(p)
  PROVE  Inner'
<1> USE DEF Inner
<1>1. TypeOK'
  BY DEF TypeOK, UseRead, bvars, pvars, lvars, PCs
<1>2. PlaceInv'
  BY DEF PlaceInv, UseRead, pvars, lvars, TypeOK, Called
<1>3. BlockInv'
  BY DEF BlockInv, UseRead, bvars, pvars, lvars, Inside
<1>4. LockInv'
  BY DEF LockInv, UseRead, bvars, pvars, Locked
<1>5. CommitInv'
  BY DEF CommitInv, UseRead, pvars, lvars, Busy
<1>6. CountInv'
  <2>1. UNCHANGED <<refcnt, blockno, logged>>
    BY DEF UseRead, bvars, lvars
  <2>2. \A q \in Proc : /\ pc'[q] \in Inside <=> pc[q] \in Inside
                        /\ pc[q] \in Inside => bf'[q] = bf[q]
    BY DEF UseRead, pvars, Inside
  <2> QED
    BY <2>1, <2>2, CountKept
<1>7. ContentInv'
  BY DEF ContentInv, UseRead, bvars, pvars, lvars, Filled
<1> QED
  BY <1>1, <1>2, <1>3, <1>4, <1>5, <1>6, <1>7

\* log_write() pins a buffer once.
LEMMA UseWriteInv ==
  ASSUME CacheAssumption, FewProcs, MirrorDown, Inner,
         NEW p \in Proc, NEW v \in Data, UseWrite(p, v)
  PROVE  Inner'
<1> USE DEF Inner
<1>0. PICK i \in Buf :
      /\ i = bf[p] /\ pc[p] = "use" /\ blockno[i] = want[p]
      /\ owner[i] = p /\ saved[p] = want[p]
      /\ want[p] \in Pbn /\ NoBlk \notin Pbn
      /\ want[p] < DISK1_START_BLOCK
      /\ data' = [data EXCEPT ![i] = v] /\ last' = [last EXCEPT ![want[p]] = v]
      /\ logged' = logged \union {want[p]}
      /\ refcnt' = IF want[p] \in logged THEN refcnt
                   ELSE [refcnt EXCEPT ![i] = (@ + 1) % RefMod]
      /\ pc' = [pc EXCEPT ![p] = "release"]
      /\ UNCHANGED <<blockno, valid, owner, lru, disk, pvars, committing, header>>
  <2>1. /\ bf[p] \in Buf /\ pc[p] = "use" /\ blockno[bf[p]] = want[p]
        /\ owner[bf[p]] = p /\ saved[p] = want[p]
        /\ want[p] \in Pbn /\ NoBlk \notin Pbn
    BY DEF UseWrite, TypeOK, BlockInv, LockInv, PlaceInv, Inside, Locked, Called
  <2>2. /\ data' = [data EXCEPT ![bf[p]] = v] /\ last' = [last EXCEPT ![want[p]] = v]
        /\ logged' = logged \union {want[p]}
        /\ refcnt' = IF want[p] \in logged THEN refcnt
                     ELSE [refcnt EXCEPT ![bf[p]] = (@ + 1) % RefMod]
        /\ pc' = [pc EXCEPT ![p] = "release"]
        /\ UNCHANGED <<blockno, valid, owner, lru, disk, pvars, committing, header>>
    BY <2>1 DEF UseWrite, MirrorDown, FallsBack
  <2>3. DISK1_START_BLOCK \in Nat /\ Pbn \subseteq Nat
    BY DEF CacheAssumption
  <2>4. want[p] >= DISK1_START_BLOCK <=> call[p] \in Raw
    BY <2>1 DEF PlaceInv, Called, PCs
  <2>5. call[p] \notin Raw
    BY <2>1 DEF UseWrite, PlaceInv, Raw
  <2>6. want[p] < DISK1_START_BLOCK
    <3>1. want[p] \in Nat
      BY <2>1, <2>3
    <3>2. ~(want[p] >= DISK1_START_BLOCK)
      BY <2>4, <2>5, Zenon
    <3> QED
      BY <2>3, <3>1, <3>2
  <2> QED
    BY <2>1, <2>2, <2>6
\* Nobody else holds the lock.
<1>a. \A q \in Proc : q # p /\ pc[q] \in Locked => bf[q] # i /\ want[q] # want[p]
  BY <1>0 DEF LockInv, BlockInv, Locked, Inside
<1>1. TypeOK'
  <2>1. (refcnt[i] + 1) % RefMod \in 0..RefMod - 1
    <3>1. refcnt[i] + 1 \in Int /\ RefMod \in Nat \ {0}
      BY DEF TypeOK, CacheAssumption
    <3> QED
      BY <3>1, ModBelow
  <2>2. refcnt' \in [Buf -> 0..RefMod - 1]
    BY <1>0, <2>1 DEF TypeOK
  <2>3. data' \in [Buf -> Data] /\ last' \in [Pbn -> Data] /\ logged' \subseteq Pbn
    BY <1>0 DEF TypeOK
  <2>4. pc' \in [Proc -> PCs]
    BY <1>0 DEF TypeOK, PCs
  <2> QED
    BY <1>0, <2>2, <2>3, <2>4 DEF TypeOK, pvars
<1>2. PlaceInv'
  BY <1>0 DEF PlaceInv, TypeOK, Called, pvars
<1>3. BlockInv'
  BY DEF BlockInv, UseWrite, pvars, Inside
<1>4. LockInv'
  BY DEF LockInv, UseWrite, pvars, Locked
<1>5. CommitInv'
  BY DEF CommitInv, UseWrite, pvars, Busy
<1>6. CountInv'
  <2>1. \A j \in Buf : Holders(j)' = Holders(j)
    BY <1>0 DEF Holders, Inside, pvars
  <2>2. \A j \in Buf : j # i => refcnt'[j] = refcnt[j] /\ Pin(j)' = Pin(j)
    BY <1>0 DEF Pin, TypeOK, BlockInv
  <2>3. refcnt[i] = Cardinality(Holders(i)) + Pin(i)
    BY DEF CountInv
  <2>4. CASE want[p] \in logged
    BY <1>0, <2>1, <2>2, <2>4 DEF CountInv, Pin
  <2>5. CASE want[p] \notin logged
    <3>1. Pin(i) = 0 /\ Pin(i)' = 1
      BY <1>0, <2>5 DEF Pin
    <3>2. refcnt[i] + 1 \in 0..RefMod - 1 /\ RefMod \in Nat \ {0}
      BY <2>3, <3>1, HoldersFinite DEF FewProcs, CacheAssumption
    <3>2a. PICK m \in Nat : m = refcnt[i] + 1
      BY <3>2
    <3>2b. m % RefMod = m
      <4>1. RefMod \in Nat \ {0} /\ m \in Int /\ m \in 0..RefMod - 1
        BY <3>2, <3>2a
      <4> HIDE DEF Inner
      <4> QED
        BY <4>1, ModBelow
    <3>3. refcnt'[i] = refcnt[i] + 1
      <4>1. refcnt' = [refcnt EXCEPT ![i] = m]
        BY <1>0, <2>5, <3>2a, <3>2b
      <4>2. refcnt \in [Buf -> 0..RefMod - 1] /\ i \in Buf
        BY <1>0 DEF TypeOK
      <4> QED
        BY <3>2a, <4>1, <4>2
    <3>4. refcnt'[i] = Cardinality(Holders(i)') + Pin(i)'
      BY <2>1, <2>3, <3>1, <3>3, HoldersFinite
    <3> QED
      BY <2>1, <2>2, <3>4 DEF CountInv
  <2> QED
    BY <2>4, <2>5
<1>7. ContentInv'
  <2>0. \A j \in Buf : blockno[j] = want[p] => j = i
    BY <1>0 DEF BlockInv
  <2>1. \A j \in Buf : blockno'[j] \in logged' => valid'[j]
    BY <1>0, <2>0 DEF ContentInv, Filled
  <2>2. \A q \in Proc : pc'[q] \in Filled => valid'[bf'[q]]
    BY <1>0, <1>a DEF ContentInv, Filled, pvars
  <2>3. \A q \in Proc : pc'[q] = "reading" => ~valid'[bf'[q]]
    BY <1>0, <1>a DEF ContentInv, pvars
  <2>4. \A j \in Buf : valid'[j] /\ blockno'[j] \in Pbn
                          /\ blockno'[j] < DISK1_START_BLOCK =>
          data'[j] = last'[blockno'[j]]
    BY <1>0, <2>0 DEF ContentInv, TypeOK
  <2>5. \A n \in Pbn : n < DISK1_START_BLOCK /\ n \notin logged' => disk'[n] = last'[n]
    BY <1>0 DEF ContentInv
  <2>6. \A q \in Proc : pc'[q] = "unpin" => disk'[want'[q]] = last'[want'[q]]
    BY <1>0, <1>a DEF ContentInv, Locked, pvars
  <2> QED
    BY <2>1, <2>2, <2>3, <2>4, <2>5, <2>6 DEF ContentInv
<1> QED
  BY <1>1, <1>2, <1>3, <1>4, <1>5, <1>6, <1>7

\* install_trans() copies what the buffer has already.
LEMMA UseInstallInv ==
  ASSUME CacheAssumption, FewProcs, MirrorDown, Inner,
         NEW p \in Proc, UseInstall(p)
  PROVE  Inner'
<1> USE DEF Inner
<1>1. TypeOK'
  <2>1. data' = data
    BY DEF UseInstall, PlaceInv
  <2> QED
    BY <2>1 DEF TypeOK, UseInstall, pvars, lvars, PCs
<1>2. PlaceInv'
  BY DEF PlaceInv, UseInstall, pvars, lvars, TypeOK, Called
<1>3. BlockInv'
  BY DEF BlockInv, UseInstall, pvars, lvars, Inside
<1>4. LockInv'
  BY DEF LockInv, UseInstall, pvars, Locked
<1>5. CommitInv'
  BY DEF CommitInv, UseInstall, pvars, lvars, Called, Busy, PCs
<1>6. CountInv'
  <2>1. UNCHANGED <<refcnt, blockno, logged>>
    BY DEF UseInstall, lvars
  <2>2. \A q \in Proc : /\ pc'[q] \in Inside <=> pc[q] \in Inside
                        /\ pc[q] \in Inside => bf'[q] = bf[q]
    BY DEF UseInstall, pvars, Inside
  <2> QED
    BY <2>1, <2>2, CountKept
<1>7. ContentInv'
  BY DEF ContentInv, UseInstall, pvars, lvars, BlockInv, Filled, Inside
<1> QED
  BY <1>1, <1>2, <1>3, <1>4, <1>5, <1>6, <1>7

\* raw_read(), and raw_write() that fails, change a buffer of the mirror only.
FillsRaw(p, v) ==
  /\ pc[p] = "raw" /\ call[p] \in Raw
  /\ data' = [data EXCEPT ![bf[p]] = v]
  /\ pc' = [pc EXCEPT ![p] = "release"]
  /\ UNCHANGED <<blockno, valid, refcnt, owner, lru, disk, pvars, lvars, last>>

LEMMA RawBufferInv ==
  ASSUME CacheAssumption, FewProcs, MirrorDown, Inner,
         NEW p \in Proc, NEW v \in Data, FillsRaw(p, v)
  PROVE  Inner'
<1> USE DEF Inner
<1>0. PICK i \in Buf :
      /\ i = bf[p] /\ pc[p] = "raw" /\ blockno[i] = want[p]
      /\ owner[i] = p /\ saved[p] = want[p]
      /\ want[p] \in Pbn /\ NoBlk \notin Pbn
      /\ want[p] >= DISK1_START_BLOCK /\ DISK1_START_BLOCK \in Nat /\ Pbn \subseteq Nat
      /\ data' = [data EXCEPT ![i] = v]
      /\ pc' = [pc EXCEPT ![p] = "release"]
      /\ UNCHANGED <<blockno, valid, refcnt, owner, lru, disk, pvars, lvars, last>>
  <2>1. /\ bf[p] \in Buf /\ pc[p] = "raw" /\ blockno[bf[p]] = want[p]
        /\ owner[bf[p]] = p /\ saved[p] = want[p]
        /\ want[p] \in Pbn /\ NoBlk \notin Pbn
    BY DEF FillsRaw, TypeOK, BlockInv, LockInv, PlaceInv, Inside, Locked, Called
  <2>2. /\ data' = [data EXCEPT ![bf[p]] = v]
        /\ pc' = [pc EXCEPT ![p] = "release"]
        /\ UNCHANGED <<blockno, valid, refcnt, owner, lru, disk, pvars, lvars, last>>
    BY <2>1 DEF FillsRaw
  <2>3. DISK1_START_BLOCK \in Nat /\ Pbn \subseteq Nat
    BY DEF CacheAssumption
  <2>4. want[p] >= DISK1_START_BLOCK <=> call[p] \in Raw
    BY <2>1 DEF PlaceInv, Called, PCs
  <2>6. /\ want[p] >= DISK1_START_BLOCK /\ DISK1_START_BLOCK \in Nat /\ Pbn \subseteq Nat
    BY <2>1, <2>3, <2>4 DEF FillsRaw, PlaceInv, Raw
  <2> QED
    BY <2>1, <2>2, <2>6
\* Nobody else holds the lock.
<1>a. \A q \in Proc : q # p /\ pc[q] \in Locked => bf[q] # i /\ want[q] # want[p]
  BY <1>0 DEF LockInv, BlockInv, Locked, Inside
<1>1. TypeOK'
  BY <1>0 DEF TypeOK, PCs, pvars, lvars
<1>2. PlaceInv'
  BY DEF PlaceInv, FillsRaw, pvars, lvars, TypeOK, Called
<1>3. BlockInv'
  BY DEF BlockInv, FillsRaw, pvars, lvars, Inside
<1>4. LockInv'
  BY DEF LockInv, FillsRaw, pvars, Locked
<1>5. CommitInv'
  BY DEF CommitInv, FillsRaw, pvars, lvars, Busy
<1>6. CountInv'
  <2>1. UNCHANGED <<refcnt, blockno, logged>>
    BY DEF FillsRaw, lvars
  <2>2. \A q \in Proc : /\ pc'[q] \in Inside <=> pc[q] \in Inside
                        /\ pc[q] \in Inside => bf'[q] = bf[q]
    BY DEF FillsRaw, pvars, Inside
  <2> QED
    BY <2>1, <2>2, CountKept
<1>7. ContentInv'
  <2>1. \A j \in Buf : blockno'[j] \in logged' => valid'[j]
    BY <1>0 DEF ContentInv, lvars
  <2>2. \A q \in Proc : pc'[q] \in Filled => valid'[bf'[q]]
    BY <1>0 DEF ContentInv, Filled, pvars
  <2>3. \A q \in Proc : pc'[q] = "reading" => ~valid'[bf'[q]]
    BY <1>0 DEF ContentInv, pvars
  <2>4. \A j \in Buf : valid'[j] /\ blockno'[j] \in Pbn
                          /\ blockno'[j] < DISK1_START_BLOCK =>
          data'[j] = last'[blockno'[j]]
    <3>1. SUFFICES ASSUME NEW j \in Buf, valid[j], blockno[j] \in Pbn,
                          blockno[j] < DISK1_START_BLOCK
                   PROVE  data'[j] = last[blockno[j]]
      BY <1>0
    <3>2. want[p] \in Nat /\ DISK1_START_BLOCK \in Nat /\ want[p] >= DISK1_START_BLOCK
      BY <1>0
    <3>3. j # i
      BY <1>0, <3>1, <3>2
    <3> QED
      BY <1>0, <3>1, <3>3 DEF ContentInv, TypeOK
  <2>5. \A n \in Pbn : n < DISK1_START_BLOCK /\ n \notin logged' => disk'[n] = last'[n]
    BY <1>0 DEF ContentInv, lvars
  <2>6. \A q \in Proc : pc'[q] = "unpin" => disk'[want'[q]] = last'[want'[q]]
    BY <1>0 DEF ContentInv, pvars
  <2> QED
    BY <2>1, <2>2, <2>3, <2>4, <2>5, <2>6 DEF ContentInv
<1> QED
  BY <1>1, <1>2, <1>3, <1>4, <1>5, <1>6, <1>7

LEMMA RawReadInv ==
  ASSUME CacheAssumption, FewProcs, MirrorDown, Inner,
         NEW p \in Proc, RawRead(p)
  PROVE  Inner'
<1>1. saved[p] \in Pbn /\ disk[saved[p]] \in Data
  BY DEF RawRead, Inner, TypeOK, LockInv, PlaceInv, Locked, Called, PCs
<1>2. FillsRaw(p, disk[saved[p]])
  BY DEF RawRead, FillsRaw, Raw
<1> QED
  BY <1>1, <1>2, RawBufferInv

LEMMA RawWriteFailsInv ==
  ASSUME CacheAssumption, FewProcs, MirrorDown, Inner,
         NEW p \in Proc, NEW v \in Data, RawWriteFails(p, v)
  PROVE  Inner'
<1>1. FillsRaw(p, v)
  BY DEF RawWriteFails, FillsRaw, Raw
<1> QED
  BY <1>1, RawBufferInv

\* raw_write() changes a buffer and a block of the mirror only.
LEMMA RawWriteInv ==
  ASSUME CacheAssumption, FewProcs, MirrorDown, Inner,
         NEW p \in Proc, NEW v \in Data, RawWrite(p, v)
  PROVE  Inner'
<1> USE DEF Inner
<1>1. TypeOK'
  <2>1. data' \in [Buf -> Data] /\ valid' \in [Buf -> BOOLEAN]
    BY DEF TypeOK, RawWrite
  <2>2. disk' \in [Pbn -> Data] /\ last' \in [Pbn -> Data]
    BY DEF TypeOK, RawWrite
  <2> QED
    BY <2>1, <2>2 DEF TypeOK, RawWrite, pvars, lvars, PCs
<1>2. PlaceInv'
  BY DEF PlaceInv, RawWrite, pvars, lvars, TypeOK, Called
<1>3. BlockInv'
  BY DEF BlockInv, RawWrite, pvars, lvars, Inside
<1>4. LockInv'
  BY DEF LockInv, RawWrite, pvars, Locked
<1>5. CommitInv'
  BY DEF CommitInv, RawWrite, pvars, lvars, Busy
<1>6. CountInv'
  <2>1. UNCHANGED <<refcnt, blockno, logged>>
    BY DEF RawWrite, lvars
  <2>2. \A q \in Proc : /\ pc'[q] \in Inside <=> pc[q] \in Inside
                        /\ pc[q] \in Inside => bf'[q] = bf[q]
    BY DEF RawWrite, pvars, Inside
  <2> QED
    BY <2>1, <2>2, CountKept
<1>7. ContentInv'
  BY DEF ContentInv, RawWrite, pvars, lvars, TypeOK, BlockInv, LockInv, Locked,
     Inside
<1> QED
  BY <1>1, <1>2, <1>3, <1>4, <1>5, <1>6, <1>7

\* bwrite() writes what was last written, and ends there: the mirror is down.
LEMMA BwritePbn0Inv ==
  ASSUME CacheAssumption, FewProcs, MirrorDown, Inner,
         NEW p \in Proc, BwritePbn0(p)
  PROVE  Inner'
<1> USE DEF Inner
<1>0. PICK i \in Buf :
      /\ i = bf[p] /\ pc[p] = "bwrite" /\ blockno[i] = want[p]
      /\ owner[i] = p /\ saved[p] = want[p]
      /\ want[p] \in Pbn /\ NoBlk \notin Pbn
      /\ want[p] < DISK1_START_BLOCK
      /\ disk' = [disk EXCEPT ![want[p]] = data[i]]
      /\ saved' = [saved EXCEPT ![p] = want[p]]
      /\ pc' = [pc EXCEPT ![p] = "unpin"]
      /\ UNCHANGED <<blockno, valid, refcnt, data, owner, lru, call, want,
                     bf, lvars, last>>
  <2>1. /\ bf[p] \in Buf /\ pc[p] = "bwrite" /\ blockno[bf[p]] = want[p]
        /\ owner[bf[p]] = p /\ saved[p] = want[p]
        /\ want[p] \in Pbn /\ NoBlk \notin Pbn
    BY DEF BwritePbn0, TypeOK, BlockInv, LockInv, PlaceInv, Inside, Locked, Called
  <2>2. /\ disk' = [disk EXCEPT ![want[p]] = data[bf[p]]]
        /\ saved' = [saved EXCEPT ![p] = want[p]]
        /\ pc' = [pc EXCEPT ![p] = "unpin"]
        /\ UNCHANGED <<blockno, valid, refcnt, data, owner, lru, call, want,
                       bf, lvars, last>>
    BY <2>1 DEF BwritePbn0, SkipsPbn1, MirrorDown
  <2>3. DISK1_START_BLOCK \in Nat /\ Pbn \subseteq Nat
    BY DEF CacheAssumption
  <2>4. want[p] >= DISK1_START_BLOCK <=> call[p] \in Raw
    BY <2>1 DEF PlaceInv, Called, PCs
  <2>5. call[p] \notin Raw
    BY <2>1 DEF PlaceInv, Raw
  <2>6. want[p] < DISK1_START_BLOCK
    <3>1. want[p] \in Nat
      BY <2>1, <2>3
    <3>2. ~(want[p] >= DISK1_START_BLOCK)
      BY <2>4, <2>5, Zenon
    <3> QED
      BY <2>3, <3>1, <3>2
  <2> QED
    BY <2>1, <2>2, <2>6
\* Nobody else holds the lock.
<1>a. \A q \in Proc : q # p /\ pc[q] \in Locked => bf[q] # i /\ want[q] # want[p]
  BY <1>0 DEF LockInv, BlockInv, Locked, Inside
<1>1. TypeOK'
  BY <1>0 DEF TypeOK, PCs, lvars
<1>2. PlaceInv'
  BY DEF PlaceInv, BwritePbn0, SkipsPbn1, lvars, Called, MirrorDown, PCs
<1>3. BlockInv'
  BY DEF BlockInv, BwritePbn0, SkipsPbn1, lvars, Inside, MirrorDown
<1>4. LockInv'
  BY DEF LockInv, BwritePbn0, Locked, Inside, BlockInv
<1>5. CommitInv'
  BY DEF CommitInv, BwritePbn0, lvars, TypeOK, Called, Busy
<1>6. CountInv'
  <2>1. UNCHANGED <<refcnt, blockno, logged>>
    BY DEF BwritePbn0, SkipsPbn1, lvars, MirrorDown
  <2>2. \A q \in Proc : /\ pc'[q] \in Inside <=> pc[q] \in Inside
                        /\ pc[q] \in Inside => bf'[q] = bf[q]
    BY DEF BwritePbn0, Inside
  <2> QED
    BY <2>1, <2>2, CountKept
<1>7. ContentInv'
  <2>0. data[i] = last[want[p]]
    BY <1>0 DEF ContentInv, Filled, TypeOK
  <2>1. \A j \in Buf : blockno'[j] \in logged' => valid'[j]
    BY <1>0 DEF ContentInv, lvars
  <2>2. \A q \in Proc : pc'[q] \in Filled => valid'[bf'[q]]
    BY <1>0 DEF ContentInv, Filled
  <2>3. \A q \in Proc : pc'[q] = "reading" => ~valid'[bf'[q]]
    BY <1>0 DEF ContentInv
  <2>4. \A j \in Buf : valid'[j] /\ blockno'[j] \in Pbn
                          /\ blockno'[j] < DISK1_START_BLOCK =>
          data'[j] = last'[blockno'[j]]
    BY <1>0 DEF ContentInv
  <2>5. \A n \in Pbn : n < DISK1_START_BLOCK /\ n \notin logged' => disk'[n] = last'[n]
    BY <1>0, <2>0 DEF ContentInv, lvars
  <2>6. \A q \in Proc : pc'[q] = "unpin" => disk'[want'[q]] = last'[want'[q]]
    BY <1>0, <2>0 DEF ContentInv, TypeOK
  <2> QED
    BY <2>1, <2>2, <2>3, <2>4, <2>5, <2>6 DEF ContentInv
<1> QED
  BY <1>1, <1>2, <1>3, <1>4, <1>5, <1>6, <1>7

\* bunpin() takes back the log's reference, after the block is on disk 0.
LEMMA BunpinInv ==
  ASSUME CacheAssumption, FewProcs, MirrorDown, Inner,
         NEW p \in Proc, Bunpin(p)
  PROVE  Inner'
<1> USE DEF Inner
<1>0. PICK i \in Buf :
      /\ i = bf[p] /\ pc[p] = "unpin" /\ blockno[i] = want[p]
      /\ owner[i] = p /\ saved[p] = want[p]
      /\ want[p] \in Pbn /\ NoBlk \notin Pbn
      /\ want[p] \in logged
      /\ refcnt' = [refcnt EXCEPT ![i] = (@ - 1) % RefMod]
      /\ logged' = logged \ {want[p]}
      /\ header' = header \ {want[p]} /\ committing' = (committing /\ logged' # {})
      /\ pc' = [pc EXCEPT ![p] = "release"]
      /\ UNCHANGED <<blockno, valid, data, owner, lru, disk, pvars, last>>
  <2>1. /\ bf[p] \in Buf /\ pc[p] = "unpin" /\ blockno[bf[p]] = want[p]
        /\ owner[bf[p]] = p /\ saved[p] = want[p]
        /\ want[p] \in Pbn /\ NoBlk \notin Pbn
        /\ want[p] \in logged
    BY DEF Bunpin, TypeOK, BlockInv, LockInv, CommitInv, PlaceInv, Inside, Locked,
       Called
  <2>2. /\ refcnt' = [refcnt EXCEPT ![bf[p]] = (@ - 1) % RefMod]
        /\ logged' = logged \ {want[p]}
        /\ header' = header \ {want[p]} /\ committing' = (committing /\ logged' # {})
        /\ pc' = [pc EXCEPT ![p] = "release"]
        /\ UNCHANGED <<blockno, valid, data, owner, lru, disk, pvars, last>>
    BY <2>1 DEF Bunpin, MirrorDown, FallsBack
  <2> QED
    BY <2>1, <2>2
\* Nobody else holds the lock.
<1>a. \A q \in Proc : q # p /\ pc[q] \in Locked => bf[q] # i /\ want[q] # want[p]
  BY <1>0 DEF LockInv, BlockInv, Locked, Inside
<1>1. TypeOK'
  <2>1. (refcnt[i] - 1) % RefMod \in 0..RefMod - 1
    <3>1. refcnt[i] - 1 \in Int /\ RefMod \in Nat \ {0}
      BY DEF TypeOK, CacheAssumption
    <3> QED
      BY <3>1, ModBelow
  <2>2. refcnt' \in [Buf -> 0..RefMod - 1]
    BY <1>0, <2>1 DEF TypeOK
  <2> QED
    BY <1>0, <2>2 DEF TypeOK, PCs, pvars
<1>2. PlaceInv'
  BY DEF PlaceInv, Bunpin, pvars, TypeOK, Called
<1>3. BlockInv'
  BY DEF BlockInv, Bunpin, pvars, Inside
<1>4. LockInv'
  BY DEF LockInv, Bunpin, pvars, Locked
<1>5. CommitInv'
  BY DEF CommitInv, Bunpin, pvars, TypeOK, PlaceInv, Called, Busy
<1>6. CountInv'
  <2>1. \A j \in Buf : Holders(j)' = Holders(j)
    BY <1>0 DEF Holders, Inside, pvars
  <2>2. \A j \in Buf : j # i => refcnt'[j] = refcnt[j] /\ Pin(j)' = Pin(j)
    BY <1>0 DEF Pin, TypeOK, BlockInv
  <2>3. refcnt[i] = Cardinality(Holders(i)) + Pin(i)
    BY DEF CountInv
  <2>4. Pin(i) = 1 /\ Pin(i)' = 0
    BY <1>0 DEF Pin
  <2>5. refcnt[i] - 1 \in 0..RefMod - 1 /\ RefMod \in Nat \ {0}
    BY <2>3, <2>4, HoldersFinite DEF FewProcs, CacheAssumption
  <2>6. refcnt'[i] = refcnt[i] - 1
    <3>1. (refcnt[i] - 1) % RefMod = refcnt[i] - 1
      BY <2>5, ModBelow
    <3> QED
      BY <1>0, <3>1 DEF TypeOK
  <2>7. refcnt'[i] = Cardinality(Holders(i)') + Pin(i)'
    BY <2>1, <2>3, <2>4, <2>6, HoldersFinite
  <2> QED
    BY <2>1, <2>2, <2>7 DEF CountInv
<1>7. ContentInv'
  BY DEF ContentInv, Bunpin, pvars, Filled
<1> QED
  BY <1>1, <1>2, <1>3, <1>4, <1>5, <1>6, <1>7

\* releasesleep() leaves nothing half done.
LEMMA ReleaseInv ==
  ASSUME CacheAssumption, FewProcs, MirrorDown, Inner,
         NEW p \in Proc, Release(p)
  PROVE  Inner'
<1> USE DEF Inner
<1>1. TypeOK'
  BY DEF TypeOK, Release, pvars, lvars, PCs
<1>2. PlaceInv'
  BY DEF PlaceInv, Release, pvars, lvars, TypeOK, Called
<1>3. BlockInv'
  BY DEF BlockInv, Release, pvars, lvars, Inside
<1>4. LockInv'
  BY DEF LockInv, Release, pvars, TypeOK, Locked
<1>5. CommitInv'
  BY DEF CommitInv, Release, pvars, lvars, Busy
<1>6. CountInv'
  <2>1. UNCHANGED <<refcnt, blockno, logged>>
    BY DEF Release, lvars
  <2>2. \A q \in Proc : /\ pc'[q] \in Inside <=> pc[q] \in Inside
                        /\ pc[q] \in Inside => bf'[q] = bf[q]
    BY DEF Release, pvars, Inside
  <2> QED
    BY <2>1, <2>2, CountKept
<1>7. ContentInv'
  BY DEF ContentInv, Release, pvars, lvars, Filled
<1> QED
  BY <1>1, <1>2, <1>3, <1>4, <1>5, <1>6, <1>7

\* brelse() gives back the caller's reference.
LEMMA DropInv ==
  ASSUME CacheAssumption, FewProcs, MirrorDown, Inner,
         NEW p \in Proc, Drop(p)
  PROVE  Inner'
<1> USE DEF Inner
<1>0. PICK i \in Buf :
      /\ i = bf[p] /\ pc[p] = "drop" /\ NoBlk \notin Pbn
      /\ refcnt' = [refcnt EXCEPT ![i] = (@ - 1) % RefMod]
      /\ lru' = lru \/ lru' = ToFront(i)
      /\ pc' = [pc EXCEPT ![p] = "idle"] /\ bf' = [bf EXCEPT ![p] = NoBuf]
      /\ want' = [want EXCEPT ![p] = NoBlk] /\ saved' = [saved EXCEPT ![p] = NoBlk]
      /\ UNCHANGED <<blockno, valid, data, owner, disk, call, lvars, last>>
  BY DEF Drop, LessOne, BlockInv, Inside
<1>1. TypeOK'
  <2>1. (refcnt[i] - 1) % RefMod \in 0..RefMod - 1
    <3>1. refcnt[i] - 1 \in Int /\ RefMod \in Nat \ {0}
      BY DEF TypeOK, CacheAssumption
    <3> QED
      BY <3>1, ModBelow
  <2>2. refcnt' \in [Buf -> 0..RefMod - 1]
    BY <1>0, <2>1 DEF TypeOK
  <2>3. lru' \in [Buf -> Buf] /\ \A j \in Buf : \E k \in Buf : lru'[k] = j
    <3>1. CASE lru' = lru
      BY <3>1 DEF TypeOK
    <3>2. CASE lru' = ToFront(i)
      BY <3>2, FrontKept
    <3> QED
      BY <1>0, <3>1, <3>2
  <2>4. pc' \in [Proc -> PCs] /\ bf' \in [Proc -> 0..NBUF]
    BY <1>0 DEF TypeOK, PCs, NoBuf
  <2> QED
    BY <1>0, <2>2, <2>3, <2>4 DEF TypeOK, lvars
<1>2. PlaceInv'
  BY DEF PlaceInv, Drop, lvars, TypeOK, Called
<1>3. BlockInv'
  BY DEF BlockInv, Drop, lvars, TypeOK, Inside
<1>4. LockInv'
  BY DEF LockInv, Drop, Locked
<1>5. CommitInv'
  BY DEF CommitInv, Drop, lvars, Called, Busy
<1>6. CountInv'
  <2>1. p \in Holders(i) /\ Holders(i)' = Holders(i) \ {p}
    BY <1>0 DEF Holders, TypeOK, Inside
  <2>2. \A j \in Buf : j # i => refcnt'[j] = refcnt[j] /\ Holders(j)' = Holders(j)
    BY <1>0 DEF Holders, TypeOK, Inside
  <2>3. \A j \in Buf : Pin(j)' = Pin(j) /\ Pin(j) \in {0, 1}
    BY <1>0 DEF Pin, lvars
  <2>4. refcnt[i] = Cardinality(Holders(i)) + Pin(i)
    BY DEF CountInv
  <2>5. Cardinality(Holders(i)') = Cardinality(Holders(i)) - 1
    BY <2>1, HoldersFinite, FS_RemoveElement
  <2>6. Cardinality(Holders(i)) # 0
    BY <2>1, HoldersFinite, FS_EmptySet
  <2>7. refcnt[i] - 1 \in 0..RefMod - 1 /\ RefMod \in Nat \ {0}
    BY <2>3, <2>4, <2>6, HoldersFinite DEF FewProcs, CacheAssumption
  <2>8. refcnt'[i] = refcnt[i] - 1
    <3>1. (refcnt[i] - 1) % RefMod = refcnt[i] - 1
      BY <2>7, ModBelow
    <3> QED
      BY <1>0, <3>1 DEF TypeOK
  <2>9. refcnt'[i] = Cardinality(Holders(i)') + Pin(i)'
    BY <2>3, <2>4, <2>5, <2>8, HoldersFinite
  <2> QED
    BY <2>2, <2>3, <2>9 DEF CountInv
<1>7. ContentInv'
  BY DEF ContentInv, Drop, lvars, Filled
<1> QED
  BY <1>1, <1>2, <1>3, <1>4, <1>5, <1>6, <1>7

\* bwrite() does not get to its second transfer.
LEMMA MirrorUnused ==
  ASSUME Inner, NEW p \in Proc, BwritePbn1(p)
  PROVE  FALSE
BY DEF Inner, PlaceInv, BwritePbn1

-----------------------------------------------------------------------------
(* The invariant *)

\* binit() puts every buffer in the list; none stands for a block yet.
LEMMA InitInv ==
  ASSUME CacheAssumption, MirrorDown, Init
  PROVE  Inner
<1>1. TypeOK
  <2>1. lru \in [Buf -> Buf] /\ \A i \in Buf : \E k \in Buf : lru[k] = i
    <3>1. Buf = 1..NBUF /\ NBUF \in Nat \ {0} /\ lru = [i \in Buf |-> NBUF + 1 - i]
      BY DEF Init, Buf, CacheAssumption
    <3>2. ASSUME NEW i \in Buf PROVE NBUF + 1 - i \in Buf /\ lru[NBUF + 1 - i] = i
      BY <3>1
    <3> QED
      BY <3>1, <3>2
  <2>2. refcnt \in [Buf -> 0..RefMod - 1]
    BY DEF Init, CacheAssumption
  <2>3. bf \in [Proc -> 0..NBUF]
    BY DEF Init, NoBuf, CacheAssumption
  <2>4. header \subseteq Pbn /\ last \in [Pbn -> Data] /\ disk \in [Pbn -> Data]
    BY DEF Init, MirrorDown, CacheAssumption
  <2> QED
    BY <2>1, <2>2, <2>3, <2>4 DEF Init, TypeOK, PCs
<1>2. PlaceInv /\ LockInv /\ CommitInv
  BY DEF Init, MirrorDown, PlaceInv, LockInv, Locked, CommitInv, Busy, Called
<1>3. BlockInv
  BY DEF Init, BlockInv, Inside
<1>4. CountInv
  <2>1. \A i \in Buf : Holders(i) = {} /\ Pin(i) = 0 /\ refcnt[i] = 0
    BY DEF Init, Holders, Inside, Pin
  <2> QED
    BY <2>1, FS_EmptySet DEF CountInv
<1>5. ContentInv
  BY DEF Init, MirrorDown, ContentInv, Filled
<1> QED
  BY <1>1, <1>2, <1>3, <1>4, <1>5 DEF Inner

LEMMA StepInv ==
  ASSUME CacheAssumption, FewProcs, MirrorDown, Inner, NEW p \in Proc, Step(p)
  PROVE  Inner'
BY BgetHitInv, BgetRecycleInv, BgetPanicInv, AcquireInv, ReadDoneInv, UseReadInv,
   UseWriteInv, UseInstallInv, RawReadInv, RawWriteInv, RawWriteFailsInv, BwritePbn0Inv,
   BunpinInv, ReleaseInv, DropInv, MirrorUnused DEF Step

LEMMA NextInv ==
  ASSUME CacheAssumption, FewProcs, boot \in Boots, IInv, [Next]_vars
  PROVE  IInv' /\ boot' \in Boots
<1>1. UNCHANGED boot
  BY DEF Next, vars
<1> SUFFICES ASSUME MirrorDown PROVE Inner'
  BY <1>1 DEF IInv, MirrorDown
<1>2. Inner
  BY DEF IInv
<1>3. ASSUME NEW p \in boot.procs, NEW c \in boot.calls, Start(p, c[1], c[2]) PROVE Inner'
  <2>1. p \in Proc /\ c = <<c[1], c[2]>>
    BY DEF CacheAssumption
  <2>2. <<c[1], c[2]>> \in boot.calls
    BY <2>1
  <2> QED
    BY <1>2, <1>3, <2>1, <2>2, StartInv
<1>4. ASSUME NEW p \in boot.procs, Recover(p) PROVE FALSE
  BY <1>2, <1>4 DEF Recover, Inner, PlaceInv
<1>5. ASSUME NEW p \in boot.procs, Step(p) PROVE Inner'
  <2>1. p \in Proc
    BY DEF CacheAssumption
  <2> QED
    BY <1>2, <1>5, <2>1, StepInv
<1>6. ASSUME UNCHANGED vars PROVE Inner'
  <2>1. TypeOK' /\ PlaceInv' /\ BlockInv' /\ LockInv'
    BY <1>2, <1>6 DEF Inner, TypeOK, PlaceInv, BlockInv, LockInv, vars, bvars,
       pvars, lvars
  <2>2. CommitInv' /\ ContentInv'
    BY <1>2, <1>6 DEF Inner, CommitInv, Busy, ContentInv, vars, bvars, pvars, lvars
  <2>3. CountInv'
    BY <1>2, <1>6, CountKept DEF Inner, vars, bvars, pvars, lvars
  <2> QED
    BY <2>1, <2>2, <2>3 DEF Inner
<1> QED
  BY <1>3, <1>4, <1>5, <1>6 DEF Next

LEMMA InvAlways ==
  ASSUME CacheAssumption, FewProcs
  PROVE  Spec => []IInv
<1>1. Init => IInv /\ boot \in Boots
  BY InitInv DEF Init, IInv
<1>2. (IInv /\ boot \in Boots) /\ [Next]_vars => (IInv /\ boot \in Boots)'
  BY NextInv
<1> QED
  BY <1>1, <1>2, PTL DEF Spec

-----------------------------------------------------------------------------
(* Theorems *)

\* With the mirror down, bget() never makes a second buffer of a block and never
\* recycles one under its user, however many processes call bread() and bwrite().
THEOREM BlocksHaveOneBuffer ==
  ASSUME CacheAssumption, FewProcs
  PROVE  Spec => [](MirrorDown => OneBufferPerBlock)
<1>1. IInv => (MirrorDown => OneBufferPerBlock)
  BY DEF IInv, Inner, OneBufferPerBlock, BlockInv, LockInv, Inside, Locked
<1> QED
  BY <1>1, InvAlways, PTL

\* bpin(), bunpin() and brelse() balance: a count is 0 just when bget() may
\* recycle the buffer.
THEOREM CountsBalance ==
  ASSUME CacheAssumption, FewProcs
  PROVE  Spec => [](MirrorDown => RefcntExact)
<1>1. IInv => (MirrorDown => RefcntExact)
  BY DEF IInv, Inner, RefcntExact, CountInv, Holders, Pin
<1> QED
  BY <1>1, InvAlways, PTL

\* What bread() returns is what was last written, and what install_trans() has
\* unpinned is on disk 0, whatever is evicted and read back meanwhile.
THEOREM ReadersSeeLastWrite ==
  ASSUME CacheAssumption, FewProcs
  PROVE  Spec => [](MirrorDown => FreshData)
<1>1. IInv => (MirrorDown => FreshData)
  <2> SUFFICES ASSUME Inner, MirrorDown PROVE FreshData
    BY DEF IInv
  <2>1. InstalledOnDisks
    BY DEF Inner, InstalledOnDisks, ContentInv, MirrorDown
  <2>2. ASSUME NEW p \in Proc, pc[p] = "use" PROVE data[bf[p]] = last[want[p]]
    <3>1. /\ bf[p] \in Buf /\ blockno[bf[p]] = want[p] /\ valid[bf[p]]
          /\ want[p] \in Pbn /\ ~(want[p] >= DISK1_START_BLOCK)
      BY <2>2 DEF Inner, BlockInv, ContentInv, PlaceInv, Inside, Filled, Called, PCs
    <3>2. Pbn \subseteq Nat /\ DISK1_START_BLOCK \in Nat
      BY DEF CacheAssumption
    <3>3. want[p] < DISK1_START_BLOCK
      <4>1. want[p] \in Nat
        BY <3>1, <3>2
      <4> QED
        BY <3>1, <3>2, <4>1
    <3> QED
      BY <3>1, <3>3 DEF Inner, ContentInv
  <2> QED
    BY <2>1, <2>2 DEF FreshData
<1> QED
  BY <1>1, InvAlways, PTL
=============================================================================
