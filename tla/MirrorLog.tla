----------------------------- MODULE MirrorLog -----------------------------
(***************************************************************************)
(* The write-ahead log of mp4 (kernel/log.c) on the RAID-1 block layer     *)
(* (bread and bwrite of kernel/bio.c): system calls between begin_op() and *)
(* end_op(), group commit, the simulated failures of disk 0, of disk 1 and *)
(* of one block, a crash between any two disk writes and the recovery that *)
(* follows it.                                                             *)
(*                                                                         *)
(* Disk 0 holds physical block b, disk 1 its mirror b + DISK1_START_BLOCK: *)
(* home[0][b] and home[1][b].  slot[d][i] is log block i (log.start + i)   *)
(* and head[d] the header block (log.start).  One step is one critical     *)
(* section of log.lock or one disk transfer, so that other processes and a *)
(* crash can come in between.  The buffer cache is taken to hand out one   *)
(* buffer per block; module BufCache is about that.                        *)
(***************************************************************************)
EXTENDS Integers, Sequences, FiniteSets

CONSTANTS
  Proc,        \* processes that make file-system calls
  Block,       \* home blocks, all that is on the disk except the log
  Value,       \* contents of a block
  Zero,        \* the block of zeros mkfs writes everywhere first
  NoVal,       \* "not in the buffer cache"
  LOGSIZE,     \* param.h: length of logheader.block[]
  MAXOPBLOCKS, \* param.h: blocks begin_op() reserves for a call
  NLOG,        \* superblock nlog: blocks of the on-disk log, with the header
  OpBlocks,    \* blocks a system call really writes, at most
  FailIds,     \* values sys_force_disk_fail() is called with
  BadAddrs,    \* blocks sys_force_fail() is called with
  Crashes,     \* TRUE when the machine may crash
  ReusesRecovered \* TRUE when calls use the blocks recovery has installed

ASSUME ConstantsAssumption ==
  /\ IsFiniteSet(Proc)
  /\ LOGSIZE \in Nat \ {0} /\ MAXOPBLOCKS \in Nat \ {0}
  /\ NLOG \in Nat \ {0} /\ OpBlocks \in 0..MAXOPBLOCKS
  /\ Zero \in Value /\ NoVal \notin Value \cup Block
  /\ FailIds \subseteq {-1, 0, 1}
  /\ Crashes \in BOOLEAN /\ ReusesRecovered \in BOOLEAN

VARIABLES
  home, slot, head,   \* the two disks
  cache, scache,      \* buffered contents of home blocks and log blocks
  short,              \* the home blocks whose buffer's refcnt is one too small
  lh,                 \* log.lh: the home blocks logged so far
  outstanding, committing, \* log.outstanding, log.committing
  pc,                 \* where each process is in begin_op .. end_op
  wblk,               \* the block whose buffer a process holds in log_write()
  wrote,              \* the blocks a process has written in its call
  phase, tail, half,  \* the commit (or the recovery) and its loop variable
  fid,                \* bwrite()'s local fail_disk
  fail, bad,          \* force_disk_fail_id, force_read_error_pbn
  latest              \* history: what bwrite() last wrote in each home block

disks  == <<home, slot, head>>
bufs   == <<cache, scache, short>>
opvars == <<outstanding, committing, pc, wblk, wrote>>
cvars  == <<phase, tail, half, fid>>
flags  == <<fail, bad>>
vars   == <<disks, bufs, lh, opvars, cvars, flags, latest>>

Disk == {0, 1}
Slot == 1..LOGSIZE
HomeAddr(b) == <<"home", b>>
SlotAddr(i) == <<"slot", i>>
HeadAddr == <<"head", 0>>
NoAddr == <<"none", 0>>

SeqRange(s) == {s[i] : i \in 1..Len(s)}

\* The block the commit or recovery loop is at.
Cur == lh[tail + 1]

\* Recovery: initlog() runs before the first process reaches user space.
Booting == phase # "idle" /\ ~committing

\* A buffer somebody has locked: by log_write()'s caller, or by the loop of
\* write_log() or install_trans() from its bread() to its brelse().
Locked(b) ==
  \/ \E p \in Proc : pc[p] \in {"logging", "panicked"} /\ wblk[p] = b
  \/ phase \in {"log", "install"} /\ half # 0 /\ Cur = b

\* The blocks that log_write() has pinned and install_trans() not yet unpinned.
Pinned ==
  IF Booting THEN {}
  ELSE IF phase = "install" THEN {lh[i] : i \in tail+1..Len(lh)}
  ELSE SeqRange(lh)

\* refcnt of the buffer of b while nobody uses it.  install_trans() calls
\* bunpin() in recovery too, where nothing was pinned (log.c:80): refcnt then
\* wraps below 0, and every later pin of the block brings it back to 0 only.
Refcnt(b) == (IF b \in Pinned THEN 1 ELSE 0) - (IF b \in short THEN 1 ELSE 0)

\* A block a call may use.  While a buffer that is one short is in use its
\* refcnt is 0 and bget() may take it from under its user, which is left to
\* BufCache; without ReusesRecovered, calls keep away from such blocks.
Usable(b) == ReusesRecovered \/ b \notin short

(***************************************************************************)
(* The block layer: which disk bread() reads and bwrite() skips.           *)
(***************************************************************************)
FallsBack(a) == fail = 0 \/ bad = a

BreadHome(b) ==
  IF FallsBack(HomeAddr(b)) THEN home[1][b]
  ELSE IF cache[b] # NoVal THEN cache[b] ELSE home[0][b]

BreadSlot(i) ==
  IF FallsBack(SlotAddr(i)) THEN slot[1][i]
  ELSE IF scache[i] # NoVal THEN scache[i] ELSE slot[0][i]

\* Mutants of the test in front of bwrite()'s second transfer: the global flag
\* is read again; recovery writes the first disk only.
SkipsPbn1Resampled == fail = 1
SkipsPbn1AtBoot == fid = 1 \/ ~committing

\* bwrite()'s fail_disk == 1.
SkipsPbn1 == fid = 1

Init ==
  /\ home \in [Disk -> [Block -> Value]]
  /\ home[1] = [b \in Block |-> Zero]     \* mkfs fills disk 0 only
  /\ slot = [d \in Disk |-> [i \in Slot |-> Zero]]
  /\ head = [d \in Disk |-> <<>>]
  /\ cache = [b \in Block |-> NoVal]
  /\ scache = [i \in Slot |-> NoVal]
  /\ short = {}
  /\ lh = <<>>
  /\ outstanding = 0 /\ committing = FALSE
  /\ pc = [p \in Proc |-> "out"]
  /\ wblk = [p \in Proc |-> NoVal]
  /\ wrote = [p \in Proc |-> {}]
  /\ phase = "boot" /\ tail = 0 /\ half = 0 /\ fid = -1
  /\ fail = -1 /\ bad = NoAddr
  /\ latest = [b \in Block |-> NoVal]

(***************************************************************************)
(* System calls.                                                           *)
(***************************************************************************)
\* Mutant: begin_op() forgets to count the call that is about to begin.
LogFullBefore == Len(lh) + outstanding * MAXOPBLOCKS > LOGSIZE

LogFull == Len(lh) + (outstanding + 1) * MAXOPBLOCKS > LOGSIZE

\* Mutant: a commit in progress does not hold a call back.
MustWaitForSpace == LogFull

MustWait == committing \/ LogFull

\* wakeup(&log)
Woken == [q \in Proc |-> IF pc[q] = "asleep" THEN "woken" ELSE pc[q]]

BeginOpSleep(p) ==
  /\ ~Booting /\ pc[p] \in {"out", "woken"}
  /\ MustWait
  /\ pc' = [pc EXCEPT ![p] = "asleep"]
  /\ UNCHANGED <<disks, bufs, lh, outstanding, committing, wblk, wrote, cvars,
                 flags, latest>>

BeginOp(p) ==
  /\ ~Booting /\ pc[p] \in {"out", "woken"}
  /\ ~MustWait
  /\ outstanding' = outstanding + 1
  /\ pc' = [pc EXCEPT ![p] = "in"]
  /\ UNCHANGED <<disks, bufs, lh, committing, wblk, wrote, cvars, flags, latest>>

\* log_write()'s checks, which read log.lh.n and log.outstanding without
\* holding log.lock.
TooBig == Len(lh) >= LOGSIZE \/ Len(lh) >= NLOG - 1
LogWritePanics == TooBig \/ outstanding < 1

\* bread(), a change to b->data, and log_write() up to acquire(&log.lock).
FsWrite(p, b, v) ==
  /\ pc[p] = "in" /\ ~Locked(b) /\ Usable(b)
  /\ Cardinality(wrote[p] \cup {b}) <= OpBlocks
  /\ cache' = [cache EXCEPT ![b] = v]
  /\ wblk' = [wblk EXCEPT ![p] = b]
  /\ wrote' = [wrote EXCEPT ![p] = @ \cup {b}]
  /\ pc' = [pc EXCEPT ![p] = IF LogWritePanics THEN "panicked" ELSE "logging"]
  /\ UNCHANGED <<disks, scache, short, lh, outstanding, committing, cvars, flags,
                 latest>>

\* The critical section of log_write(): absorb, or append and pin; brelse().
LogAppend(p) ==
  /\ pc[p] = "logging"
  /\ lh' = IF wblk[p] \in SeqRange(lh) THEN lh ELSE Append(lh, wblk[p])
  /\ pc' = [pc EXCEPT ![p] = "in"] /\ wblk' = [wblk EXCEPT ![p] = NoVal]
  /\ UNCHANGED <<disks, bufs, outstanding, committing, wrote, cvars, flags,
                 latest>>

\* The last end_op() goes on to commit(); the others wake up the sleepers.
EndOp(p) ==
  /\ pc[p] = "in"
  /\ outstanding' = outstanding - 1
  /\ committing' = (committing \/ outstanding = 1)
  /\ wrote' = [wrote EXCEPT ![p] = {}]
  /\ IF committing
     THEN pc' = [pc EXCEPT ![p] = "panicked"] /\ UNCHANGED <<phase, tail, half>>
     ELSE IF outstanding = 1
     THEN /\ pc' = [pc EXCEPT ![p] = "commit"]
          /\ phase' = IF lh = <<>> THEN "done" ELSE "log"
          /\ tail' = 0 /\ half' = 0
     ELSE pc' = [Woken EXCEPT ![p] = "out"] /\ UNCHANGED <<phase, tail, half>>
  /\ UNCHANGED <<disks, bufs, lh, wblk, fid, flags, latest>>

\* Mutant: end_op() does not call wakeup(&log) after the commit.
EndOpDoneSilent(p) ==
  /\ pc[p] = "commit" /\ phase = "done"
  /\ committing' = FALSE /\ phase' = "idle"
  /\ pc' = [pc EXCEPT ![p] = "out"]
  /\ UNCHANGED <<disks, bufs, lh, outstanding, wblk, wrote, tail, half, fid, flags,
                 latest>>

EndOpDone(p) ==
  /\ pc[p] = "commit" /\ phase = "done"
  /\ committing' = FALSE /\ phase' = "idle"
  /\ pc' = [Woken EXCEPT ![p] = "out"]
  /\ UNCHANGED <<disks, bufs, lh, outstanding, wblk, wrote, tail, half, fid, flags,
                 latest>>

\* A reader outside any transaction (sys_read, sys_fstat): bread(), brelse().
FsRead(b) ==
  /\ ~Booting /\ ~Locked(b) /\ Usable(b)
  /\ cache' = [cache EXCEPT ![b] = BreadHome(b)]
  /\ UNCHANGED <<disks, scache, short, lh, opvars, cvars, flags, latest>>

\* Mutant: log_write() without bpin(), so a logged buffer can be recycled.
EvictUnpinned(b) ==
  /\ cache[b] # NoVal /\ ~Locked(b)
  /\ cache' = [cache EXCEPT ![b] = NoVal]
  /\ UNCHANGED <<disks, scache, short, lh, opvars, cvars, flags, latest>>

\* bget() recycles a buffer with refcnt 0.
EvictHome(b) ==
  /\ cache[b] # NoVal /\ Refcnt(b) = 0 /\ ~Locked(b)
  /\ cache' = [cache EXCEPT ![b] = NoVal]
  /\ UNCHANGED <<disks, scache, short, lh, opvars, cvars, flags, latest>>

EvictSlot(i) ==
  /\ scache[i] # NoVal
  /\ ~(phase \in {"log", "install"} /\ half # 0 /\ i = tail + 1)
  /\ scache' = [scache EXCEPT ![i] = NoVal]
  /\ UNCHANGED <<disks, cache, short, lh, opvars, cvars, flags, latest>>

SetDiskFail(f) ==
  /\ ~Booting /\ fail' = f
  /\ UNCHANGED <<disks, bufs, lh, opvars, cvars, bad, latest>>

SetBadBlock(a) ==
  /\ ~Booting /\ bad' = a
  /\ UNCHANGED <<disks, bufs, lh, opvars, cvars, fail, latest>>

(***************************************************************************)
(* commit() and recover_from_log(): half is 0 before the buffer of this    *)
(* turn of the loop is filled, 1 before bwrite() writes disk 0 and 2       *)
(* before it writes disk 1.                                                *)
(***************************************************************************)

\* write_log(): bread the log block and the cached block, memmove.
LoadLog ==
  /\ phase = "log" /\ half = 0
  /\ \A p \in Proc : ~(pc[p] \in {"logging", "panicked"} /\ wblk[p] = Cur)
  /\ cache' = [cache EXCEPT ![Cur] = BreadHome(Cur)]
  /\ scache' = [scache EXCEPT ![tail + 1] = BreadHome(Cur)]
  /\ half' = 1
  /\ UNCHANGED <<disks, short, lh, opvars, phase, tail, fid, flags, latest>>

\* install_trans(): bread the log block and its home block, memmove.
LoadHome ==
  /\ phase = "install" /\ half = 0
  /\ \A p \in Proc : ~(pc[p] \in {"logging", "panicked"} /\ wblk[p] = Cur)
  /\ scache' = [scache EXCEPT ![tail + 1] = BreadSlot(tail + 1)]
  /\ cache' = [cache EXCEPT ![Cur] = BreadSlot(tail + 1)]
  /\ half' = 1
  /\ UNCHANGED <<disks, short, lh, opvars, phase, tail, fid, flags, latest>>

\* bwrite(): sample the flags, write the block of disk 0 unless it is failed.
BwritePbn0 ==
  /\ half = 1
  /\ half' = 2 /\ fid' = fail
  /\ \/ /\ phase = "log"
        /\ slot' = IF FallsBack(SlotAddr(tail + 1)) THEN slot
                   ELSE [slot EXCEPT ![0][tail + 1] = scache[tail + 1]]
        /\ UNCHANGED <<home, head>>
     \/ /\ phase \in {"head", "clear"}
        /\ head' = IF FallsBack(HeadAddr) THEN head ELSE [head EXCEPT ![0] = lh]
        /\ UNCHANGED <<home, slot>>
     \/ /\ phase = "install"
        /\ home' = IF FallsBack(HomeAddr(Cur)) THEN home
                   ELSE [home EXCEPT ![0][Cur] = cache[Cur]]
        /\ UNCHANGED <<slot, head>>
  /\ UNCHANGED <<bufs, lh, opvars, phase, tail, flags, latest>>

\* bwrite(), second disk, then the end of the loop body that called it.
Pbn1Log ==
  /\ phase = "log" /\ half = 2
  /\ slot' = IF SkipsPbn1 THEN slot ELSE [slot EXCEPT ![1][tail + 1] = scache[tail + 1]]
  /\ IF tail + 1 < Len(lh)
     THEN phase' = "log" /\ tail' = tail + 1 /\ half' = 0
     ELSE phase' = "head" /\ tail' = 0 /\ half' = 1
  /\ fid' = -1
  /\ UNCHANGED <<home, head, bufs, lh, opvars, flags, latest>>

Pbn1Head ==
  /\ phase = "head" /\ half = 2
  /\ head' = IF SkipsPbn1 THEN head ELSE [head EXCEPT ![1] = lh]
  /\ phase' = "install" /\ tail' = 0 /\ half' = 0
  /\ fid' = -1
  /\ UNCHANGED <<home, slot, bufs, lh, opvars, flags, latest>>

\* With bunpin() and brelse(); the last turn is followed by log.lh.n = 0.
Pbn1Home ==
  /\ phase = "install" /\ half = 2
  /\ home' = IF SkipsPbn1 THEN home ELSE [home EXCEPT ![1][Cur] = cache[Cur]]
  /\ latest' = [latest EXCEPT ![Cur] = cache[Cur]]
  /\ short' = IF committing THEN short ELSE short \cup {Cur}
  /\ IF tail + 1 < Len(lh)
     THEN phase' = "install" /\ tail' = tail + 1 /\ half' = 0 /\ lh' = lh
     ELSE phase' = "clear" /\ tail' = 0 /\ half' = 1 /\ lh' = <<>>
  /\ fid' = -1
  /\ UNCHANGED <<slot, head, cache, scache, opvars, flags>>

Pbn1Clear ==
  /\ phase = "clear" /\ half = 2
  /\ head' = IF SkipsPbn1 THEN head ELSE [head EXCEPT ![1] = lh]
  /\ phase' = IF committing THEN "done" ELSE "idle"
  /\ tail' = 0 /\ half' = 0
  /\ fid' = -1
  /\ UNCHANGED <<home, slot, bufs, lh, opvars, flags, latest>>

\* Mutant: recovery forgets install_trans().
ReadHeadNoInstall ==
  /\ phase = "boot"
  /\ lh' = <<>> /\ phase' = "clear" /\ half' = 1 /\ tail' = 0
  /\ UNCHANGED <<disks, bufs, opvars, fid, flags, latest>>

\* recover_from_log(), its read_head(); an empty header is written back too.
ReadHead ==
  /\ phase = "boot"
  /\ lh' = head[0]
  /\ IF head[0] = <<>> THEN phase' = "clear" /\ half' = 1
                       ELSE phase' = "install" /\ half' = 0
  /\ tail' = 0
  /\ UNCHANGED <<disks, bufs, opvars, fid, flags, latest>>

\* Memory is lost, the two disks stay; the flags are globals and start at -1.
Crash ==
  /\ Crashes /\ phase # "boot"
  /\ cache' = [b \in Block |-> NoVal] /\ scache' = [i \in Slot |-> NoVal]
  /\ short' = {}
  /\ lh' = <<>> /\ outstanding' = 0 /\ committing' = FALSE
  /\ pc' = [p \in Proc |-> "out"] /\ wrote' = [p \in Proc |-> {}]
  /\ phase' = "boot" /\ tail' = 0 /\ half' = 0 /\ fid' = -1
  /\ fail' = -1 /\ bad' = NoAddr
  /\ wblk' = [p \in Proc |-> NoVal]
  /\ UNCHANGED <<disks, latest>>

CommitStep == \/ LoadLog \/ LoadHome \/ BwritePbn0 \/ Pbn1Log \/ Pbn1Head
              \/ Pbn1Home \/ Pbn1Clear \/ ReadHead

OpStep(p) == \/ BeginOpSleep(p) \/ BeginOp(p) \/ LogAppend(p)
             \/ EndOp(p) \/ EndOpDone(p)

Next ==
  \/ \E p \in Proc : OpStep(p)
  \/ \E p \in Proc, b \in Block, v \in Value : FsWrite(p, b, v)
  \/ \E b \in Block : FsRead(b) \/ EvictHome(b)
  \/ \E i \in Slot : EvictSlot(i)
  \/ \E f \in FailIds : SetDiskFail(f)
  \/ \E a \in BadAddrs \cup {NoAddr} : SetBadBlock(a)
  \/ CommitStep
  \/ Crash

Spec == Init /\ [][Next]_vars

\* A call that has begun ends (its writes are finitely many, so however often
\* it returns to "in"), and the commit or the recovery goes on: each is kernel
\* code of a process that the scheduler runs again.  Nothing makes a process
\* begin a call, fail a disk, read a block or crash.
FairSpec ==
  /\ Spec
  /\ WF_vars(CommitStep)
  /\ \A p \in Proc : /\ WF_vars(LogAppend(p)) /\ WF_vars(EndOpDone(p))
                      /\ SF_vars(EndOp(p))

(***************************************************************************)
(* Properties.                                                             *)
(***************************************************************************)
PCs == {"out", "asleep", "woken", "in", "logging", "commit", "panicked"}
Phases == {"boot", "idle", "log", "head", "install", "clear", "done"}

\* The state has its type; logs and headers fit logheader.block[LOGSIZE].
TypeOK ==
  /\ home \in [Disk -> [Block -> Value]]
  /\ slot \in [Disk -> [Slot -> Value]]
  /\ head \in [Disk -> Seq(Block)] /\ \A d \in Disk : Len(head[d]) <= LOGSIZE
  /\ lh \in Seq(Block) /\ Len(lh) <= LOGSIZE
  /\ cache \in [Block -> Value \cup {NoVal}]
  /\ scache \in [Slot -> Value \cup {NoVal}] /\ short \subseteq Block
  /\ outstanding \in Int /\ committing \in BOOLEAN
  /\ pc \in [Proc -> PCs]
  /\ wblk \in [Proc -> Block \cup {NoVal}]
  /\ wrote \in [Proc -> SUBSET Block]
  /\ phase \in Phases /\ tail \in Nat /\ half \in {0, 1, 2}
  /\ fid \in {-1} \cup FailIds /\ fail \in {-1} \cup FailIds
  /\ latest \in [Block -> Value \cup {NoVal}]

\* What recover_from_log() makes of block b if the machine crashes now: the
\* logged copy when the header of disk 0 names b, else the home copy.
Recovered(b) ==
  LET logged == {i \in 1..Len(head[0]) : head[0][i] = b}
  IN  IF logged = {} THEN home[0][b] ELSE slot[0][CHOOSE i \in logged : TRUE]

\* What a process reads in block b: the buffer, else the disk.
View(b) == IF cache[b] # NoVal THEN cache[b] ELSE Recovered(b)

Store == INSTANCE AtomicStore WITH
  store <- [b \in Block |-> Recovered(b)],
  memory <- [b \in Block |-> View(b)],
  open <- {p \in Proc : pc[p] \in {"in", "logging", "panicked"}}

\* The log implements the atomic store: what survives a crash changes only
\* when the header of a whole group of finished calls reaches disk 0
\* (log.c:6-12), whatever is torn in between.  Without ReusesRecovered: a write
\* of a block that recovery installed is not pinned and may be lost.
AtomicCommit == Store!Spec

\* Once a block has been written to both disks, the disks differ in it only
\* while the header of disk 0 still names it, so that recovery will write
\* both copies again (bwrite()'s two transfers inside install_trans()).
MirrorAgrees ==
  \A b \in Block : latest[b] # NoVal =>
    home[0][b] = home[1][b] \/ b \in SeqRange(head[0])

\* While one disk at a time is failed and no crash comes, what bwrite() last
\* wrote in a home block is on one of the disks, however the flags change
\* between its two transfers and between the turns of the loop.
SomeCopyCurrent ==
  \A b \in Block :
    \/ latest[b] \in {NoVal, home[0][b], home[1][b]}
    \/ phase = "install" /\ half = 2 /\ b = Cur

\* commit() runs with no system call in progress and in one process only
\* (log.c:13-16 and end_op()'s hand-over through log.committing).
CommitIsQuiet ==
  \A p, q \in Proc :
    pc[p] = "commit" /\ pc[q] \in {"in", "logging", "commit"} => p = q

\* None of the panics of log_write() and end_op() is reached: begin_op()
\* admits only calls whose blocks fit the log (log.c:18-21).
NoPanic == \A p \in Proc : pc[p] # "panicked"

\* A logged block keeps in its buffer what its last writer put there until
\* it is installed: commit() can "copy modified blocks from cache to log"
\* (log.c:185) because log_write() has pinned the buffer.  With ReusesRecovered
\* this is false: the pin of a block that recovery unpinned is lost.
DirtyBlockKept ==
  [][\A b \in Pinned :
       b \in Pinned' /\ cache'[b] # cache[b] =>
         \E p \in Proc : wblk[p] # b /\ wblk'[p] = b]_vars

\* A process that sleeps in begin_op() is woken: end_op() and the end of a
\* commit call wakeup(&log) whenever room or the commit it waits for changed.
SleeperWoken == \A p \in Proc : pc[p] = "asleep" ~> pc[p] # "asleep"
=============================================================================
