# Verification of the OS machine problems

This directory models the parts of the repository that carry its own logic: the
crash-safe log, the RAID-1 block layer, the inodes, links and modes and the disk driver of
**mp4**, the slab allocator and open-file table of **mp2**, the real-time thread library of
**mp3** and the user-level threads of **mp1**. The kernels of mp2, mp3 and mp4 are copies of
xv6 with one assignment each worked into them; what is unchanged xv6 (processes, pipes, the
driver, most of `fs.c`) is modelled from the copy in mp4, on which the assignment's code
runs. TLC checks small instances; the theorems in the `*Proofs` modules are checked by TLAPS
for every value of the constants.

## 1. Inventory

| Component | State | Operations | Hard behaviour | What makes it correct |
|---|---|---|---|---|
| mp4 log (`mp4/kernel/log.c`) | `log.lh`, `outstanding`, `committing`, header and log blocks on disk | `begin_op`, `log_write`, `end_op`, `commit`, `recover_from_log` | group commit shared by many calls; a crash between any two disk transfers; log space; sleeping in `begin_op` | calls reach the disk in whole groups or not at all; no panic; nobody sleeps for ever |
| mp4 buffer cache and RAID-1 layer (`bio.c`, failure hooks in `sysproc.c`, `raw_read`/`raw_write` in `sysfile.c`) | `struct buf` (blockno, valid, refcnt, data, lock), LRU list, `force_disk_fail_id`, `force_read_error_pbn` | `bget`, `bread`, `bwrite`, `brelse`, `bpin`, `bunpin`, `raw_read`, `raw_write` | `b->blockno` is the mirror's while `bwrite` sleeps; flags change between two transfers; pinning | one buffer per block; exact reference counts; fresh data; the two disks agree |
| mp4 virtio driver (`virtio_disk.c`) | descriptor table, `free[]`, `info[]`, avail and used rings | `virtio_disk_rw`, `virtio_disk_intr`, the device | sleepers compete for 8 descriptors, three each; completions in any order; the interrupt's acknowledgement | each request takes place once, on its own buffer; every request ends |
| mp4 inodes and paths (`fs.c`) | inodes with `ref`, `nlink`, type and mode; directory entries | `ialloc`, `iget`, `iput`, `namex`, `dirlink`, `follow_symlink` | paths walked with references only; the last `iput` frees; links inside links | `ref` and `nlink` exact; freed in time; directories are a tree |
| mp4 blocks of files (`fs.c`, `file.c`) | bitmap, `addrs[]` (direct and one singly indirect), contents | `balloc`, `bfree`, `bmap`, `itrunc`, `readi`, `writei`, `fileread`, `filewrite`, `get_disk_lbn` | writes in chunks that others interrupt; `copyin` fails half way; blocks reused with old contents | a used block is in one place; a file reads as a sequence of bytes |
| mp4 file-system calls (`sysfile.c`) | descriptors, current directories | `open` with `O_NOACCESS`, `link`, `unlink`, `mkdir`, `chdir`, `symlink`, `readlink`, `chmod -R`, `close` | two inodes at once, undo of `link`, references kept across calls | as for inodes |
| processes (`proc.c`) | `struct proc`: state, parent, killed, lock | `fork`, `exit`, `reparent`, `wait`, `kill` | exit against wait; parents read without their lock; order of locks | a tree below init; no exit slept through; `exit` and `wait` end |
| pipes (`pipe.c`, `sleep`/`wakeup` of `proc.c`) | ring buffer, counters, `readopen`, `writeopen` | `pipewrite`, `piperead`, `pipeclose`, `kill` | reader and writer sleep on one another, ends close meanwhile, counters wrap | bytes in order, once; no lost wakeup; the end is the end |
| mp1 threads (`mp1/r13922165/threads.c`) | ring of `struct thread`, two `jmp_buf`s each, `signo`, `suspended` | create, add, yield, exit, register, kill, suspend, resume, `schedule`, `dispatch` | signals that arrive at any time, handlers that yield, removal from the ring | one ring; fair turns; a function whose stack is its own goes on where it was left |
| mp2 slabs and files (`mp2/kernel/slab.c`, `file.c`, `kalloc.c`) | slabs on the full, partial and free lists, `in_use`, free lists, `ref` | `kmem_cache_create/alloc/free`, `filealloc`, `filedup`, `fileclose` | slabs that fill and empty in any order, a page given back while others allocate, sharing by `dup` and `fork` | each object has one owner or is free; few empty slabs |
| mp3 real-time threads (`mp3/xv6/user/threads*.c`, `kernel/thrd.c`) | run and release queues, remaining times, deadlines, the `thrdstop` timer | thread creation, arrival, `thread_exit`, the schedulers (default, HRRN, P-RR, DM), expiry | a timer switch against the end of a job, threads moved between queues | queues exact; deadlines missed only when the analysis says so; order of the scheduler |
| mp0, `mkfs`, console, UART, PLIC, `vm.c`, `exec.c`, user programs | – | – | sequential, unchanged xv6, hardware formats, or callers of the kernel | – |

**Interactions.** A system call runs `begin_op`, reads and modifies buffers obtained from
`bread`, calls `log_write` (which pins the buffer), releases them with `brelse`, and runs
`end_op`. The last `end_op` of a group commits: `write_log` copies buffers to the log,
`write_head` makes the group durable, `install_trans` copies it home and unpins. Both disks
are halves of one virtio disk, 0 and `DISK1_START_BLOCK`; `bwrite` writes both and `bread`
falls back to the second. The failure hooks are system calls that set two globals, so they
change at any moment. `bread` and `bwrite` call `virtio_disk_rw`, which sleeps until the
interrupt. Inodes, directories and blocks live in logged buffers. `sleep` and `wakeup` tie
pipes, the driver and `wait` to the process table. In mp2, `filealloc`, `filedup` and
`fileclose` share one cache, and slabs come from the `kalloc` pool that the whole kernel
uses. In mp1, `schedule`, `dispatch` and the thread functions call one another through
`longjmp`; in mp3 the kernel's timer interrupts a thread into the library's handler.

`PROJECT.json` lists the hazards of this code, each at its line, with the properties that
watch it, and says which line each definition stands for.

## 2. Modules

| Module | Models | Abstract specification |
|---|---|---|
| `MirrorLog` | `log.c` on the RAID-1 layer, failure hooks, crash, recovery | `AtomicStore`: a store that changes by whole groups of finished calls |
| `BufCache` | `bio.c` with sleep locks, `raw_read`, `raw_write`, the callers' protocol | – |
| `VirtioDisk` | the driver and (external) the device | `BlockDevice`: between call and return the transfer takes place once |
| `FileTree` | inodes, directories, paths, links and the calls on them | – |
| `FileBlocks` | bitmap, `addrs`, contents, reads and writes in chunks | `ByteFiles`: a file is a sequence of bytes |
| `Processes` | `fork`, `exit`, `wait`, `kill` and the locks of the process table | – |
| `Pipe` | a pipe, byte by byte, with `sleep`, `wakeup`, `kill` | `BoundedFifo` |
| `Slab` | `slab.c`, `file.c`, the `kalloc` pool of mp2 | – |
| `UThreads` | `threads.c` of mp1 | – |
| `RtThreads` | the thread library and schedulers of mp3 on the kernel's timer | reference: response-time analysis (`Demand`) |
| `MC*` | constants for TLC | |
| `MirrorLogProofs`, `BufCacheProofs`, `VirtioProofs`, `ProcessesProofs`, `PipeProofs`, `FilesProofs`, `ThreadsProofs`, `FileTreeProofs` | theorems | |

**How they fit together.** `MirrorLog` takes it that a block has one buffer and that a
transfer is one step; `BufCache` is about the first, `VirtioDisk` shows the second
(`TransfersOnce`, a refinement of `BlockDevice`). `VirtioDisk` lets `sleep` give up a lock
and fall asleep in one step, as `Processes` does; `Pipe` takes sleep and wakeup apart at the
pipe's lock and shows that nothing is lost. `FileTree` and `FileBlocks` take
the newest content of a block for the block, which is what `MirrorLog!AtomicCommit` and
`BufCache!FreshData` say of the layers below; a crash leaves whole calls, so they have none.

### MirrorLog
A step is one critical section of `log.lock` or one disk transfer, so another process, a
change of a failure flag or a crash can come between any two. `home[d]`, `slot[d]` and
`head[d]` are the home blocks, log blocks and header of disk `d`; `cache` and `scache` are
the buffers; `pc` says where a process is in `begin_op .. end_op`; `phase`, `tail` and
`half` are the loops of `write_log` and `install_trans` (`half = 1`: block read and about to
be written to disk 0, `half = 2`: disk 0 done, the mirror still to do). `FsWrite` and
`LogAppend` are the two halves of `log_write`: its tests are made before it takes
`log.lock`. `latest` is a history variable: what `bwrite` last wrote. A header is one block
and its transfer is atomic, as the code assumes.

Eviction follows the count: `EvictHome(b)` is `bget` recycling a buffer with `Refcnt(b) = 0`.
`Pinned` are the blocks that `log_write` has pinned and the commit not yet unpinned; `short`
are those whose count recovery has left one too small (`log.c:80` unpins what nobody has
pinned), so that the next pin only brings it to 0. While such a buffer is in use its count is
0 too, and `bget` may take it from under its user; that is `BufCache`'s part. So the constant
`ReusesRecovered` says whether calls use such blocks at all: with `FALSE`, which is what the
statements about buffers and about what survives need, a call keeps to `Usable` blocks.

`Store == INSTANCE AtomicStore WITH store <- what recovery would make of the disk now,
memory <- what a reader sees now, open <- the calls in progress`: the header transfer to
disk 0 is the abstract `Commit`; everything before and after it in `commit` is a stutter.

### BufCache
`lru` is `bcache.head`, most recent first; `bget` hits or recycles in one step
(`bcache.lock`), then waits for the sleep lock. `BwritePbn0`/`BwritePbn1` and
`Acquire`/`ReadDone` are the two sides of the transfers during which `blockno` may be the
mirror's. `RefMod` is the width of the unsigned `refcnt`. The callers are processes that
read, modify and log (`write` pins), install, access blocks raw or recover; `Boots` is the
set of ways to start. `last` is the history of what was last written in a block.
`RawWriteFails` is a `raw_write` whose `copyin` stops half way, with some of the buffer
overwritten; a `copyout` that fails in `raw_read` leaves the cache as success does.

### VirtioDisk
`vdisk_lock` makes each stretch of `virtio_disk_rw` between two sleeps one step; the device
needs no lock, so `virtio_disk_intr` is a step for each look at the rings, and its
acknowledgement is one of its own (`IntrAck`). `free`, `addr`, `next` and `info` are the
descriptors, `avail` and `used` the rings, emptied slots hold `NoDesc` so that a slot read
twice would show. The
device takes requests in order and ends them in any order; it reads the header through the
descriptor (`HeaderOwner`: the header lies on the stack of the caller that the descriptor
points to), so a mixed-up chain would transfer the wrong block.

### FileTree
A step is what a call does under the locks of one group of inodes. `namex` holds one inode at
a time and only a reference between two steps; `ctx[p]` is the call with the inode it holds
(`ip`), the rest of the path, and for `link` the inode whose count it has raised (`old`).
`inode` is the disk's and the cache's view in one. `lost` and `leaked` are history: a
directory freed with a name in it, and references that `sys_symlink` drops; the invariants
name them as their exceptions. `concat_path` leaves the rest of the path in one static buffer:
while it lies there (`InBuffer`), a concatenation of the same walk may garble it
(`Concatenated`), and one of another process overwrites it between any two steps
(`RestOverwritten`). An empty target makes the rest absolute, as the code's `"/" + rest` does.
`ialloc` panics when no inode is free. `sys_open`'s refusals (a directory opened for writing,
the modes, the device number) are branches of the action, with the put they end in. `chmod -R` is
one step, though the code locks the inodes it visits one after the other
(`sysfile.c:589-615`): it changes modes only, of which the properties see only what a later
walk may read.
`FileTreeAssumption` asks for finitely many processes and names, and for paths in which only
the first element may be `"/"`, as `skipelem` would take them apart.

### FileBlocks
A step maps the blocks of a whole run of bytes (`bmapAll`, one `bmap` after the other, a
recursive function); a block's bytes and, if it is an indirect block, its
addresses are kept when it is freed and zeroed when it is allocated (`bzero`), so a missing zeroing
would show. `addrs` is the cached inode, `daddrs` what `iupdate` left, `Content` what `readi`
would return. `data` is what the buffers hold and `kept` what has been logged of it: `Logs` is
`log_write` of the blocks of a step, and `Recycle` is `bget` taking a buffer whose contents
were never logged, which then revert. When `copyin` fails, `writei` breaks before
`log_write` of the block in hand, so the bytes in front of the `fault` are in its buffer only.
`filewrite` writes in chunks and gives the inode's lock up between two.

### Processes
A step runs from one `acquire` to the next. `Holds(p)` are the locks the process holds
between two steps, `Wants(p)` those it spins on. `reparent` and `wait` read `parent` of one
slot per step, without its lock. RUNNING and RUNNABLE are one state: the scheduler may leave a
process that holds no lock where it is for as long as it likes. `kill` matches unused slots
too, as `kill(0)` does, and `fork` takes a slot with the `killed` it finds; `forkFails` is a
`fork` that gives its slot back through `freeproc`.

### Pipe
A step is one byte or one decision, with `lock` held over many; `wsleep`/`rsleep` is the
point between the decision to sleep and the sleep. `kill` needs no pipe lock and comes at
any time. `nread` and `nwrite` run modulo `U32`, which is a constant. Calls may ask for
0 bytes. `EndIsTheEnd` speaks of every step in which `piperead` returns 0 to a call that asked
for some (`ReturnsNone`), and sets apart the one in which `copyout` lost a first byte.

### Slab
The allocator holds `cache->lock` from end to end, so each call is one step; `filealloc` and
`fileclose` take the lock twice, and `step`/`cur` hold what a process is at in between. The
order within a list is left out (any slab of the list, any object of the free list may come
first), so what is proved holds for every order. `s->list` is one node, so `on[s]` names the
single list it is on. `in_use` of a page that is no slab is `Junk`. `filedup(p, d, q, e)`
covers `dup` (`q = p`) and `fork` (`q` is the child). The rest of the kernel takes and
returns pages at any time.

### UThreads
A step is what the running thread does between two decisions, one turn of the loop in
`schedule`, or one `dispatch`. A place in the code is `<<"fn", n>>` or `<<"handler", n>>`,
`n` counting yields; `env` and `handler_env` hold places. `parent` and `signalled` encode
the rules the assignment gives callers: a thread signals its own children only, each at most
once; a handler calls nothing but `thread_yield` and `thread_exit`. A handler's first frame
goes to the top of the thread's stack (`threads.c:83`): `overwritten` are the threads whose
function had begun by then. What such a function does when it is dispatched again is
undefined: it may go on as if nothing had happened or take the step `GoesAstray`, after which
the program is no longer looked at.

### RtThreads
Only the running thread or the timer's handler acts, so what happens from one expiry to the
next dispatch is one step: a function of the library's variables (`lib`), put together from
`__release`, `__schedule`, `__dispatch` and the handlers. `task` is what `thread_create`,
`thread_set_*` and `thread_add_at` were given, for each thread on its own: a program may mix
real-time threads with others and use any priority. HRRN and P-RR pass over real-time threads,
DM over the others and P-RR over priorities above 5, as the code's `continue`s do; DM with
nobody to choose sets a timer of 0 ticks, which never expires. `Eligible(t)` is what the
properties call a thread that the scheduler may choose; `freed` are the threads whose struct
`__thread_exit` has given back; `since[t]` is the history behind `NotOvertaken`. A thread may
exit at any point of its job. The filters of the code's list loops are `Keep`, a recursive
function, so that they can be proved about.

## 3. Runs

| Run | Instance | Shows |
|---|---|---|
| `log_safe` | 2 processes, 3 blocks, a log of 3 blocks and its header, reservations of 2, crashes, `ReusesRecovered = FALSE`, symmetry | `AtomicCommit` (refinement), `DirtyBlockKept`, `MirrorAgrees`, `CommitIsQuiet`, `NoPanic` |
| `log_raid` | 2 processes, 1 block, any disk or a log block fails, `ReusesRecovered = TRUE`, fairness | `SomeCopyCurrent`, `SleeperWoken` |
| `cache` | 2 buffers, 4 blocks; 2 processes with disk 1 failed, or recovery and then 1 process with both disks | `OneBufferPerBlock`, `RefcntExact`, `FreshData` |
| `disk` | 3 buffers, 8 descriptors, 1 block, counters modulo 16, fairness | `RequestsWhole`, `RequestEnds` |
| `disk_data` | 3 buffers, 8 descriptors, 2 blocks of 2 values, symmetry | `TransfersOnce` (refinement) |
| `files` | 2 processes, 5 inodes, 2 names, directories `a` and `a/b` made before, any 3 calls | `LinksExact`, `RefExact`, `FreedInTime`, `OneParent` |
| `blocks` | 2 processes, 2 files, 5 blocks of 2 bytes, 1 direct and 2 indirect addresses, any 4 calls and any number of reads and recycled buffers | `BitmapExact`, `IsFile` (refinement), `ReadsNeverAllocate` |
| `procs` | 3 slots, fairness | `FamilyTree`, `NoExitMissed`, `ExitEnds`, `WaitReturns` |
| `pipe` | 2 processes with any ends, 2 bytes of room, calls of 0 to 3 bytes, counters modulo 4, fairness | `NoLostWakeup`, `IsFifo` (refinement), `ReaderSeesEnd` |
| `slab` | 2 processes, 3 places each, 4 pages, 2 objects a slab, 1 in the cache page | `SlabsSorted`, `ObjectsAccounted`, `RefExact`, `ClosedOnce`, `FewFree` |
| `uthreads` | 3 threads, 1 signal, 1 yield per function, fairness | `RingLinked`, `ResumedWhereLeft`, `SignalFirst`, `FairTurns` |
| `rt_threads` | 3 threads, the four schedulers, quantum 2, all small tasks, with real-time threads and others mixed, the clock up to 27 | `QueuesExact`, `MissesAsAnalysed`, `NotOvertaken` |

**Why the bounds are enough.** Every interaction of the log involves the group being
committed, one call outside it and one block that both touch: two processes and two blocks
give them all; a third block lets the log fill up. `LOGSIZE`, `NLOG` and `OpBlocks` are as
small as keeps a full log, a full reservation and a group of two calls apart: two reservations
of two blocks fill `LOGSIZE`; a `begin_op` that is too generous lets further calls into the
group, whose blocks fill the `NLOG - 1 = 3` slots of the log, where the next `log_write` meets
the panic of `log.c:226`. `BufCache` needs more
blocks than buffers, so that a buffer is recycled while somebody holds, waits for or has
pinned another. Eight descriptors serve two requests and leave two over, so that the third
finds some but too few. In `FileTree`, two nested directories are the least with a `..` that
can outlive its target, and three calls the least to remove both and walk on; in
`FileBlocks`, five blocks run out with one indirect block in each file. Three slots are init,
a parent and a child. A pipe of two bytes tells full, half full and empty apart, and
counters modulo 4 wrap within one call of three. In `Slab`, two objects per slab give all of
full, partial and empty; 7 objects can be in use, which fills three slabs and the cache page,
so that a slab beyond the two that `MP2_MIN_AVAIL_SLAB` keeps does empty. Three threads are
the smallest ring in which a neighbour's neighbour is somebody else, and the smallest set in
which a response time depends on two others. `MaxYields`, `MaxCalls`, `MaxNest`, `MaxBytes`,
`RefMod`, `U16`, `U32` and `MaxTime` are bounds, named where they are declared. `MaxTime` cuts
runs off only where a thread that the scheduler passes over keeps the main thread polling:
every other program of the instance is at its end by then. Two blocks and two values are the
least with which `disk_data` tells a transfer of the wrong block, or into the wrong buffer,
from the right one; it has no fairness, so that buffers, blocks and values may be permuted.

Larger instances pass without their liveness properties: `Pipe` with three processes (3.8
million states); `Processes` with four slots (1.6 million).

**Deadlock.** `CHECK_DEADLOCK FALSE` is set where the system may stop: a buffer-cache or
file-system panic (`cache`, `files`, `blocks`, which also have a bounded number of calls); all
ends of a pipe closed (`pipe`); all threads gone or suspended (`uthreads`) or a program at its
end (`rt_threads`); and in `procs` init alone, asleep with a zombie that it inherited after the
wakeup meant for it, which the comment in `exit` accepts ("init may miss this wakeup").

**Fairness.** In every `FairSpec` a process inside a call goes on, because the scheduler runs
it again, and nobody is bound to make a call. Strong fairness is used where a step waits for a
lock or a channel that is free again and again: kernel code releases its spinlocks, and
`sleep` loops re-test. `MirrorLog!FairSpec` has weak fairness of the steps of a call and of the
commit, and strong fairness of `EndOp`: a call may write blocks again and again, but only
finitely many. Nothing is assumed of failures or crashes. `VirtioDisk!FairSpec` also lets the
device end what it was asked for and the interrupt be taken when raised. `Processes!FairSpec`
has strong fairness of a process's step inside `wait` and inside `exit`.
`UThreads!FairSpec` assumes only that a turn of `schedule`'s loop is followed by the next.

## 4. What is proved

For all values of the constants that satisfy the modules' named assumptions:

* `MirrorLogProofs`. For all constants, failures and crashes: `LogWellTyped` (`TypeOK`, which
  includes `log.lh.n <= LOGSIZE`) and `CommitAlone` (`CommitIsQuiet`). `TypeOK` is not
  inductive, because `log_write` tests `lh.n` outside the lock. `IInv` adds `QuietInv`
  (`outstanding` counts the open calls; none is open while a commit runs), `LoopInv` (where the
  commit's loops stand) and `AdmitInv`, the reservation argument: `lh.n + outstanding *
  MAXOPBLOCKS` is at most `LOGSIZE` plus the blocks that the open calls have already logged.
  The others have hypotheses, each of which some instance of section 3 satisfies and none of
  which can be dropped (section 5 and the comments at the theorems say what happens without):
  - `RoomForEveryCall` (`NoPanic`): when a call logs fewer than `MAXOPBLOCKS` blocks and than
    the log's last slot, and the log is no shorter than `LOGSIZE`. "Fewer" and not "at most",
    since `log_write` tests `lh.n` before it looks whether the block is in the log already.
    `FitInv` is about the call that is alone: the log holds its own blocks only, or another
    call has left behind what had been reserved for it.
  - `SomeDiskHasIt` (`SomeCopyCurrent`): without crashes, for any failure of a disk; a home
    block that disk 0 refuses while disk 1 has failed is on neither, so not both are allowed.
    (With crashes and a log block that disk 0 refuses, recovery installs what disk 0 had there
    before: `log_raid` with `Crashes = TRUE`.)
    `HalfInv` says that `bwrite` leaves the second transfer out only after the first has taken
    place.
  - `LoggedBuffersKept` (`DirtyBlockKept`) and `LogImplementsAtomicStore` (`AtomicCommit`):
    as long as disk 0 works, with crashes and with failures of disk 1, and for
    `RecoveredLeftAlone` (`~ReusesRecovered`): from a crash to the next, calls use no block
    that the recovery has installed. Before the first crash that excludes nothing. Without it
    both fail after a recovery (section 5, `log.c:80`), so it cannot be dropped either.
    `StoreInv` says for each
    phase what the header names (`HeaderInv`), which log and home blocks have been copied
    (`CopyInv`), and which buffers may differ from what recovery would find (`CacheInv`). In
    the refinement, the transfer of the header to disk 0 is the abstract `Commit`, `FsWrite` is
    `Write`, a crash is `Crash`, and every other step stutters: `install_trans` copies what
    recovery would take from the log anyway, so `Recovered` does not change.
  - `MirrorsAgree` (`MirrorAgrees`): while nothing fails, with crashes, and for
    `RecoveredLeftAlone`; the argument uses what the buffers hold. `MirrorInv` says that
    what `install_trans` has done agrees on both disks.
* `BufCacheProofs`: `BlocksHaveOneBuffer` (`OneBufferPerBlock`), `CountsBalance`
  (`RefcntExact`) and `ReadersSeeLastWrite` (`FreshData`), under `MirrorDown`, that is for the
  boots with `force_disk_fail_id = 1`, no recovery and raw calls on the mirror's blocks only,
  and under `FewProcs` (a `uint` can count all processes and one pin). With both disks the
  statements are false (section 5, `bio.c:193`), so the condition is needed. The argument
  goes round: a buffer with a user or a pin has a count above 0 (`CountInv`), so `bget` does
  not recycle it, so it keeps its block (`BlockInv`), so a sleep lock on the buffer is one on
  the block (`LockInv`), so contents and disk change only under it (`ContentInv`); and what
  `bunpin` unpins is in the log, since one process installs (`CommitInv`).
* `VirtioProofs`: `RequestsKeptWhole` (`RequestsWhole`), `DriverImplementsBlockDevice`
  (`TransfersOnce`), `DescriptorsKept` (`ChainsDisjoint`, the part of `RequestsWhole` about the
  table) and `DescSleeperWoken`. Labels in `addr` tell the chains apart, and
  `Cardinality(FreeDescs) + 3 * Cardinality(Outstanding) = NUM` says that none is lost; from
  it follows that a caller who finds too few has a request to wait for, and that no ring can
  be full. `RInv` is about the rings: `Rings` says that the filled slots are those between the
  two free-running counters, also after these have wrapped (which needs `NUM` to divide
  `U16`), and `Places` that the heads in the avail ring, at the device and in the used ring
  are disjoint and together those of the requests that are out. The device's completion is
  the abstract transfer; it reads the header through the descriptor, so the refinement needs
  that the chain of a request is still labelled with its own buffer.
* `ProcessesProofs`: `TreeBelowInit` (`FamilyTree`), `ExitsSeen` (`NoExitMissed`) and
  `LocksExclude`. For the tree, `ReparentInv` says that the slots behind `reparent`'s scan
  hold no child of the exiting process any more: nobody else can give it one, since only its
  own `fork` could. That no set of parents closes on itself (`NoLoop`) rests on `fork` taking
  a slot that is nobody's parent. For `NoExitMissed`: an exiting process has locked its
  parent unless it has become a child of init since (`LockedParentInv`); `wait` has found no
  zombie of its own in the slots behind it (`ScanInv`); and the two hold the same lock, so by
  `MutualExclusion` they exclude each other.
* `PipeProofs`: `NoWakeupLost` (`NoLostWakeup`), `PipeIsFifo` (`IsFifo`), `FreedWhenUnused`,
  `EndIsEnd` (a read that asked for bytes returns 0 only at the end, or when `copyout` lost its
  first byte; part of `IsFifo`) and `PipeWellTyped`.
  `LockInv` ties the lock to the place in the code, `EndsInv` the two flags to who holds the
  ends, and `SleepInv` says that what a process saw when it decided to sleep holds while it
  sleeps, or that the holder of the lock is at a place from which it will wake it. `GiveUp` is
  the hard case: it needs `EndsInv` to exclude a sleeping reader whose end is closed. For
  `PipeIsFifo`, `RoomInv` says that the writer is at most one buffer ahead and where in the
  buffer it will write; it rests on the lemmas about counters modulo a multiple of the
  buffer's size (`CounterNext`), which `VirtioProofs` states for its rings as well.
* `FilesProofs` (the open files of mp2 and the blocks of files of mp4).
  - Of `Slab`: the five properties of the run and `SlabWellTyped`. The invariant is the
    conjunction of what the processes know (`OwnerInv`), what the cache knows (`CacheInv`) and
    `Agree`, which ties them: an object of a slab is on its free list exactly when nobody has
    it, and nobody has one outside the slabs. A slab is given back only when its free list is
    full, so `Agree` says that nobody has an object in it.
  - Of `FileBlocks`: `BlocksAccounted` (`BitmapExact`), `ReadsAllocateNothing`
    (`ReadsNeverAllocate`) and `FilesAreBytes` (`IsFile`, the refinement of `ByteFiles`), for any
    numbers of processes, files, blocks and addresses. `BlocksInductive` joins `Apart` (a
    block is at one spot of one inode, and marked used), `Accounted` (a marked block is at a
    spot or was allocated by `get_disk_lbn`), `Saved` (the inode on disk has the blocks that the
    cached one has, except those of `get_disk_lbn`) and `NoHole` (below its size a file has
    every block, on disk as well). A step calls `bmap` once for each block of a
    run; that each call keeps the invariant, and so the whole run, is `RunInduction`: if some
    prefix of the run broke it there would be a shortest one, which by `bmap`'s lemma cannot be.
    The refinement needs `Apart`: a byte that is written through one file's address must not
    be another file's, nor an address in an indirect block. `ByteFiles` has what a file reads as
    (`content`) and what stays of it (`kept`): the two are the same until a copy fails; each
    failure parts them by fewer than `BSIZE` bytes in front of the fault, which a recycled buffer
    takes back. What a chunk logs includes every block it has finished.
* `ThreadsProofs` (the threads of mp1 and those of mp3).
  - Of `UThreads`: `ThreadsWellTyped`, `RingStaysLinked`, `SignalsFirst`,
    `FunctionsResumed`. `SignalInv` (the running thread cannot be signalled, since only its
    parent, which is another thread, may) is what makes `thread_yield`'s choice of the jmp_buf
    right; `PlaceInv` says that `env` is where the function was left, also while its handler runs.
    `FunctionsResumed` is about functions whose stack no handler has used (not in
    `overwritten`): that includes a function whose handler ran, and yielded, before it began.
  - Of `RtThreads`: `ThreadsQueued` (`QueuesExact`) and `RulesObeyed` (`NotOvertaken`), under
    each of the four schedulers and for any tasks: real-time or not, any period or -1, any
    arrival and any priority. `QueuesExact` lets the processor idle only when nobody who is
    ready is `Eligible`; one whom the scheduler passes over may wait for ever, and does.
    `Between` says what holds from one step to the next, and `Ready` what holds inside one:
    nobody is in two lists (`OneQueue`), who is in the run queue has ticks left and has arrived
    (`Jobs`), and `Turns`, which P-RR needs: who has had a turn since `t` waits stands behind
    `t`, except a thread that is about to run to its end. Only `Whole` (who is not freed is in a
    list) fails inside a step, between the two list calls of a finished cycle. A step is a chain
    of `__release`, the removal or requeueing of the current thread, `__schedule` and
    `__dispatch`; each has its lemma, and `Scheduled` is what the four schedulers have in
    common. For HRRN the ratios are compared by cross-multiplication; `BeatsOrder` shows that
    this is transitive for positive burst times, so a best thread exists (`BestQueued`), and
    that a thread which came earlier and needs no more beats the later one. What `Keep` does to
    a queue (its entries, their order) is shown without induction: if some prefix broke it there
    would be a shortest one.

* `FileTreeProofs`: the four properties of the run, `LinksCounted` (`LinksExact`), `RefsCounted`
  (`RefExact`), `FreedNotTooSoon` (`FreedInTime`) and `DirectoriesAreATree` (`OneParent`), for
  any number of processes, inodes and calls, any names, paths and links and any first chain of
  directories. None of the four is inductive alone: what `iput` frees depends on both counts,
  what `nlink` counts on the shape of the directories, and the shape on nothing being freed that
  has a name. `FreedInTime` excepts what stays allocated in the code without a name or a holder:
  files whose name went with a removed directory (`lost`), and removed directories that a
  subdirectory counts as a link to. `Sound(t, a, s)` joins them for a table `t` of inodes, with
  `a` the links that `link` calls have announced and `s` the references that are held: the
  directories have their shape (`Shape`), `nlink` is what claims a link and not less even when a
  directory was freed with names in it (`Links`), what has no link is held (`InTime`), and `ref`
  is `s` plus what has leaked. A handler does several of `iget`, `iput`, `dirlink`, ... in one
  step, so each of these has a lemma that says how it changes `t`, `a` and `s` and keeps
  `Sound`, and an action is proved by chaining them. `IInv` is `Sound` of the processes' own
  pointers (`Refs`, `Ann`), plus what a call may be at which place (`Right`). `link` is the hard
  case: between the two locked sections of its one transaction (`sysfile.c:124-154`) the inode
  has one link more than names, nobody holds its lock, and it may be unlinked by another
  process, but not freed, because the call still holds its reference.

Only model-checked:
* all liveness properties (`SleeperWoken`, `FairTurns`, `ExitEnds`, `WaitReturns`,
  `RequestEnds`, `ReaderSeesEnd`), which are out of the prover's reach;
* recovery in `BufCache`, and the instances with both disks of `cache`;
* `MissesAsAnalysed`: its reference is a fold over a set, and that a response time below the
  deadline suffices is an argument about whole schedules, not about one step.

## 5. Where the code and its documents disagree

The runs pass because their instances or exceptions leave these out; each entry says how to
see it. `PROJECT.json` quotes the lines.

Log, cache and disk:
* `log.c:80` – recovery unpins buffers nobody pinned; the count wraps and the next logged update
  can be recycled before it is committed. `MirrorLog` with `ReusesRecovered = TRUE`, one
  process, two blocks, `LOGSIZE = MAXOPBLOCKS = OpBlocks = 2`, `NLOG = 4` and crashes:
  `DirtyBlockKept` and `AtomicCommit` fail, after 23 and more states. `BufCache` with
  `DISK1_START_BLOCK = 3` and a recovered boot that may write block 0 again (`MCBufCache` leaves
  that call out): `FreshData` fails.
* `bio.c:135` – with disk 0 failed, `bread` reads the mirror over a valid, logged buffer.
  `MirrorLog` with `FailIds = {-1, 0}`: `DirtyBlockKept` fails.
* `bio.c:193` – while `b->blockno` is the mirror's, `bget` makes a second buffer for the block.
  `BufCache` with both processes and both disks: `OneBufferPerBlock` fails.
* `log.c:226` – `log_write` panics at `log.size - 1`, below what `begin_op` admits, since `mkfs`
  counts the header in `nlog`. `MirrorLog` with `NLOG = LOGSIZE = MAXOPBLOCKS =
  OpBlocks = 2`: `NoPanic` fails.
* `sysfile.c:805` – `raw_read` overwrites a logged, uncommitted buffer (the instance makes raw
  calls on the mirror only).
* `virtio_disk.c:274` – a completion between the last look and the acknowledgement is
  acknowledged unseen (`Swallowed`, the exception in `RequestEnds`).

Processes and pipes:
* `proc.c:385` – `exit` locks a slot that may be another process's by now: four slots can spin
  on one another. `Processes` with `NPROC = 4` reaches `LockCycle` (check `~LockCycle` as an
  invariant; about 40 s); with three slots it does not, so there the exception in
  `ExitEnds` and `WaitReturns` never applies.
* `proc.c:643` – `kill(0)` matches the first unused slot and marks it killed; the next process in
  it starts out killed (so `FamilyTree` says nothing of `killed` in unused slots).
* `pipe.c:94` – a killed writer leaves a full pipe without waking the readers (the exception in
  `NoLostWakeup`).

File system:
* `sysfile.c:243` – names are made in directories that have been removed (`lost` in `LinksExact`
  and `FreedInTime`); a subdirectory made there (`sysfile.c:275`) keeps the removed directory
  allocated (`Subdirs` in `FreedInTime`).
* `fs.c:316` – the `..` of a removed directory may be a freed inode (`WalkPanics`,
  `FoundPanics`, `CreatePanics` of `FileTree`).
* `sysfile.c:711` – `sys_symlink` leaks the inode of an existing path (`leaked` in `RefExact`).
* `sysfile.c:654`, `sysfile.c:761` – `chmod` and `readlink` on dangling links panic, and
  `readlink` reads a link it has put (`NotFound`, `ReadLast`).
* `fs.c:807`, `fs.c:736` – links inside paths are not counted, and are joined in one static
  buffer (`MaxNest`, `Concatenated`, `RestOverwritten`).
* `sysfile.c:839` – `get_disk_lbn` maps blocks outside a transaction (`byLbn` in `BitmapExact`).
* `fs.c:547` – `writei` reports a failed copy as done.

Threads:
* mp1 `threads.c:140` – `thread_exit` dispatches a suspended thread: in `UThreads`, the step of
  `thread_exit` leads to `dispatch` of a thread in `suspended`.
* mp1 `threads.c:83` – a handler's first frame is put on the stack the interrupted function is
  using (`overwritten`, `GoesAstray`; the exception in `ResumedWhereLeft`).
* mp3 `threads_sched.c:119` – P-RR runs a thread that is alone in its group to its end, above a
  higher priority that arrives; priorities above 5 are never selected.
* mp3 `threads_sched.c:223` – DM with only other threads ready sets a timer of 0 ticks, which
  never expires: real-time threads in the release queue are not released any more.
* mp3 `threads.c:90` – threads that end in the handler never give their timer context back.

Recorded as hazards without a property: `schedule` of mp1 never ends when all threads are
suspended; `kmem_cache_create` does not ask whether an object fits behind
`struct kmem_cache` (the assumption `ObjsInCache # 0` of `Slab`); a caller may lose every race
for three descriptors; `mkfs` fills disk 0 only, so the mirror properties are about blocks
that have been written (`latest`).

## 6. Not modelled

* mp0: a sequential program; `mkfs`: its effect is `Init` of `MirrorLog`; user programs and
  tests: they say which calls and failures to model.
* Virtual memory, `exec`, console, UART, PLIC, `printf`, `start`, traps: unchanged xv6 over
  hardware formats. Which CPU runs what, the memory model and interrupts inside a critical
  section are left out: spinlocks are taken to exclude.
* `schedule_edf_cbs` of mp3 is an empty body in the repository. A tick between `thrdstop` and
  `thrdresume` is left out: the handler and the dispatch after it are one step.
* `kmem_cache_destroy` is a stub; `filestat`, `mknod` and `dup` of mp4 do not touch what
  `FileTree` keeps. A full inode cache (`iget: no inodes`) is not modelled.
* Failures of disk 1 together with crashes are in no run (the theorems of `MirrorLogProofs`
  cover them), nor is the use of a block that recovery has installed, except as the
  counterexample of section 5.
* What a function does with a stack that a handler has used, and stacks otherwise.
* Coverage: `src/` holds four copies of the same kernel and user programs (mp1 to mp4, with the
  tests of each). One copy of each shared component is modelled, the one in mp4; the other
  copies differ only in the assignment's own files, and the user programs and tests, about a
  third of all lines, are callers. The map therefore cannot reach more than a modest share of
  all lines in the repository.

## 7. What is left

1. `FileTree` with the inode cache as a table of `NINODE` entries, and a crash between two calls
   that holds an unlinked inode (the orphan stays allocated).
2. `RtThreads` with a tick inside the handler, on the contexts of `thrd.c`.
