-------------------------------- MODULE Pipe ---------------------------------
(***************************************************************************)
(* A pipe (mp4/kernel/pipe.c) shared by several processes, each of which   *)
(* may hold the read end, the write end or both, with sleep(), wakeup()    *)
(* and kill() of proc.c under it.                                          *)
(*                                                                         *)
(* The pipe's lock is held over many steps: one for each byte and each     *)
(* decision.  A process that has decided to sleep still holds it; sleep()  *)
(* gives it up in the step in which the process falls asleep, because      *)
(* wakeup() and kill() must first take p->lock, which sleep() takes before *)
(* it releases the other.  kill() needs no pipe lock and may come between  *)
(* any two steps.                                                          *)
(***************************************************************************)
EXTENDS Integers, Sequences, FiniteSets

CONSTANTS
  Proc, NoProc,
  Byte,
  PIPESIZE,
  U32,        \* bound: the counters run modulo U32, not 2^32
  MaxBytes    \* bound: bytes of one call

ASSUME PipeAssumption ==
  /\ NoProc \notin Proc
  /\ PIPESIZE \in Nat \ {0} /\ MaxBytes \in Nat
  /\ U32 \in Nat /\ U32 % PIPESIZE = 0 /\ U32 >= 2 * PIPESIZE

VARIABLES
  data, nread, nwrite, readopen, writeopen, freed,   \* struct pipe
  lock,              \* who holds its lock
  rfd, wfd,          \* the processes that have the read and the write end open
  pc, i, n,          \* per process: its place in the code and its locals
  chan,              \* "nread" or "nwrite" while it sleeps
  killed

pipe  == <<data, nread, nwrite>>
ends  == <<readopen, writeopen, freed>>
procs == <<rfd, wfd, pc, i, n, chan, killed>>
vars  == <<pipe, ends, lock, procs>>

Places == {"user", "write", "wsleep", "wasleep", "read", "rsleep", "rasleep", "copy",
           "rclose", "wclose"}

TypeOK ==
  /\ data \in [0..PIPESIZE - 1 -> Byte]
  /\ nread \in 0..U32 - 1 /\ nwrite \in 0..U32 - 1
  /\ readopen \in BOOLEAN /\ writeopen \in BOOLEAN /\ freed \in BOOLEAN
  /\ lock \in Proc \union {NoProc}
  /\ rfd \subseteq Proc /\ wfd \subseteq Proc
  /\ pc \in [Proc -> Places]
  /\ i \in [Proc -> 0..MaxBytes] /\ n \in [Proc -> 0..MaxBytes]
  /\ chan \in [Proc -> {"none", "nread", "nwrite"}]
  /\ killed \in [Proc -> BOOLEAN]

\* pipealloc(), and the fork()s and close()s that gave the ends away.
Init ==
  /\ data \in {[j \in 0..PIPESIZE - 1 |-> c] : c \in Byte}
  /\ nread = 0 /\ nwrite = 0
  /\ readopen = TRUE /\ writeopen = TRUE /\ freed = FALSE
  /\ lock = NoProc
  /\ rfd \in SUBSET Proc \ {{}} /\ wfd \in SUBSET Proc \ {{}}
  /\ pc = [p \in Proc |-> "user"]
  /\ i = [p \in Proc |-> 0] /\ n = [p \in Proc |-> 0]
  /\ chan = [p \in Proc |-> "none"]
  /\ killed = [p \in Proc |-> FALSE]

-----------------------------------------------------------------------------
Empty == nread = nwrite
\* Mutant: one byte too many.
FullLate == nwrite = (nread + PIPESIZE + 1) % U32
Full == nwrite = (nread + PIPESIZE) % U32

More(p) == i[p] < n[p]

\* wakeup(): every process that sleeps on the channel.
Woken(c) == [p \in Proc |-> IF chan[p] = c THEN "none" ELSE chan[p]]

Goto(p, place) == pc' = [pc EXCEPT ![p] = place]

\* Back to user space with the lock released; the locals are dead.
Return(p) ==
  /\ Goto(p, "user")
  /\ lock' = NoProc
  /\ i' = [i EXCEPT ![p] = 0] /\ n' = [n EXCEPT ![p] = 0]

In(p, place) == pc[p] = place /\ lock = p

\* A killed process makes no further call: usertrap() lets it exit().
Enter(p, place) ==
  /\ pc[p] = "user" /\ ~killed[p] /\ lock = NoProc
  /\ lock' = p
  /\ Goto(p, place)
  /\ \E len \in 0..MaxBytes : n' = [n EXCEPT ![p] = len]
  /\ UNCHANGED <<pipe, ends, rfd, wfd, i, chan, killed>>

\* The lock between the decision to sleep and the sleep.
\* Mutant: it is released first.
KeepsNot(p) == NoProc
Keeps(p) == p

-----------------------------------------------------------------------------
(* sleep() on one of the counters, and back *)

Sleep(p, at, asleep, c) ==
  /\ pc[p] = at
  /\ Goto(p, asleep)
  /\ chan' = [chan EXCEPT ![p] = c]
  /\ lock' = IF lock = p THEN NoProc ELSE lock
  /\ UNCHANGED <<pipe, ends, rfd, wfd, i, n, killed>>

Wake(p, asleep, place) ==
  /\ pc[p] = asleep /\ chan[p] = "none" /\ lock = NoProc
  /\ lock' = p
  /\ Goto(p, place)
  /\ UNCHANGED <<pipe, ends, rfd, wfd, i, n, chan, killed>>

\* Wakes process p, whatever it sleeps on.
kill(p) ==
  /\ killed' = [killed EXCEPT ![p] = TRUE]
  /\ chan' = [chan EXCEPT ![p] = "none"]
  /\ UNCHANGED <<pipe, ends, lock, rfd, wfd, pc, i, n>>

-----------------------------------------------------------------------------
(* pipewrite() *)

pipewrite(p) == p \in wfd /\ Enter(p, "write")

WriteByte(p) ==
  /\ In(p, "write") /\ More(p) /\ ~Full
  /\ \E c \in Byte : data' = [data EXCEPT ![nwrite % PIPESIZE] = c]
  /\ nwrite' = (nwrite + 1) % U32
  /\ i' = [i EXCEPT ![p] = @ + 1]
  /\ UNCHANGED <<nread, ends, lock, rfd, wfd, pc, n, chan, killed>>

GiveUp(p) == ~readopen \/ killed[p]

WriteGivesUp(p) ==
  /\ In(p, "write") /\ More(p) /\ Full /\ GiveUp(p)
  /\ Return(p)
  /\ UNCHANGED <<pipe, ends, rfd, wfd, chan, killed>>

WriteMustSleep(p) ==
  /\ In(p, "write") /\ More(p) /\ Full /\ ~GiveUp(p)
  /\ chan' = Woken("nread")
  /\ Goto(p, "wsleep")
  /\ lock' = Keeps(p)
  /\ UNCHANGED <<pipe, ends, rfd, wfd, i, n, killed>>

\* All is written, or copyin() fails.
WriteEnds(p) ==
  /\ In(p, "write") /\ (~More(p) \/ ~Full)
  /\ chan' = Woken("nread")
  /\ Return(p)
  /\ UNCHANGED <<pipe, ends, rfd, wfd, killed>>

-----------------------------------------------------------------------------
(* piperead() *)

piperead(p) == p \in rfd /\ Enter(p, "read")

\* Where a reader goes on after its sleep: while, not if.
AfterSleep == "read"

MustWait == Empty /\ writeopen

ReadGivesUp(p) ==
  /\ In(p, "read") /\ MustWait /\ killed[p]
  /\ Return(p)
  /\ UNCHANGED <<pipe, ends, rfd, wfd, chan, killed>>

ReadMustSleep(p) ==
  /\ In(p, "read") /\ MustWait /\ ~killed[p]
  /\ Goto(p, "rsleep")
  /\ lock' = Keeps(p)
  /\ UNCHANGED <<pipe, ends, rfd, wfd, i, n, chan, killed>>

ReadCopies(p) ==
  /\ In(p, "read") /\ ~MustWait
  /\ Goto(p, "copy")
  /\ UNCHANGED <<pipe, ends, lock, rfd, wfd, i, n, chan, killed>>

\* copyout() may fail: then the byte is gone and the loop is left.
ReadByte(p) ==
  /\ In(p, "copy") /\ More(p) /\ ~Empty
  /\ nread' = (nread + 1) % U32
  /\ \/ i' = [i EXCEPT ![p] = @ + 1] /\ UNCHANGED <<lock, pc, n, chan>>
     \/ chan' = Woken("nwrite") /\ Return(p)
  /\ UNCHANGED <<data, nwrite, ends, rfd, wfd, killed>>

ReadEnds(p) ==
  /\ In(p, "copy") /\ (~More(p) \/ Empty)
  /\ chan' = Woken("nwrite")
  /\ Return(p)
  /\ UNCHANGED <<pipe, ends, rfd, wfd, killed>>

-----------------------------------------------------------------------------
(* fileclose() of an end, by close() or by exit(); the last one of an end     *)
(* calls pipeclose()                                                         *)

CloseRead(p) ==
  /\ pc[p] = "user" /\ p \in rfd
  /\ rfd' = rfd \ {p}
  /\ IF rfd' = {} THEN Goto(p, "rclose") ELSE UNCHANGED pc
  /\ UNCHANGED <<pipe, ends, lock, wfd, i, n, chan, killed>>

CloseWrite(p) ==
  /\ pc[p] = "user" /\ p \in wfd
  /\ wfd' = wfd \ {p}
  /\ IF wfd' = {} THEN Goto(p, "wclose") ELSE UNCHANGED pc
  /\ UNCHANGED <<pipe, ends, lock, rfd, i, n, chan, killed>>

\* Mutant: the wrong channel.
WakesWriters == Woken("nwrite")
WakesReaders == Woken("nread")
LastEnd(r, w) == ~r /\ ~w

pipeclose(p) ==
  /\ lock = NoProc
  /\ \/ pc[p] = "rclose" /\ readopen' = FALSE /\ UNCHANGED writeopen
        /\ chan' = Woken("nwrite")
     \/ pc[p] = "wclose" /\ writeopen' = FALSE /\ UNCHANGED readopen
        /\ chan' = WakesReaders
  /\ freed' = LastEnd(readopen', writeopen')
  /\ Goto(p, "user")
  /\ UNCHANGED <<pipe, lock, rfd, wfd, i, n, killed>>

-----------------------------------------------------------------------------
\* What a process does once it is inside a call.
Write(p) ==
  \/ WriteByte(p) \/ WriteGivesUp(p) \/ WriteMustSleep(p) \/ WriteEnds(p)
  \/ Sleep(p, "wsleep", "wasleep", "nwrite") \/ Wake(p, "wasleep", "write")
Read(p) ==
  \/ ReadGivesUp(p) \/ ReadMustSleep(p) \/ ReadCopies(p) \/ ReadByte(p) \/ ReadEnds(p)
  \/ Sleep(p, "rsleep", "rasleep", "nread") \/ Wake(p, "rasleep", AfterSleep)

Next ==
  \E p \in Proc :
    \/ pipewrite(p) \/ piperead(p) \/ Write(p) \/ Read(p)
    \/ CloseRead(p) \/ CloseWrite(p) \/ pipeclose(p) \/ kill(p)

Spec == Init /\ [][Next]_vars

\* A process inside a call goes on, and gets the lock if it is free again and
\* again.  Nobody is bound to call, and nobody is bound to close.
FairSpec ==
  /\ Spec
  /\ \A p \in Proc : SF_vars(Write(p) \/ Read(p) \/ pipeclose(p))

-----------------------------------------------------------------------------
(* Properties *)

\* The bytes between the counters, oldest first, wherever the counters are in
\* their cycle.
Waiting == [j \in 1..(nwrite - nread + U32) % U32 |-> data[(nread + j - 1) % PIPESIZE]]

\* piperead() returns 0 to a call that asked for bytes.
ReturnsNone(p) == pc[p] = "copy" /\ pc'[p] = "user" /\ n[p] > 0 /\ i[p] = 0

\* A read of some bytes that returns 0 has found the end, no writer left and
\* nothing waiting, or has lost its first byte to a copyout() that failed.
EndIsTheEnd ==
  [][\A p \in Proc : ReturnsNone(p) /\ nread' = nread => Empty /\ wfd = {}]_vars

\* The pipe is a bounded queue of bytes, and its end is the end of what was written.
FIFO == INSTANCE BoundedFifo WITH queue <- Waiting, Capacity <- PIPESIZE
IsFifo == FIFO!Spec /\ EndIsTheEnd

\* Nobody sleeps on a pipe that is ready for him once the lock is free: no
\* wakeup comes before the sleep it is meant for.  A killed writer is the
\* exception: it leaves a full pipe without a wakeup for what it wrote last.
NoLostWakeup ==
  lock = NoProc =>
    \A p \in Proc :
      /\ pc[p] = "rasleep" /\ chan[p] = "nread" =>
           (Empty \/ \E w \in Proc : killed[w]) /\ writeopen
      /\ pc[p] = "wasleep" /\ chan[p] = "nwrite" => Full /\ readopen

\* The pipe's memory is given back when nobody can reach it any more, and then
\* nobody does.
FreedUnused ==
  /\ freed => lock = NoProc /\ \A p \in Proc : pc[p] = "user"
  /\ (rfd # {} => readopen) /\ (wfd # {} => writeopen)

\* A reader that waits comes back when the last writer has gone.
ReaderSeesEnd ==
  \A p \in Proc : pc[p] \in {"read", "rsleep", "rasleep"} /\ ~writeopen ~> pc[p] = "user"
=============================================================================
