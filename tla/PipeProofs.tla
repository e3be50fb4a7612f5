----------------------------- MODULE PipeProofs -----------------------------
(***************************************************************************)
(* Theorems of Pipe, for any processes, bytes, size of the buffer, and     *)
(* width of the counters.                                                  *)
(***************************************************************************)
EXTENDS Pipe, SequenceTheorems, TLAPS

(* nread and nwrite: counters that wrap around. *)

LEMMA DivMod ==
  ASSUME NEW m \in Nat \ {0}, NEW x \in Int
  PROVE  x % m \in 0..m - 1 /\ x \div m \in Int /\ x = (m * (x \div m)) + (x % m)
  OBVIOUS

\* A number has one remainder.
LEMMA ModUnique ==
  ASSUME NEW m \in Nat \ {0}, NEW q \in Int, NEW p \in Int,
         NEW r \in 0..m - 1, NEW s \in 0..m - 1, m * q + r = m * p + s
  PROVE  r = s
<1>1. m * (q - p) = s - r /\ s - r < m /\ s - r > -m
  OBVIOUS
<1>2. CASE q - p >= 1
  <2>1. m * (q - p) >= m
    BY <1>2
  <2> QED
    BY <1>1, <2>1
<1>3. CASE q - p <= -1
  <2>1. m * (q - p) <= -m
    BY <1>3
  <2> QED
    BY <1>1, <2>1
<1>4. CASE q - p = 0
  BY <1>1, <1>4
<1> QED
  BY <1>2, <1>3, <1>4

\* A counter below m is its own remainder.
LEMMA ModBelow ==
  ASSUME NEW m \in Nat \ {0}, NEW x \in 0..m - 1
  PROVE  x % m = x
<1>1. m * (x \div m) + (x % m) = m * 0 + x /\ x % m \in 0..m - 1 /\ x \div m \in Int
  BY DivMod
<1> QED
  BY <1>1, ModUnique

\* A counter that is moved by less than m wraps around at most once.
LEMMA ModPlus ==
  ASSUME NEW m \in Nat \ {0}, NEW x \in Nat, NEW d \in 0..m - 1
  PROVE  (x + d) % m = IF (x % m) + d < m THEN (x % m) + d ELSE (x % m) + d - m
<1> DEFINE q == x \div m
           r == x % m
           p == (x + d) \div m
           s == (x + d) % m
<1>1. r \in 0..m - 1 /\ q \in Int /\ x = m * q + r
  BY DivMod
<1>2. s \in 0..m - 1 /\ p \in Int /\ x + d = m * p + s
  <2>1. x + d \in Int
    OBVIOUS
  <2> QED
    BY <2>1, DivMod
<1> HIDE DEF q, r, p, s
<1>3. CASE r + d < m
  <2>1. r + d \in 0..m - 1 /\ m * q + (r + d) = m * p + s
    BY <1>1, <1>2, <1>3
  <2>2. r + d = s
    BY <1>1, <1>2, <2>1, ModUnique
  <2> QED
    BY <1>3, <2>2 DEF r, s
<1>4. CASE r + d >= m
  <2>1. r + d - m \in 0..m - 1 /\ q + 1 \in Int
    BY <1>1, <1>4
  <2>2. m * (q + 1) + (r + d - m) = m * p + s
    BY <1>1, <1>2
  <2>3. r + d - m = s
    BY <1>2, <2>1, <2>2, ModUnique
  <2> QED
    BY <1>1, <1>4, <2>3 DEF r, s
<1> QED
  BY <1>1, <1>3, <1>4

\* A counter that runs modulo a multiple of m may be taken modulo m.
Wraps(m, w) == m \in Nat \ {0} /\ w \in Nat \ {0} /\ w % m = 0
Ticks(c, d, w) == c \in 0..w - 1 /\ d = (c + 1) % w

LEMMA ModNext ==
  ASSUME NEW m \in Nat \ {0}, NEW x \in Nat
  PROVE  (x + 1) % m = IF (x % m) + 1 = m THEN 0 ELSE (x % m) + 1
<1>1. x % m \in 0..m - 1
  BY DivMod
<1>2. CASE m = 1
  <2>1. x % 1 \in 0..0 /\ (x + 1) % 1 \in 0..0
    BY DivMod
  <2> QED
    BY <1>2, <2>1
<1>3. CASE m > 1
  <2>1. 1 \in 0..m - 1
    BY <1>3
  <2>2. (x + 1) % m = IF (x % m) + 1 < m THEN (x % m) + 1 ELSE (x % m) + 1 - m
    BY <2>1, ModPlus
  <2> QED
    BY <1>1, <2>2
<1> QED
  BY <1>2, <1>3

LEMMA CounterNext ==
  ASSUME NEW m, NEW w, NEW c, NEW d, Wraps(m, w), Ticks(c, d, w)
  PROVE  /\ m <= w /\ c % m \in 0..m - 1 /\ d \in 0..w - 1 /\ d % m \in 0..m - 1
         /\ (c + 1 = w => d = 0) /\ (c + 1 # w => d = c + 1)
         /\ ((c % m) + 1 = m => d % m = 0)
         /\ ((c % m) + 1 # m => d % m = (c % m) + 1)
<1> USE DEF Wraps, Ticks
<1>1. m <= w
  <2>1. CASE w < m
    <3>1. w \in 0..m - 1
      BY <2>1
    <3> QED
      BY <3>1, ModBelow
  <2> QED
    BY <2>1
<1>2. c % m \in 0..m - 1 /\ (c + 1) % m = IF (c % m) + 1 = m THEN 0 ELSE (c % m) + 1
  <2>1. m \in Nat \ {0} /\ c \in Nat
    OBVIOUS
  <2>2. c % m \in 0..m - 1
    BY <2>1, DivMod
  <2>3. (c + 1) % m = IF (c % m) + 1 = m THEN 0 ELSE (c % m) + 1
    BY <2>1, ModNext, Zenon
  <2> QED
    BY <2>2, <2>3
<1>3. d = IF c + 1 = w THEN 0 ELSE c + 1
  <2>1. w \in Nat \ {0} /\ c \in Nat /\ c % w = c
    BY ModBelow
  <2>2. (c + 1) % w = IF (c % w) + 1 = w THEN 0 ELSE (c % w) + 1
    BY <2>1, ModNext, Zenon
  <2> QED
    BY <2>1, <2>2
<1>4. 0 % m = 0
  <2>1. 0 \in 0..m - 1
    OBVIOUS
  <2> QED
    BY <2>1, ModBelow
<1>5. CASE c + 1 = w
  BY <1>1, <1>2, <1>3, <1>4, <1>5
<1>6. CASE c + 1 # w
  BY <1>1, <1>2, <1>3, <1>6
<1> QED
  BY <1>5, <1>6
-----------------------------------------------------------------------------
InWrite == {"write", "wsleep"}
InRead  == {"read", "rsleep", "copy"}

\* Who is between acquire() and release() has the lock, and nobody else.
LockInv ==
  /\ \A p \in Proc : pc[p] \in InWrite \union InRead => lock = p
  /\ lock # NoProc => pc[lock] \in InWrite \union InRead

\* The calls of a process are on ends that it has open; an end is open in
\* struct pipe until its last holder is inside pipeclose().
EndsInv ==
  /\ \A p \in Proc : pc[p] \in InRead \union {"rasleep"} => p \in rfd
  /\ \A p \in Proc : pc[p] \in InWrite \union {"wasleep"} => p \in wfd
  /\ rfd # {} => readopen
  /\ wfd # {} => writeopen
  /\ \A p \in Proc : pc[p] = "rclose" => rfd = {} /\ readopen
  /\ \A p \in Proc : pc[p] = "wclose" => wfd = {} /\ writeopen
  /\ \A p, q \in Proc : pc[p] \in {"rclose", "wclose"} /\ pc[q] = pc[p] => p = q
  /\ freed = LastEnd(readopen, writeopen)

WriterIn == lock # NoProc /\ pc[lock] = "write"
ReaderIn == lock # NoProc /\ pc[lock] = "copy"

\* What a process has seen when it decides to sleep holds while it sleeps, or
\* who is changing it will wake it up.
SleepInv ==
  /\ \A p \in Proc : pc[p] = "rsleep" => Empty /\ writeopen
  /\ \A p \in Proc : pc[p] = "wsleep" => Full /\ readopen
  /\ \A p \in Proc : pc[p] = "rasleep" /\ chan[p] = "nread" =>
       writeopen /\ (Empty \/ WriterIn \/ \E w \in Proc : killed[w])
  /\ \A p \in Proc : pc[p] = "wasleep" /\ chan[p] = "nwrite" =>
       readopen /\ (Full \/ ReaderIn)

\* A reader that has copied nothing found bytes, or the end.
CopyInv ==
  \A p \in Proc : pc[p] = "copy" /\ i[p] = 0 => ~MustWait

IInv == TypeOK /\ LockInv /\ EndsInv /\ SleepInv /\ CopyInv

-----------------------------------------------------------------------------
\* pipealloc() leaves an empty pipe with both ends open.
LEMMA InitInv ==
  ASSUME PipeAssumption, Init
  PROVE  IInv
<1>1. TypeOK
  <2>1. data \in [0..PIPESIZE - 1 -> Byte]
    BY DEF Init
  <2>2. nread \in 0..U32 - 1 /\ nwrite \in 0..U32 - 1
    BY DEF Init, PipeAssumption
  <2>3. i \in [Proc -> 0..MaxBytes] /\ n \in [Proc -> 0..MaxBytes]
    <3>1. 0 \in 0..MaxBytes
      BY DEF PipeAssumption
    <3> QED
      BY <3>1 DEF Init
  <2>4. /\ pc \in [Proc -> Places] /\ killed \in [Proc -> BOOLEAN]
        /\ chan \in [Proc -> {"none", "nread", "nwrite"}]
    BY DEF Init, Places
  <2>5. lock \in Proc \union {NoProc} /\ rfd \subseteq Proc /\ wfd \subseteq Proc
    BY DEF Init
  <2> QED
    BY <2>1, <2>2, <2>3, <2>4, <2>5 DEF Init, TypeOK
<1>2. LockInv /\ EndsInv /\ SleepInv /\ CopyInv
  BY DEF Init, LockInv, EndsInv, SleepInv, CopyInv, LastEnd, InWrite, InRead
<1> QED
  BY <1>1, <1>2 DEF IInv

\* The counters stay below U32, and one of them taken modulo the size of the
\* buffer is an index into it.
LEMMA CounterRange ==
  ASSUME PipeAssumption, NEW c \in 0..U32 - 1
  PROVE  /\ (c + 1) % U32 \in 0..U32 - 1
         /\ c % PIPESIZE \in 0..PIPESIZE - 1
  BY DEF PipeAssumption

\* The count of bytes done stays in the range of the count asked for.
LEMMA RoomLeft ==
  ASSUME PipeAssumption, TypeOK, NEW p \in Proc, More(p)
  PROVE  i[p] + 1 \in 0..MaxBytes
<1>1. i[p] \in 0..MaxBytes /\ n[p] \in 0..MaxBytes /\ MaxBytes \in Nat
  BY DEF TypeOK, PipeAssumption
<1> QED
  BY <1>1 DEF More

\* Every step leaves the state well typed.
LEMMA StepType ==
  ASSUME PipeAssumption, TypeOK, [Next]_vars
  PROVE  TypeOK'
<1>0. MaxBytes \in Nat
  BY DEF PipeAssumption
<1>01. 0 \in 0..MaxBytes
  BY <1>0
<1>1. CASE UNCHANGED vars
  BY <1>1 DEF TypeOK, vars, pipe, ends, procs
<1> SUFFICES ASSUME NEW p \in Proc,
                    \/ pipewrite(p) \/ piperead(p) \/ Write(p) \/ Read(p)
                    \/ CloseRead(p) \/ CloseWrite(p) \/ pipeclose(p) \/ kill(p)
             PROVE  TypeOK'
  BY <1>1 DEF Next
<1>2. CASE pipewrite(p) \/ piperead(p)
  <2>1. n' \in [Proc -> 0..MaxBytes]
    BY <1>2 DEF pipewrite, piperead, Enter, TypeOK
  <2>2. pc' \in [Proc -> Places]
    BY <1>2 DEF pipewrite, piperead, Enter, Goto, TypeOK, Places
  <2> QED
    BY <1>2, <2>1, <2>2 DEF pipewrite, piperead, Enter, TypeOK, pipe, ends
<1>3. CASE WriteByte(p)
  <2>1. nwrite' \in 0..U32 - 1 /\ nwrite % PIPESIZE \in 0..PIPESIZE - 1
    <3>1. nwrite \in 0..U32 - 1 /\ nwrite' = (nwrite + 1) % U32
      BY <1>3 DEF WriteByte, TypeOK
    <3> QED
      BY <3>1, CounterRange
  <2>2. i' \in [Proc -> 0..MaxBytes]
    BY <1>0, <1>3, RoomLeft DEF WriteByte, TypeOK
  <2>3. data' \in [0..PIPESIZE - 1 -> Byte]
    BY <1>3, <2>1 DEF WriteByte, TypeOK
  <2> QED
    BY <1>3, <2>1, <2>2, <2>3 DEF WriteByte, TypeOK, ends
<1>4. CASE WriteGivesUp(p) \/ WriteMustSleep(p) \/ WriteEnds(p)
  <2>1. i' \in [Proc -> 0..MaxBytes] /\ n' \in [Proc -> 0..MaxBytes]
    BY <1>01, <1>4 DEF WriteGivesUp, WriteMustSleep, WriteEnds, Return, TypeOK
  <2>2. pc' \in [Proc -> Places]
    BY <1>4 DEF WriteGivesUp, WriteMustSleep, WriteEnds, Return, Goto, TypeOK, Places
  <2>3. chan' \in [Proc -> {"none", "nread", "nwrite"}]
    BY <1>4 DEF WriteGivesUp, WriteMustSleep, WriteEnds, Woken, TypeOK
  <2> QED
    BY <1>4, <2>1, <2>2, <2>3
       DEF WriteGivesUp, WriteMustSleep, WriteEnds, Return, Keeps, TypeOK, pipe, ends
<1>5. CASE ReadGivesUp(p) \/ ReadMustSleep(p) \/ ReadCopies(p) \/ ReadEnds(p)
  <2>1. i' \in [Proc -> 0..MaxBytes] /\ n' \in [Proc -> 0..MaxBytes]
    <3>1. CASE ReadGivesUp(p) \/ ReadEnds(p)
      <4>1. i' = [i EXCEPT ![p] = 0] /\ n' = [n EXCEPT ![p] = 0]
        BY <3>1 DEF ReadGivesUp, ReadEnds, Return
      <4> QED
        BY <1>01, <4>1 DEF TypeOK
    <3>2. CASE ReadMustSleep(p) \/ ReadCopies(p)
      BY <3>2 DEF ReadMustSleep, ReadCopies, TypeOK
    <3> QED
      BY <1>5, <3>1, <3>2
  <2>2. pc' \in [Proc -> Places]
    BY <1>5 DEF ReadGivesUp, ReadMustSleep, ReadCopies, ReadEnds, Return, Goto, TypeOK, Places
  <2>3. chan' \in [Proc -> {"none", "nread", "nwrite"}]
    BY <1>5 DEF ReadGivesUp, ReadMustSleep, ReadCopies, ReadEnds, Woken, TypeOK
  <2> QED
    BY <1>5, <2>1, <2>2, <2>3
       DEF ReadGivesUp, ReadMustSleep, ReadCopies, ReadEnds, Return, Keeps, TypeOK, pipe, ends
<1>6. CASE ReadByte(p)
  <2>1. nread' \in 0..U32 - 1
    BY <1>6, CounterRange DEF ReadByte, TypeOK
  <2>2. i' \in [Proc -> 0..MaxBytes] /\ n' \in [Proc -> 0..MaxBytes]
    <3>1. i[p] + 1 \in 0..MaxBytes
      BY <1>0, <1>6, RoomLeft DEF ReadByte
    <3> QED
      BY <1>01, <1>6, <3>1 DEF ReadByte, Return, TypeOK
  <2>3. /\ lock' \in Proc \union {NoProc} /\ pc' \in [Proc -> Places]
        /\ chan' \in [Proc -> {"none", "nread", "nwrite"}]
    <3>1. pc' = pc \/ pc' = [pc EXCEPT ![p] = "user"]
      BY <1>6 DEF ReadByte, Return, Goto
    <3>2. chan' = chan \/ chan' = Woken("nwrite")
      BY <1>6 DEF ReadByte
    <3>3. lock' = lock \/ lock' = NoProc
      BY <1>6 DEF ReadByte, Return
    <3> QED
      BY <3>1, <3>2, <3>3 DEF Woken, TypeOK, Places
  <2> QED
    BY <1>6, <2>1, <2>2, <2>3 DEF ReadByte, TypeOK, ends
<1>7. ASSUME NEW at, NEW asleep \in Places, NEW c \in {"nread", "nwrite"}, Sleep(p, at, asleep, c)
      PROVE  TypeOK'
  BY <1>7 DEF Sleep, Goto, TypeOK, pipe, ends
<1>8. ASSUME NEW asleep, NEW place \in Places, Wake(p, asleep, place)
      PROVE  TypeOK'
  BY <1>8 DEF Wake, Goto, TypeOK, pipe, ends
<1>9. CASE CloseRead(p) \/ CloseWrite(p)
  BY <1>9 DEF CloseRead, CloseWrite, Goto, TypeOK, Places, pipe, ends
<1>10. CASE pipeclose(p)
  BY <1>10 DEF pipeclose, WakesReaders, Woken, LastEnd, Goto, TypeOK, Places, pipe
<1>11. CASE kill(p)
  BY <1>11 DEF kill, TypeOK, pipe, ends
<1> QED
  BY <1>2, <1>3, <1>4, <1>5, <1>6, <1>7, <1>8, <1>9, <1>10, <1>11
     DEF Write, Read, AfterSleep, Places

-----------------------------------------------------------------------------
\* acquire() and release() are paired in every call.
LEMMA StepLock ==
  ASSUME PipeAssumption, TypeOK, LockInv, [Next]_vars
  PROVE  LockInv'
<1> USE DEF LockInv, InWrite, InRead
<1>1. CASE UNCHANGED vars
  BY <1>1 DEF vars, procs
<1> SUFFICES ASSUME NEW p \in Proc,
                    \/ pipewrite(p) \/ piperead(p) \/ Write(p) \/ Read(p)
                    \/ CloseRead(p) \/ CloseWrite(p) \/ pipeclose(p) \/ kill(p)
             PROVE  LockInv'
  BY <1>1 DEF Next
<1>2. NoProc \notin Proc /\ pc \in [Proc -> Places] /\ lock \in Proc \union {NoProc}
  BY DEF PipeAssumption, TypeOK
<1>3. CASE pipewrite(p) \/ piperead(p)
  BY <1>2, <1>3 DEF pipewrite, piperead, Enter, Goto
<1>4. CASE WriteByte(p) \/ WriteGivesUp(p) \/ WriteMustSleep(p) \/ WriteEnds(p)
  BY <1>2, <1>4 DEF WriteByte, WriteGivesUp, WriteMustSleep, WriteEnds, In, Keeps, Return, Goto
<1>5. CASE ReadGivesUp(p) \/ ReadMustSleep(p) \/ ReadCopies(p) \/ ReadByte(p) \/ ReadEnds(p)
  BY <1>2, <1>5 DEF ReadGivesUp, ReadMustSleep, ReadCopies, ReadByte, ReadEnds, In, Keeps,
                    Return, Goto
<1>6. CASE Sleep(p, "wsleep", "wasleep", "nwrite") \/ Sleep(p, "rsleep", "rasleep", "nread")
  BY <1>2, <1>6 DEF Sleep, Goto
<1>7. CASE Wake(p, "wasleep", "write") \/ Wake(p, "rasleep", "read")
  BY <1>2, <1>7 DEF Wake, Goto
<1>8. CASE CloseRead(p) \/ CloseWrite(p)
  BY <1>2, <1>8 DEF CloseRead, CloseWrite, Goto
<1>9. CASE pipeclose(p)
  BY <1>2, <1>9 DEF pipeclose, Goto
<1>10. CASE kill(p)
  BY <1>10 DEF kill
<1> QED
  BY <1>3, <1>4, <1>5, <1>6, <1>7, <1>8, <1>9, <1>10 DEF Write, Read, AfterSleep

\* The kernel's count of the ends agrees with who has them open: pipeclose()
\* is called once for an end, after its last holder has let go of it.
LEMMA StepEnds ==
  ASSUME PipeAssumption, TypeOK, EndsInv, [Next]_vars
  PROVE  EndsInv'
<1> USE DEF EndsInv, InWrite, InRead, LastEnd
<1>1. CASE UNCHANGED vars
  BY <1>1 DEF vars, ends, procs
<1> SUFFICES ASSUME NEW p \in Proc,
                    \/ pipewrite(p) \/ piperead(p) \/ Write(p) \/ Read(p)
                    \/ CloseRead(p) \/ CloseWrite(p) \/ pipeclose(p) \/ kill(p)
             PROVE  EndsInv'
  BY <1>1 DEF Next
<1>2. pc \in [Proc -> Places]
  BY DEF TypeOK
<1>3. CASE pipewrite(p) \/ piperead(p)
  BY <1>2, <1>3 DEF pipewrite, piperead, Enter, Goto, ends
<1>4. CASE WriteByte(p) \/ WriteGivesUp(p) \/ WriteMustSleep(p) \/ WriteEnds(p)
  BY <1>2, <1>4 DEF WriteByte, WriteGivesUp, WriteMustSleep, WriteEnds, In, Return, Goto, ends
<1>5. CASE ReadGivesUp(p) \/ ReadMustSleep(p) \/ ReadCopies(p) \/ ReadByte(p) \/ ReadEnds(p)
  BY <1>2, <1>5 DEF ReadGivesUp, ReadMustSleep, ReadCopies, ReadByte, ReadEnds, In, Return,
                    Goto, ends
<1>6. CASE Sleep(p, "wsleep", "wasleep", "nwrite") \/ Sleep(p, "rsleep", "rasleep", "nread")
  BY <1>2, <1>6 DEF Sleep, Goto, ends
<1>7. CASE Wake(p, "wasleep", "write") \/ Wake(p, "rasleep", "read")
  BY <1>2, <1>7 DEF Wake, Goto, ends
<1>8. CASE CloseRead(p)
  BY <1>2, <1>8 DEF CloseRead, Goto, ends
<1>9. CASE CloseWrite(p)
  BY <1>2, <1>9 DEF CloseWrite, Goto, ends
<1>10. CASE pipeclose(p)
  <2>1. CASE pc[p] = "rclose"
    BY <1>2, <1>10, <2>1 DEF pipeclose, Goto
  <2>2. CASE pc[p] = "wclose"
    BY <1>2, <1>10, <2>2 DEF pipeclose, Goto
  <2> QED
    BY <1>10, <2>1, <2>2 DEF pipeclose
<1>11. CASE kill(p)
  BY <1>11 DEF kill, ends
<1> QED
  BY <1>3, <1>4, <1>5, <1>6, <1>7, <1>8, <1>9, <1>10, <1>11 DEF Write, Read, AfterSleep

\* The steps of another process leave alone what a sleeper waits for, or wake it:
\* only the holder of the lock moves a counter, and whoever moves one calls
\* wakeup() before it releases the lock, a killed writer excepted.
LEMMA StepSleep ==
  ASSUME PipeAssumption, TypeOK, LockInv, EndsInv, SleepInv, [Next]_vars
  PROVE  SleepInv'
<1> USE DEF SleepInv, WriterIn, ReaderIn
<1>1. CASE UNCHANGED vars
  BY <1>1 DEF vars, pipe, ends, procs, Empty, Full
<1> SUFFICES ASSUME NEW p \in Proc,
                    \/ pipewrite(p) \/ piperead(p) \/ Write(p) \/ Read(p)
                    \/ CloseRead(p) \/ CloseWrite(p) \/ pipeclose(p) \/ kill(p)
             PROVE  SleepInv'
  BY <1>1 DEF Next
<1>2. /\ NoProc \notin Proc /\ lock \in Proc \union {NoProc}
      /\ pc \in [Proc -> Places]
      /\ chan \in [Proc -> {"none", "nread", "nwrite"}] /\ killed \in [Proc -> BOOLEAN]
  BY DEF PipeAssumption, TypeOK
<1>3. \A q \in Proc : pc[q] \in {"rsleep", "wsleep", "read", "write", "copy"} => lock = q
  BY DEF LockInv, InWrite, InRead
<1>4. lock # NoProc => pc[lock] \in {"rsleep", "wsleep", "read", "write", "copy"}
  BY DEF LockInv, InWrite, InRead
<1>5. UNCHANGED pipe => Empty' = Empty /\ Full' = Full
  BY DEF pipe, Empty, Full
<1>6. CASE pipewrite(p) \/ piperead(p)
  BY <1>2, <1>3, <1>5, <1>6 DEF pipewrite, piperead, Enter, Goto, ends
<1>7. CASE WriteByte(p)
  BY <1>2, <1>3, <1>7 DEF WriteByte, In, ends
<1>8. CASE WriteGivesUp(p)
  <2>1. \A q \in Proc : pc[q] = "rasleep" => readopen
    BY DEF EndsInv, InRead
  <2> QED
    BY <1>2, <1>3, <1>5, <1>8, <2>1 DEF WriteGivesUp, GiveUp, In, Return, Goto, ends
<1>9. CASE WriteMustSleep(p)
  BY <1>2, <1>3, <1>5, <1>9 DEF WriteMustSleep, GiveUp, In, Woken, Keeps, Goto, ends
<1>10. CASE WriteEnds(p)
  BY <1>2, <1>3, <1>5, <1>10 DEF WriteEnds, In, Woken, Return, Goto, ends
<1>11. CASE ReadGivesUp(p) \/ ReadCopies(p)
  BY <1>2, <1>3, <1>5, <1>11 DEF ReadGivesUp, ReadCopies, In, Return, Goto, ends
<1>12. CASE ReadMustSleep(p)
  BY <1>2, <1>3, <1>5, <1>12 DEF ReadMustSleep, MustWait, In, Keeps, Goto, ends
<1>13. CASE ReadByte(p)
  BY <1>2, <1>3, <1>13 DEF ReadByte, In, Woken, Return, Goto, ends
<1>14. CASE ReadEnds(p)
  BY <1>2, <1>3, <1>5, <1>14 DEF ReadEnds, In, Woken, Return, Goto, ends
<1>15. CASE Sleep(p, "wsleep", "wasleep", "nwrite") \/ Sleep(p, "rsleep", "rasleep", "nread")
  BY <1>2, <1>3, <1>5, <1>15 DEF Sleep, Goto, ends
<1>16. CASE Wake(p, "wasleep", "write") \/ Wake(p, "rasleep", "read")
  BY <1>2, <1>3, <1>5, <1>16 DEF Wake, Goto, ends
<1>17. CASE CloseRead(p) \/ CloseWrite(p)
  BY <1>2, <1>3, <1>4, <1>5, <1>17 DEF CloseRead, CloseWrite, Goto, ends
<1>18. CASE pipeclose(p)
  BY <1>2, <1>3, <1>5, <1>18 DEF pipeclose, WakesReaders, Woken, Goto
<1>19. CASE kill(p)
  BY <1>2, <1>5, <1>19 DEF kill, ends
<1> QED
  BY <1>6, <1>7, <1>8, <1>9, <1>10, <1>11, <1>12, <1>13, <1>14, <1>15, <1>16, <1>17, <1>18,
     <1>19 DEF Write, Read, AfterSleep

\* Between the end of the wait in piperead() and the first byte it takes, nobody
\* else takes one or closes the write end.
LEMMA StepCopy ==
  ASSUME PipeAssumption, TypeOK, LockInv, CopyInv, [Next]_vars
  PROVE  CopyInv'
<1> USE DEF CopyInv, InRead
<1>1. CASE UNCHANGED vars
  BY <1>1 DEF vars, pipe, ends, procs, MustWait, Empty
<1> SUFFICES ASSUME NEW p \in Proc,
                    \/ pipewrite(p) \/ piperead(p) \/ Write(p) \/ Read(p)
                    \/ CloseRead(p) \/ CloseWrite(p) \/ pipeclose(p) \/ kill(p)
             PROVE  CopyInv'
  BY <1>1 DEF Next
<1>2. /\ NoProc \notin Proc /\ pc \in [Proc -> Places]
      /\ i \in [Proc -> 0..MaxBytes] /\ n \in [Proc -> 0..MaxBytes] /\ MaxBytes \in Nat
  BY DEF PipeAssumption, TypeOK
<1>3. \A q \in Proc : pc[q] \in {"rsleep", "wsleep", "read", "write", "copy"} => lock = q
  BY DEF LockInv, InWrite
<1>4. UNCHANGED <<nread, nwrite, writeopen>> => MustWait' = MustWait
  BY DEF MustWait, Empty
<1>5. CASE pipewrite(p)
  BY <1>2, <1>4, <1>5 DEF pipewrite, Enter, Goto, pipe, ends
<1>6. CASE piperead(p)
  BY <1>2, <1>4, <1>6 DEF piperead, Enter, Goto, pipe, ends
<1>7. CASE WriteByte(p)
  BY <1>2, <1>3, <1>7 DEF WriteByte, In
<1>8. CASE WriteGivesUp(p) \/ WriteMustSleep(p) \/ WriteEnds(p)
  BY <1>2, <1>3, <1>4, <1>8 DEF WriteGivesUp, WriteMustSleep, WriteEnds, In, Return, Goto,
                                pipe, ends
<1>9. CASE ReadGivesUp(p) \/ ReadEnds(p)
  BY <1>2, <1>3, <1>4, <1>9 DEF ReadGivesUp, ReadEnds, In, Return, Goto, pipe, ends
<1>10. CASE ReadMustSleep(p)
  BY <1>2, <1>3, <1>4, <1>10 DEF ReadMustSleep, In, Goto, pipe, ends
<1>11. CASE ReadCopies(p)
  BY <1>2, <1>3, <1>4, <1>11 DEF ReadCopies, In, Goto, pipe, ends
<1>12. CASE ReadByte(p)
  <2>1. \A q \in Proc \ {p} : pc[q] # "copy"
    BY <1>3, <1>12 DEF ReadByte, In
  <2>2. CASE i' = [i EXCEPT ![p] = @ + 1] /\ UNCHANGED <<lock, pc, n, chan>>
    <3>1. i'[p] # 0
      BY <1>2, <2>2
    <3> QED
      BY <2>1, <2>2, <3>1
  <2>3. CASE Return(p)
    BY <1>2, <2>1, <2>3 DEF Return, Goto
  <2> QED
    BY <1>12, <2>2, <2>3 DEF ReadByte
<1>13. CASE Sleep(p, "wsleep", "wasleep", "nwrite") \/ Sleep(p, "rsleep", "rasleep", "nread")
  BY <1>2, <1>4, <1>13 DEF Sleep, Goto, pipe, ends
<1>14. CASE Wake(p, "wasleep", "write") \/ Wake(p, "rasleep", "read")
  BY <1>2, <1>4, <1>14 DEF Wake, Goto, pipe, ends
<1>15. CASE CloseRead(p) \/ CloseWrite(p)
  BY <1>2, <1>4, <1>15 DEF CloseRead, CloseWrite, Goto, pipe, ends
<1>16. CASE pipeclose(p)
  BY <1>2, <1>3, <1>16 DEF pipeclose, Goto
<1>17. CASE kill(p)
  BY <1>4, <1>17 DEF kill, pipe, ends
<1> QED
  BY <1>5, <1>6, <1>7, <1>8, <1>9, <1>10, <1>11, <1>12, <1>13, <1>14, <1>15, <1>16, <1>17
     DEF Write, Read, AfterSleep

-----------------------------------------------------------------------------
\* pipewrite(), piperead(), pipeclose(), kill() and the closes keep the invariant.
LEMMA Inductive == Spec => []IInv
<1>1. Init => IInv
  BY PipeAssumption, InitInv
<1>2. IInv /\ [Next]_vars => IInv'
  BY PipeAssumption, StepType, StepLock, StepEnds, StepSleep, StepCopy DEF IInv
<1> QED
  BY <1>1, <1>2, PTL DEF Spec

\* struct pipe and what the processes know of it keep their types: an index into
\* data is within its bounds although the counters are never reset.
THEOREM PipeWellTyped == Spec => []TypeOK
<1>1. IInv => TypeOK
  BY DEF IInv
<1> QED
  BY <1>1, Inductive, PTL

\* Nobody sleeps in pipewrite() or piperead() on a pipe that is ready for him.
THEOREM NoWakeupLost == Spec => []NoLostWakeup
<1>1. IInv => NoLostWakeup
  BY DEF IInv, SleepInv, WriterIn, ReaderIn, NoLostWakeup
<1> QED
  BY <1>1, Inductive, PTL

\* kfree() in pipeclose(): nobody is in a call on the pipe then or later, and no
\* end that a process has open is closed under it.
THEOREM FreedWhenUnused == Spec => []FreedUnused
<1>1. ASSUME IInv
      PROVE  FreedUnused
  <2>1. (rfd # {} => readopen) /\ (wfd # {} => writeopen)
    BY <1>1 DEF IInv, EndsInv
  <2>2. ASSUME freed
        PROVE  lock = NoProc /\ \A p \in Proc : pc[p] = "user"
    <3>1. ~readopen /\ ~writeopen
      BY <1>1, <2>2 DEF IInv, EndsInv, LastEnd
    <3>2. \A p \in Proc : pc[p] = "user"
      BY <1>1, <2>1, <3>1 DEF IInv, EndsInv, TypeOK, Places, InRead, InWrite
    <3> QED
      BY <1>1, <3>2 DEF IInv, LockInv, TypeOK, InRead, InWrite
  <2> QED
    BY <2>1, <2>2 DEF FreedUnused
<1> QED
  BY <1>1, Inductive, PTL

\* A reader leaves the copying loop for user space through its end, or by taking
\* a byte that copyout() cannot deliver.
LEMMA LeavesCopy ==
  ASSUME PipeAssumption, TypeOK, [Next]_vars,
         NEW p \in Proc, pc[p] = "copy", pc'[p] = "user", nread' = nread
  PROVE  ReadEnds(p)
<1>1. pc \in [Proc -> Places] /\ nread \in 0..U32 - 1 /\ U32 \in Nat /\ U32 >= 2
  BY DEF TypeOK, PipeAssumption
<1>2. ~UNCHANGED vars
  BY DEF vars, procs
<1>3. PICK q \in Proc :
        \/ pipewrite(q) \/ piperead(q) \/ Write(q) \/ Read(q)
        \/ CloseRead(q) \/ CloseWrite(q) \/ pipeclose(q) \/ kill(q)
  BY <1>2 DEF Next
<1>4. ~ReadByte(q)
  <2>1. (nread + 1) % U32 # nread
    <3>1. (nread + 1) % U32 = IF nread + 1 = U32 THEN 0 ELSE nread + 1
      BY <1>1, CounterNext DEF Wraps, Ticks
    <3> QED
      BY <1>1, <3>1
  <2> QED
    BY <2>1 DEF ReadByte
<1>5. Read(q)
  BY <1>1, <1>3 DEF pipewrite, piperead, Enter, Goto, Write, WriteByte, WriteGivesUp,
     WriteMustSleep, WriteEnds, Sleep, Wake, Return, CloseRead, CloseWrite, pipeclose, kill, In
<1> QED
  BY <1>1, <1>4, <1>5 DEF Read, ReadGivesUp, ReadMustSleep, ReadCopies, ReadEnds, Sleep, Wake,
     AfterSleep, Return, Goto, In

\* A piperead() that was asked for bytes returns 0 only when every byte has been
\* read and nobody can write any more, or when the one byte it took was lost to
\* a copyout() that failed.
THEOREM EndIsEnd == Spec => EndIsTheEnd
<1>1. ASSUME IInv, [Next]_vars
      PROVE  [\A p \in Proc : ReturnsNone(p) /\ nread' = nread => Empty /\ wfd = {}]_vars
  <2>1. ASSUME NEW p \in Proc, ReturnsNone(p), nread' = nread
        PROVE  Empty /\ wfd = {}
    <3>1. pc[p] = "copy" /\ pc'[p] = "user" /\ n[p] > 0 /\ i[p] = 0
      BY <2>1 DEF ReturnsNone
    <3>2. ReadEnds(p)
      BY <1>1, <2>1, <3>1, PipeAssumption, LeavesCopy DEF IInv
    <3>3. ~MustWait
      BY <1>1, <3>1 DEF IInv, CopyInv
    <3>4. n[p] \in Nat
      BY <1>1, PipeAssumption DEF IInv, TypeOK, PipeAssumption
    <3>5. Empty
      BY <3>1, <3>2, <3>4 DEF ReadEnds, In, More
    <3>6. ~writeopen
      BY <3>3, <3>5 DEF MustWait
    <3> QED
      BY <1>1, <3>5, <3>6 DEF IInv, EndsInv
  <2> QED
    BY <2>1
<1> QED
  BY <1>1, Inductive, PTL DEF Spec, EndIsTheEnd

-----------------------------------------------------------------------------
(* The pipe implements BoundedFifo *)

\* How many bytes wait, and where the one after the first d of them is.
Count == IF nread <= nwrite THEN nwrite - nread ELSE nwrite + U32 - nread
At(r, d) == IF r + d < PIPESIZE THEN r + d ELSE r + d - PIPESIZE

\* The writer is at most one buffer ahead of the reader, and the index it will
\* write to is the one after the last byte that waits.
RoomInv ==
  /\ Count \in 0..PIPESIZE
  /\ nwrite % PIPESIZE = (IF Count = PIPESIZE THEN nread % PIPESIZE
                          ELSE At(nread % PIPESIZE, Count))

\* nread and nwrite.
LEMMA CounterOn ==
  ASSUME PipeAssumption, NEW c \in 0..U32 - 1, NEW d, d = (c + 1) % U32
  PROVE  /\ c % PIPESIZE \in 0..PIPESIZE - 1 /\ d \in 0..U32 - 1
         /\ d % PIPESIZE \in 0..PIPESIZE - 1
         /\ d = IF c + 1 = U32 THEN 0 ELSE c + 1
         /\ d % PIPESIZE = IF (c % PIPESIZE) + 1 = PIPESIZE THEN 0 ELSE (c % PIPESIZE) + 1
<1>1. Wraps(PIPESIZE, U32) /\ Ticks(c, d, U32)
  BY DEF PipeAssumption, Wraps, Ticks
<1> DEFINE s == c % PIPESIZE
           r == d % PIPESIZE
<1>2. /\ s \in 0..PIPESIZE - 1 /\ d \in 0..U32 - 1 /\ r \in 0..PIPESIZE - 1
      /\ (c + 1 = U32 => d = 0) /\ (c + 1 # U32 => d = c + 1)
      /\ (s + 1 = PIPESIZE => r = 0) /\ (s + 1 # PIPESIZE => r = s + 1)
  BY <1>1, CounterNext
<1> QED
  BY <1>2

\* The bytes that wait, with the counters' wrapping worked out.
LEMMA WaitingIs ==
  ASSUME PipeAssumption, TypeOK, RoomInv
  PROVE  Waiting = [j \in 1..Count |-> data[At(nread % PIPESIZE, j - 1)]]
<1>1. /\ PIPESIZE \in Nat \ {0} /\ U32 \in Nat \ {0} /\ U32 >= 2 * PIPESIZE
      /\ nread \in 0..U32 - 1 /\ nwrite \in 0..U32 - 1 /\ Count \in 0..PIPESIZE
  BY DEF PipeAssumption, TypeOK, RoomInv
<1>2. (nwrite - nread + U32) % U32 = Count
  <2> DEFINE x == nwrite - nread + U32
  <2>1. Count \in 0..U32 - 1 /\ x \in Int /\ (x = Count \/ x = U32 + Count)
    BY <1>1 DEF Count
  <2> HIDE DEF x
  <2>2. x \div U32 \in Int /\ x % U32 \in 0..U32 - 1 /\ x = U32 * (x \div U32) + (x % U32)
    BY <1>1, <2>1, DivMod
  <2>3. x = U32 * 0 + Count \/ x = U32 * 1 + Count
    BY <1>1, <2>1
  <2>4. x % U32 = Count
    BY <1>1, <2>1, <2>2, <2>3, ModUnique
  <2> QED
    BY <2>4 DEF x
<1>3. ASSUME NEW j \in 1..Count
      PROVE  (nread + j - 1) % PIPESIZE = At(nread % PIPESIZE, j - 1)
  <2>1. nread \in Nat /\ j - 1 \in 0..PIPESIZE - 1
    BY <1>1
  <2>2. (nread + (j - 1)) % PIPESIZE
          = IF (nread % PIPESIZE) + (j - 1) < PIPESIZE THEN (nread % PIPESIZE) + (j - 1)
            ELSE (nread % PIPESIZE) + (j - 1) - PIPESIZE
    BY <1>1, <2>1, ModPlus
  <2>3. nread + j - 1 = nread + (j - 1)
    BY <1>1
  <2> QED
    BY <2>2, <2>3 DEF At
<1> QED
  BY <1>2, <1>3 DEF Waiting

\* pipewrite() appends, and only while there is room.
LEMMA WriteByteFifo ==
  ASSUME PipeAssumption, TypeOK, TypeOK', RoomInv, NEW p \in Proc, WriteByte(p)
  PROVE  RoomInv' /\ FIFO!Put
<1>1. PICK c \in Byte : data' = [data EXCEPT ![nwrite % PIPESIZE] = c]
  BY DEF WriteByte
<1>2. /\ ~Full /\ nwrite' = (nwrite + 1) % U32 /\ nread' = nread
  BY DEF WriteByte
<1>3. /\ PIPESIZE \in Nat \ {0} /\ U32 \in Nat \ {0} /\ U32 >= 2 * PIPESIZE
      /\ nread \in 0..U32 - 1 /\ nwrite \in 0..U32 - 1 /\ Count \in 0..PIPESIZE
  BY DEF PipeAssumption, TypeOK, RoomInv
<1>4. PICK r, w, k : /\ r = nread % PIPESIZE /\ w = nwrite % PIPESIZE /\ k = Count
                     /\ r \in 0..PIPESIZE - 1 /\ w \in 0..PIPESIZE - 1
  BY <1>3, CounterOn
<1>5. k \in 0..PIPESIZE - 1
  <2>1. CASE Count = PIPESIZE
    <3>1. nread + PIPESIZE \in Nat /\ PIPESIZE \in 0..U32 - 1 /\ nread \in Nat /\ nread % U32 = nread
      BY <1>3, ModBelow
    <3>2. (nread + PIPESIZE) % U32 = IF (nread % U32) + PIPESIZE < U32 THEN (nread % U32) + PIPESIZE
                                     ELSE (nread % U32) + PIPESIZE - U32
      BY <1>3, <3>1, ModPlus
    <3>3. nwrite = IF nread + PIPESIZE < U32 THEN nread + PIPESIZE ELSE nread + PIPESIZE - U32
      BY <1>3, <2>1 DEF Count
    <3> QED
      BY <1>2, <3>1, <3>2, <3>3 DEF Full
  <2> QED
    BY <1>3, <1>4, <2>1
<1>6. w = At(r, k)
  BY <1>3, <1>4, <1>5 DEF RoomInv
<1>7. /\ nwrite' = (IF nwrite + 1 = U32 THEN 0 ELSE nwrite + 1)
      /\ nwrite' % PIPESIZE = IF w + 1 = PIPESIZE THEN 0 ELSE w + 1
  BY <1>2, <1>3, <1>4, CounterOn
<1>8. Count' = k + 1
  BY <1>2, <1>3, <1>4, <1>5, <1>7 DEF Count
<1>9. RoomInv'
  <2>1. Count' \in 0..PIPESIZE
    BY <1>3, <1>5, <1>8
  <2>2. nwrite' % PIPESIZE = (IF k + 1 = PIPESIZE THEN r ELSE At(r, k + 1))
    BY <1>3, <1>4, <1>5, <1>6, <1>7 DEF At
  <2>3. nread' % PIPESIZE = r
    BY <1>2, <1>4
  <2> QED
    BY <1>8, <2>1, <2>2, <2>3 DEF RoomInv
<1>10. Waiting = [j \in 1..k |-> data[At(r, j - 1)]]
  BY <1>4, WaitingIs
<1>11. Waiting' = [j \in 1..k + 1 |-> data'[At(r, j - 1)]]
  <2>1. (Waiting = [j \in 1..Count |-> data[At(nread % PIPESIZE, j - 1)]])'
    BY <1>9, WaitingIs, PTL
  <2> QED
    BY <1>2, <1>4, <1>8, <2>1
<1>12. Waiting' = Append(Waiting, c) /\ Len(Waiting) = k
  <2>1. \A j \in 1..k : At(r, j - 1) \in 0..PIPESIZE - 1 /\ At(r, j - 1) # w
    BY <1>3, <1>4, <1>5, <1>6 DEF At
  <2>2. \A j \in 1..k : data'[At(r, j - 1)] = data[At(r, j - 1)]
    BY <1>1, <1>4, <2>1 DEF TypeOK
  <2>3. data'[At(r, k)] = c
    BY <1>1, <1>4, <1>6 DEF TypeOK
  <2> QED
    BY <1>5, <1>10, <1>11, <2>2, <2>3
<1> QED
  BY <1>3, <1>5, <1>9, <1>12 DEF FIFO!Put
\* piperead() takes the byte that waits longest.
LEMMA ReadByteFifo ==
  ASSUME PipeAssumption, TypeOK, TypeOK', RoomInv, NEW p \in Proc, ReadByte(p)
  PROVE  RoomInv' /\ FIFO!Get
<1>1. /\ ~Empty /\ nread' = (nread + 1) % U32 /\ nwrite' = nwrite /\ data' = data
  BY DEF ReadByte
<1>2. /\ PIPESIZE \in Nat \ {0} /\ U32 \in Nat \ {0} /\ U32 >= 2 * PIPESIZE
      /\ nread \in 0..U32 - 1 /\ nwrite \in 0..U32 - 1 /\ Count \in 0..PIPESIZE
  BY DEF PipeAssumption, TypeOK, RoomInv
<1>3. PICK r, w, k : /\ r = nread % PIPESIZE /\ w = nwrite % PIPESIZE /\ k = Count
                     /\ r \in 0..PIPESIZE - 1 /\ w \in 0..PIPESIZE - 1
  BY <1>2, CounterOn
<1>4. k \in 1..PIPESIZE
  BY <1>1, <1>2, <1>3 DEF Empty, Count
<1>5. w = IF k = PIPESIZE THEN r ELSE At(r, k)
  BY <1>3 DEF RoomInv
<1>6. PICK s : /\ s = nread' % PIPESIZE /\ s = IF r + 1 = PIPESIZE THEN 0 ELSE r + 1
               /\ nread' = IF nread + 1 = U32 THEN 0 ELSE nread + 1
  BY <1>1, <1>2, <1>3, CounterOn
<1>7. Count' = k - 1
  BY <1>1, <1>2, <1>3, <1>4, <1>6 DEF Count
<1>8. RoomInv'
  <2>1. Count' \in 0..PIPESIZE /\ Count' # PIPESIZE
    BY <1>2, <1>4, <1>7
  <2>2. w = At(s, k - 1)
    BY <1>2, <1>3, <1>4, <1>5, <1>6 DEF At
  <2> QED
    BY <1>1, <1>3, <1>6, <1>7, <2>1, <2>2 DEF RoomInv
<1>9. Waiting = [j \in 1..k |-> data[At(r, j - 1)]]
  BY <1>3, WaitingIs
<1>10. Waiting' = [j \in 1..k - 1 |-> data[At(s, j - 1)]]
  <2>1. (Waiting = [j \in 1..Count |-> data[At(nread % PIPESIZE, j - 1)]])'
    BY <1>8, WaitingIs, PTL
  <2> QED
    BY <1>1, <1>6, <1>7, <2>1
<1>11. \A j \in 1..k - 1 : At(s, j - 1) = At(r, j)
  BY <1>2, <1>3, <1>4, <1>6 DEF At
<1>12. Waiting' = Tail(Waiting) /\ Waiting # <<>>
  <2>1. Len(Waiting) = k /\ DOMAIN Waiting = 1..k
    BY <1>4, <1>9
  <2>2. Tail(Waiting) = [j \in 1..k - 1 |-> data[At(r, j)]]
    <3>0. Waiting \in Seq(Byte)
      <4>1. \A j \in 1..k : At(r, j - 1) \in 0..PIPESIZE - 1
        BY <1>2, <1>3, <1>4 DEF At
      <4>2. \A j \in 1..k : data[At(r, j - 1)] \in Byte
        BY <4>1 DEF TypeOK
      <4>3. k \in Nat
        BY <1>4
      <4> QED
        BY <1>9, <4>2, <4>3
    <3>1. Tail(Waiting) = [j \in 1..k - 1 |-> Waiting[j + 1]]
      <4> DEFINE T == Tail(Waiting)
      <4>1. Waiting # <<>>
        BY <1>4, <2>1
      <4>2. T \in Seq(Byte) /\ Len(T) = k - 1 /\ \A j \in 1..Len(T) : T[j] = Waiting[j + 1]
        BY <2>1, <3>0, <4>1, HeadTailProperties
      <4> HIDE DEF T
      <4>3. T = [j \in 1..k - 1 |-> Waiting[j + 1]]
        BY <4>2
      <4> QED
        BY <4>3 DEF T
    <3>2. \A j \in 1..k - 1 : Waiting[j + 1] = data[At(r, j)]
      BY <1>4, <1>9
    <3> QED
      BY <3>1, <3>2
  <2> QED
    BY <1>4, <1>10, <1>11, <2>1, <2>2
<1> QED
  BY <1>8, <1>12 DEF FIFO!Get

\* No other step moves a counter or a byte.
LEMMA RestFifo ==
  ASSUME PipeAssumption, TypeOK, RoomInv, UNCHANGED pipe
  PROVE  RoomInv' /\ UNCHANGED Waiting
BY DEF RoomInv, Count, Waiting, pipe

LEMMA StepFifo ==
  ASSUME PipeAssumption, TypeOK, TypeOK', RoomInv, [Next]_vars
  PROVE  RoomInv' /\ [FIFO!Put \/ FIFO!Get]_Waiting
<1>1. ASSUME UNCHANGED pipe PROVE RoomInv' /\ [FIFO!Put \/ FIFO!Get]_Waiting
  BY <1>1, RestFifo
<1>2. ASSUME NEW p \in Proc, pipewrite(p) \/ piperead(p)
      PROVE  UNCHANGED pipe
  BY <1>2 DEF pipewrite, piperead, Enter
<1>3. ASSUME NEW p \in Proc, Write(p)
      PROVE  WriteByte(p) \/ UNCHANGED pipe
  BY <1>3 DEF Write, WriteGivesUp, WriteMustSleep, WriteEnds, Sleep, Wake
<1>4. ASSUME NEW p \in Proc, Read(p)
      PROVE  ReadByte(p) \/ UNCHANGED pipe
  BY <1>4 DEF Read, ReadGivesUp, ReadMustSleep, ReadCopies, ReadEnds, Sleep, Wake
<1>5. ASSUME NEW p \in Proc, CloseRead(p) \/ CloseWrite(p) \/ pipeclose(p) \/ kill(p)
      PROVE  UNCHANGED pipe
  BY <1>5 DEF CloseRead, CloseWrite, pipeclose, kill
<1>6. CASE UNCHANGED vars
  BY <1>1, <1>6 DEF vars
<1> QED
  BY <1>1, <1>2, <1>3, <1>4, <1>5, <1>6, WriteByteFifo, ReadByteFifo DEF Next

LEMMA InitFifo ==
  ASSUME PipeAssumption, Init, TypeOK
  PROVE  RoomInv /\ FIFO!Init
<1>1. /\ PIPESIZE \in Nat \ {0} /\ U32 \in Nat \ {0} /\ 0 \in 0..PIPESIZE - 1
      /\ nread = 0 /\ nwrite = 0
  BY DEF PipeAssumption, Init
<1>2. Count = 0 /\ 0 % PIPESIZE = 0
  BY <1>1, ModBelow DEF Count
<1>3. RoomInv
  BY <1>1, <1>2 DEF RoomInv, At
<1>4. Waiting = <<>>
  BY <1>2, <1>3, WaitingIs
<1> QED
  BY <1>3, <1>4 DEF FIFO!Init

\* The pipe is a bounded queue of bytes: each comes out once, in the order in
\* which they went in, wherever nread and nwrite are in their cycle; and a
\* piperead() that takes no byte returns 0 only at the end of what was written.
THEOREM PipeIsFifo == Spec => IsFifo
<1>1. Init => RoomInv /\ FIFO!Init
  BY PipeAssumption, InitInv, InitFifo DEF IInv
<1>2. TypeOK /\ TypeOK' /\ RoomInv /\ [Next]_vars => RoomInv' /\ [FIFO!Put \/ FIFO!Get]_Waiting
  BY PipeAssumption, StepFifo
<1> QED
  BY <1>1, <1>2, PipeWellTyped, EndIsEnd, PTL DEF Spec, IsFifo, FIFO!Spec
=============================================================================
