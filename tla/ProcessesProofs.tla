-------------------------- MODULE ProcessesProofs ---------------------------
(***************************************************************************)
(* Theorems of Processes, for a process table of any size.                 *)
(***************************************************************************)
EXTENDS Processes, TLAPS

Live(s) == state[s] \in {"RUNNABLE", "SLEEPING"}

\* exit() panics for init, and so init is never on its way out.
InitInv == pc[initproc] \in {"user", "scan", "asleep"} /\ parent[initproc] = NoSlot

ParentInv ==
  \A s \in Slot \ {initproc} :
    state[s] # "UNUSED" => parent[s] # NoSlot /\ Live(parent[s])

\* reparent() has given away the children in the slots behind it.
ReparentInv ==
  \A p \in Slot : pc[p] = "reparent" =>
    \A s \in Slot : s < np[p] => parent[s] # p

NoLoop ==
  \A family \in SUBSET (Slot \ {initproc}) :
    family # {} => \E s \in family : parent[s] \notin family

TreeInv == TypeOK /\ InitInv /\ ParentInv /\ ReparentInv /\ NoLoop

\* The lock of a slot is a lock.
MutualExclusion ==
  \A p, q \in Slot, lock \in Slot \union {NoSlot} :
    lock \in Holds(p) /\ lock \in Holds(q) => p = q

\* exit() has locked its parent, unless it has become a child of init since.
LockedParentInv ==
  \A p \in Slot : pc[p] \in {"lockparent", "lockself", "reparent"} =>
    parent[p] \in {original_parent[p], initproc}

\* wait() has found no zombie of its own in the slots behind it.
ScanInv ==
  \A p \in Slot \ {initproc} : pc[p] = "scan" =>
    \A s \in Slot : s < np[p] /\ parent[s] = p => state[s] # "ZOMBIE"

IInv == TreeInv /\ MutualExclusion /\ LockedParentInv /\ ScanInv /\ NoExitMissed

-----------------------------------------------------------------------------
\* userinit() makes the first process.
LEMMA InitHolds == Init => IInv
<1> SUFFICES ASSUME Init
             PROVE  IInv
  OBVIOUS
<1>1. NPROC \in Nat \ {0} /\ initproc \in Slot
  BY ProcessesAssumption DEF initproc, Slot
<1>2. TypeOK
  <2>1. 1 \in 1..NPROC + 1
    BY <1>1
  <2>2. \A s \in Slot : (state[s] = "UNUSED" <=> pc[s] = "none") /\ parent[s] = NoSlot
    BY DEF Init
  <2>3. \A s \in Slot : state[s] \in {"UNUSED", "RUNNABLE"} /\ pc[s] \in {"none", "user"}
    BY DEF Init
  <2> QED
    BY <1>1, <2>1, <2>2, <2>3 DEF Init, TypeOK, Places
<1>3. InitInv /\ ReparentInv /\ LockedParentInv /\ ScanInv
  BY <1>1 DEF Init, InitInv, ReparentInv, LockedParentInv, ScanInv
<1>4. ParentInv /\ NoExitMissed
  BY <1>1 DEF Init, ParentInv, NoExitMissed
<1>5. NoLoop
  <2>1. SUFFICES ASSUME NEW family \in SUBSET (Slot \ {initproc}), family # {}
                 PROVE  \E s \in family : parent[s] \notin family
    BY DEF NoLoop
  <2>2. PICK s \in family : TRUE
    BY <2>1
  <2>3. parent[s] = NoSlot
    BY <2>2 DEF Init
  <2> QED
    BY <1>1, <2>2, <2>3 DEF NoSlot, Slot
<1>6. MutualExclusion
  BY <1>1 DEF Init, MutualExclusion, Holds
<1> QED
  BY <1>2, <1>3, <1>4, <1>5, <1>6 DEF IInv, TreeInv

\* A process in the kernel is on its way through one call.
LEMMA StateOf ==
  ASSUME TypeOK, NEW p \in Slot
  PROVE  /\ pc[p] \in {"user", "scan", "closed", "lockparent", "lockself", "reparent"}
              => state[p] = "RUNNABLE"
         /\ pc[p] = "asleep" => Live(p)
         /\ Live(p) => pc[p] \notin {"none", "zombie"}
  BY DEF TypeOK, Places, Live

\* wakeup1() makes a sleeper runnable and does nothing else.
LEMMA Wakeup ==
  ASSUME TypeOK, NEW p \in Slot \union {NoSlot}
  PROVE  /\ wakeup1(p) \in [Slot -> {"UNUSED", "RUNNABLE", "SLEEPING", "ZOMBIE"}]
         /\ \A s \in Slot : \/ wakeup1(p)[s] = state[s]
                            \/ s = p /\ state[s] = "SLEEPING" /\ wakeup1(p)[s] = "RUNNABLE"
         /\ p \in Slot => wakeup1(p)[p] # "SLEEPING"
  BY DEF TypeOK, wakeup1

-----------------------------------------------------------------------------
\* Every step leaves the table well typed, init alive, and every process with a
\* parent that can wait for it.
LEMMA StepTree ==
  ASSUME TreeInv, [Next]_vars
  PROVE  TreeInv'
<1> USE DEF TreeInv
<1>1. CASE UNCHANGED vars
  BY <1>1 DEF vars, locals, TypeOK, InitInv, ParentInv, ReparentInv, NoLoop, Live
<1>2. /\ NPROC \in Nat \ {0} /\ initproc \in Slot /\ NoSlot \notin Slot
      /\ Slot \subseteq Nat
  BY ProcessesAssumption DEF initproc, Slot, NoSlot
<1> SUFFICES ASSUME NEW p \in Slot,
                    \/ fork(p) \/ forkFails(p) \/ wait(p) \/ exit(p)
                    \/ \E victim \in Slot : kill(p, victim)
                    \/ WaitStep(p) \/ ExitStep(p)
             PROVE  TreeInv'
  BY <1>1 DEF Next
<1>3. CASE fork(p)
  <2>1. PICK child \in Slot :
          /\ state[child] = "UNUSED"
          /\ state' = [state EXCEPT ![child] = "RUNNABLE"]
          /\ parent' = [parent EXCEPT ![child] = p]
          /\ pc' = [pc EXCEPT ![child] = "user"]
    BY <1>3 DEF fork
  <2>2. UNCHANGED <<killed, np, havekids, original_parent>> /\ pc[p] = "user"
    BY <1>3 DEF fork, InUser
  <2>3. state[p] = "RUNNABLE" /\ p # child
    BY <2>1, <2>2, StateOf
  <2>4. pc[child] = "none" /\ child # initproc
    BY <1>2, <2>1 DEF TypeOK, InitInv
  <2>5. TypeOK'
    BY <2>1, <2>2, <2>3 DEF TypeOK, Places
  <2>6. InitInv'
    BY <1>2, <2>1, <2>4 DEF InitInv, TypeOK
  <2>7. ParentInv'
    BY <2>1, <2>3, <1>2 DEF ParentInv, TypeOK, Live
  <2>8. ReparentInv'
    BY <2>1, <2>2 DEF ReparentInv, TypeOK
  <2>9. \A s \in Slot : parent[s] # child
    BY <1>2, <2>1, <2>4 DEF ParentInv, InitInv, TypeOK, Live
  <2>10. NoLoop'
    <3>1. SUFFICES ASSUME NEW family \in SUBSET (Slot \ {initproc}), family # {}
                   PROVE  \E s \in family : parent'[s] \notin family
      BY DEF NoLoop
    <3>2. CASE child \notin family
      BY <2>1, <3>1, <3>2 DEF NoLoop, TypeOK
    <3>3. CASE child \in family /\ p \notin family
      BY <2>1, <3>3 DEF TypeOK
    <3>4. CASE child \in family /\ p \in family
      <4>1. PICK s \in family \ {child} : parent[s] \notin family \ {child}
        BY <2>3, <3>4 DEF NoLoop
      <4> QED
        BY <2>1, <2>9, <4>1 DEF TypeOK
    <3> QED
      BY <3>2, <3>3, <3>4
  <2> QED
    BY <2>5, <2>6, <2>7, <2>8, <2>10
<1>4. ASSUME parent' = parent, NoLoop
      PROVE  NoLoop'
  BY <1>4 DEF NoLoop
<1>14. ASSUME parent' = parent,
              \A s \in Slot : state'[s] # "UNUSED" => state[s] # "UNUSED",
              \A s, q \in Slot : parent[s] = q /\ Live(q) => state'[q] \in {"RUNNABLE", "SLEEPING"}
       PROVE  ParentInv'
  BY <1>14 DEF ParentInv, Live, TypeOK
<1>5. CASE wait(p) \/ Awake(p)
  <2>1. pc[p] \in {"user", "asleep"} /\ state[p] = "RUNNABLE" /\ StartScan(p)
    BY <1>5, StateOf DEF wait, InUser, Awake
  <2>2. 1 \in 1..NPROC + 1
    BY <1>2
  <2> QED
    BY <1>2, <1>4, <2>1, <2>2
       DEF StartScan, TypeOK, Places, InitInv, ParentInv, ReparentInv, Live
<1>6. CASE exit(p)
  <2>1. /\ pc[p] = "user" /\ p # initproc /\ state' = wakeup1(initproc)
        /\ pc' = [pc EXCEPT ![p] = "closed"]
        /\ UNCHANGED <<parent, killed, np, havekids, original_parent>>
    BY <1>6 DEF exit
  <2>2. \A s \in Slot : \/ state'[s] = state[s]
                        \/ state[s] = "SLEEPING" /\ state'[s] = "RUNNABLE"
    BY <1>2, <2>1, Wakeup
  <2>3. state' \in [Slot -> {"UNUSED", "RUNNABLE", "SLEEPING", "ZOMBIE"}]
    BY <1>2, <2>1, Wakeup
  <2>4. state[p] = "RUNNABLE"
    BY <2>1, StateOf
  <2>5. TypeOK'
    BY <2>1, <2>2, <2>3, <2>4 DEF TypeOK, Places
  <2>6. InitInv' /\ ReparentInv'
    BY <1>2, <2>1 DEF InitInv, ReparentInv, TypeOK
  <2>7. ParentInv'
    BY <1>14, <2>1, <2>2 DEF Live
  <2> QED
    BY <1>4, <2>1, <2>5, <2>6, <2>7
<1>7. ASSUME NEW victim \in Slot, kill(p, victim)
      PROVE  TreeInv'
  <2>1. TypeOK'
    BY <1>7 DEF kill, locals, TypeOK
  <2>2. InitInv' /\ ReparentInv'
    BY <1>7 DEF kill, locals, InitInv, ReparentInv
  <2>3. ParentInv'
    BY <1>2, <1>7 DEF kill, ParentInv, TypeOK, Live
  <2> QED
    BY <1>4, <1>7, <2>1, <2>2, <2>3 DEF kill
<1>8. CASE WaitLook(p)
  <2>1. pc[p] = "scan" /\ np[p] \in Slot /\ np[p] + 1 \in 1..NPROC + 1
    BY <1>2, <1>8 DEF WaitLook, TableDone, TypeOK, Slot
  <2>2. state[p] = "RUNNABLE" /\ 1 \in 1..NPROC + 1
    BY <1>2, <2>1, StateOf
  <2>3. CASE NotMine(p) \/ ChildLives(p)
    <3>1. /\ np' = [np EXCEPT ![p] = @ + 1]
          /\ UNCHANGED <<state, parent, killed, pc, original_parent>>
          /\ havekids' \in [Slot -> BOOLEAN]
      BY <2>3 DEF NotMine, ChildLives, TypeOK
    <3>2. TypeOK'
      BY <2>1, <3>1 DEF TypeOK
    <3>3. InitInv' /\ ParentInv' /\ ReparentInv'
      BY <2>1, <3>1 DEF InitInv, ParentInv, ReparentInv, TypeOK, Live
    <3> QED
      BY <1>4, <3>1, <3>2, <3>3
  <2>4. CASE UNCHANGED <<state, parent, killed>> /\ pc' = [pc EXCEPT ![p] = "user"] /\ ScanDone(p)
    BY <1>2, <1>4, <2>2, <2>1, <2>4
       DEF ScanDone, TypeOK, Places, InitInv, ParentInv, ReparentInv, Live
  <2>5. CASE /\ state[np[p]] = "ZOMBIE" /\ freeproc(np[p]) /\ ScanDone(p)
             /\ pc' = [pc EXCEPT ![p] = "user", ![np[p]] = "none"]
    <3>1. np[p] # p /\ pc[np[p]] = "zombie" /\ np[p] # initproc
      BY <1>2, <2>1, <2>2, <2>5 DEF TypeOK, InitInv
    <3>2. TypeOK'
      BY <2>1, <2>2, <2>5, <3>1 DEF freeproc, ScanDone, TypeOK, Places, NoSlot
    <3>3. InitInv'
      BY <1>2, <2>5, <3>1 DEF freeproc, InitInv, TypeOK
    <3>4. ParentInv'
      BY <1>2, <2>1, <2>5, <3>1 DEF freeproc, ParentInv, TypeOK, Live
    <3>5. ReparentInv'
      BY <1>2, <2>1, <2>5, <3>1 DEF freeproc, ScanDone, ReparentInv, TypeOK
    <3>6. NoLoop'
      <4>1. \A s \in Slot : parent'[s] = parent[s] \/ parent'[s] = NoSlot
        BY <2>5 DEF freeproc, TypeOK
      <4> QED
        BY <1>2, <4>1 DEF NoLoop
    <3> QED
      BY <3>2, <3>3, <3>4, <3>5, <3>6
  <2> QED
    BY <1>8, <2>3, <2>4, <2>5 DEF WaitLook, ChildExited
<1>9. CASE WaitSleeps(p)
  <2>1. pc[p] = "scan" /\ ScanDone(p) /\ UNCHANGED <<parent, killed>> /\ 1 \in 1..NPROC + 1
    BY <1>2, <1>9 DEF WaitSleeps
  <2>2. state[p] = "RUNNABLE"
    BY <2>1, StateOf
  <2>3. \/ pc' = [pc EXCEPT ![p] = "user"] /\ UNCHANGED state
        \/ /\ pc' = [pc EXCEPT ![p] = "asleep"]
           /\ state' = [state EXCEPT ![p] = "SLEEPING"]
    BY <1>9 DEF WaitSleeps
  <2>4. TypeOK'
    BY <2>1, <2>2, <2>3 DEF ScanDone, TypeOK, Places
  <2>5. InitInv' /\ ReparentInv'
    BY <1>2, <2>1, <2>3 DEF ScanDone, InitInv, ReparentInv, TypeOK
  <2>6. ParentInv'
    <3>1. \A s \in Slot : state'[s] = state[s] \/ (s = p /\ state'[s] \in {"RUNNABLE", "SLEEPING"})
      <4>1. state \in [Slot -> {"UNUSED", "RUNNABLE", "SLEEPING", "ZOMBIE"}]
        BY DEF TypeOK
      <4>2. CASE state' = state
        BY <4>2
      <4>3. CASE state' = [state EXCEPT ![p] = "SLEEPING"]
        BY <4>1, <4>3
      <4> QED
        BY <2>3, <4>2, <4>3
    <3>2. \A s \in Slot : state'[s] # "UNUSED" => state[s] # "UNUSED"
      BY <2>2, <3>1
    <3>3. \A s, q \in Slot : parent[s] = q /\ Live(q) => state'[q] \in {"RUNNABLE", "SLEEPING"}
      BY <3>1 DEF Live
    <3> QED
      BY <1>14, <2>1, <3>2, <3>3
  <2> QED
    BY <1>4, <2>1, <2>4, <2>5, <2>6
<1>10. CASE CopyParent(p) \/ LockParent(p) \/ LockSelf(p)
  <2>1. 1 \in 1..NPROC + 1
    BY <1>2
  <2>2. TypeOK'
    BY <1>10, <2>1 DEF CopyParent, LockParent, LockSelf, TypeOK, Places
  <2>3. InitInv'
    BY <1>2, <1>10 DEF CopyParent, LockParent, LockSelf, InitInv, TypeOK
  <2>5. ReparentInv'
    <3>1. CASE CopyParent(p) \/ LockParent(p)
      BY <3>1 DEF CopyParent, LockParent, ReparentInv, TypeOK
    <3>2. CASE LockSelf(p)
      <4>1. \A s \in Slot : ~(s < 1)
        BY DEF Slot
      <4> QED
        BY <3>2, <4>1 DEF LockSelf, ReparentInv, TypeOK
    <3> QED
      BY <1>10, <3>1, <3>2
  <2>4. ParentInv' /\ parent' = parent
    BY <1>10 DEF CopyParent, LockParent, LockSelf, ParentInv, Live
  <2> QED
    BY <1>4, <2>2, <2>3, <2>4, <2>5
<1>11. CASE reparent(p)
  <2>1. /\ pc[p] = "reparent" /\ np[p] \in Slot /\ np[p] + 1 \in 1..NPROC + 1
        /\ np' = [np EXCEPT ![p] = @ + 1]
        /\ UNCHANGED <<state, killed, pc, havekids, original_parent>>
    BY <1>2, <1>11 DEF reparent, TableDone, TypeOK, Slot
  <2>2. p # initproc /\ Live(initproc)
    <3>1. pc[initproc] \in {"user", "scan", "asleep"}
      BY DEF InitInv
    <3>2. Live(initproc)
      BY <1>2, <3>1, StateOf DEF Live
    <3> QED
      BY <2>1, <3>1, <3>2
  <2>3. \/ parent[np[p]] = p /\ parent' = [parent EXCEPT ![np[p]] = initproc]
        \/ parent[np[p]] # p /\ parent' = parent
    BY <1>11 DEF reparent
  <2>4. \A s \in Slot : parent'[s] = parent[s] \/ (parent'[s] = initproc /\ s # initproc)
    <3>1. parent[initproc] # p
      BY <1>2 DEF InitInv
    <3>2. parent[np[p]] = p => np[p] # initproc
      BY <3>1
    <3>3. parent \in [Slot -> Slot \union {NoSlot}]
      BY DEF TypeOK
    <3>4. CASE parent[np[p]] = p /\ parent' = [parent EXCEPT ![np[p]] = initproc]
      BY <2>1, <3>2, <3>3, <3>4
    <3> QED
      BY <2>3, <3>4
  <2>5. TypeOK'
    <3>1. parent' \in [Slot -> Slot \union {NoSlot}]
      BY <1>2, <2>1, <2>3 DEF TypeOK
    <3>2. \A s \in Slot : state[s] = "UNUSED" => parent'[s] = NoSlot
      BY <1>2, <2>1, <2>3 DEF TypeOK
    <3> QED
      BY <2>1, <3>1, <3>2 DEF TypeOK
  <2>6. InitInv'
    BY <1>2, <2>1, <2>4 DEF InitInv
  <2>7. ParentInv'
    BY <1>2, <2>1, <2>2, <2>4 DEF ParentInv, Live
  <2>8. ReparentInv'
    <3>1. parent'[np[p]] # p
      BY <2>1, <2>2, <2>3 DEF TypeOK
    <3>2. \A q \in Slot : pc[q] = "reparent" => q # initproc
      BY <1>2 DEF InitInv
    <3> QED
      BY <1>2, <2>1, <2>4, <3>1, <3>2 DEF ReparentInv, TypeOK
  <2>9. NoLoop'
    BY <2>4 DEF NoLoop
  <2> QED
    BY <2>5, <2>6, <2>7, <2>8, <2>9
<1>12. CASE BecomeZombie(p)
  <2>1. /\ pc[p] = "reparent" /\ np[p] > NPROC
        /\ state' = [wakeup1(original_parent[p]) EXCEPT ![p] = "ZOMBIE"]
        /\ pc' = [pc EXCEPT ![p] = "zombie"]
        /\ np' = [np EXCEPT ![p] = 1]
        /\ original_parent' = [original_parent EXCEPT ![p] = NoSlot]
        /\ UNCHANGED <<parent, killed, havekids>>
    BY <1>12 DEF BecomeZombie, TableDone, Exited
  <2>2. \A s \in Slot : s < np[p]
    BY <1>2, <2>1 DEF Slot, TypeOK
  <2>3. \A s \in Slot : parent[s] # p
    BY <2>1, <2>2 DEF ReparentInv
  <2>4. p # initproc /\ state[p] = "RUNNABLE" /\ 1 \in 1..NPROC + 1
    BY <1>2, <2>1, StateOf DEF InitInv
  <2>5. original_parent[p] \in Slot \union {NoSlot}
    BY DEF TypeOK
  <2>6. /\ state' \in [Slot -> {"UNUSED", "RUNNABLE", "SLEEPING", "ZOMBIE"}]
        /\ state'[p] = "ZOMBIE"
        /\ \A s \in Slot \ {p} : \/ state'[s] = state[s]
                                 \/ state[s] = "SLEEPING" /\ state'[s] = "RUNNABLE"
    BY <2>1, <2>5, Wakeup
  <2>7. TypeOK'
    BY <2>1, <2>4, <2>6 DEF TypeOK, Places
  <2>8. InitInv' /\ ReparentInv'
    BY <1>2, <2>1, <2>4 DEF InitInv, ReparentInv, TypeOK
  <2>9. ParentInv'
    <3>1. \A s \in Slot : state'[s] # "UNUSED" => state[s] # "UNUSED"
      BY <2>4, <2>6
    <3>2. \A s, q \in Slot : parent[s] = q /\ Live(q) => state'[q] \in {"RUNNABLE", "SLEEPING"}
      BY <2>3, <2>6 DEF Live
    <3> QED
      BY <1>14, <2>1, <3>1, <3>2
  <2> QED
    BY <1>4, <2>1, <2>7, <2>8, <2>9
<1>15. CASE forkFails(p)
  <2>1. UNCHANGED <<state, parent, locals>>
    BY <1>15 DEF forkFails
  <2>2. killed' \in [Slot -> BOOLEAN]
    BY <1>15 DEF forkFails, TypeOK
  <2>3. TypeOK'
    BY <2>1, <2>2 DEF TypeOK, locals
  <2> QED
    BY <2>1, <2>3 DEF locals, InitInv, ParentInv, ReparentInv, NoLoop, Live
<1> QED
  BY <1>3, <1>5, <1>6, <1>7, <1>8, <1>9, <1>10, <1>11, <1>12, <1>15 DEF WaitStep, ExitStep

-----------------------------------------------------------------------------
\* Whose lock it is.
LEMMA HoldsWhat ==
  ASSUME NEW p \in Slot, NEW lock
  PROVE  /\ lock \in Holds(p) <=>
              \/ pc[p] = "scan" /\ lock = p
              \/ pc[p] \in {"lockself", "reparent"} /\ lock = original_parent[p]
              \/ pc[p] = "reparent" /\ lock = p
         /\ lock \in Holds(p)' <=>
              \/ pc'[p] = "scan" /\ lock = p
              \/ pc'[p] \in {"lockself", "reparent"} /\ lock = original_parent'[p]
              \/ pc'[p] = "reparent" /\ lock = p
  BY DEF Holds

\* release() gives a lock back, and leaves the others with their holders.
LEMMA LocksKept ==
  ASSUME MutualExclusion,
         \A q \in Slot, lock \in Slot \union {NoSlot} : lock \in Holds(q)' => lock \in Holds(q)
  PROVE  MutualExclusion'
  BY DEF MutualExclusion

\* acquire() waits until nobody holds the lock.
LEMMA LockTaken ==
  ASSUME MutualExclusion, NEW p \in Slot, NEW new, Free(new),
         \A lock \in Slot \union {NoSlot} : lock \in Holds(p)' => lock \in Holds(p) \/ lock = new,
         \A q \in Slot \ {p}, lock \in Slot \union {NoSlot} :
           lock \in Holds(q)' => lock \in Holds(q)
  PROVE  MutualExclusion'
  BY DEF MutualExclusion, Free

\* Every step takes locks by acquire(); fork(), kill() and wait() release those of
\* the slots they look at before the step ends.
LEMMA StepLocks ==
  ASSUME TypeOK, MutualExclusion, [Next]_vars
  PROVE  MutualExclusion'
<1>1. pc \in [Slot -> Places] /\ original_parent \in [Slot -> Slot \union {NoSlot}]
  BY DEF TypeOK
<1>2. CASE UNCHANGED <<pc, original_parent>>
  BY <1>2, LocksKept, HoldsWhat
<1> SUFFICES ASSUME NEW p \in Slot,
                    \/ fork(p) \/ forkFails(p) \/ wait(p) \/ exit(p)
                    \/ \E victim \in Slot : kill(p, victim)
                    \/ WaitStep(p) \/ ExitStep(p)
             PROVE  MutualExclusion'
  BY <1>2 DEF Next, vars, locals
<1>3. CASE fork(p)
  <2>1. PICK child \in Slot : pc' = [pc EXCEPT ![child] = "user"]
    BY <1>3 DEF fork
  <2>2. original_parent' = original_parent
    BY <1>3 DEF fork
  <2> QED
    BY <1>1, <2>1, <2>2, LocksKept, HoldsWhat
<1>4. CASE wait(p) \/ Awake(p)
  <2>1. /\ Free(p) /\ original_parent' = original_parent
        /\ pc' = [pc EXCEPT ![p] = "scan"]
    BY <1>4 DEF wait, Awake, StartScan
  <2>2. \A lock \in Slot \union {NoSlot} : lock \in Holds(p)' => lock = p
    BY <1>1, <2>1, HoldsWhat
  <2>3. \A q \in Slot \ {p}, lock \in Slot \union {NoSlot} :
          lock \in Holds(q)' => lock \in Holds(q)
    BY <1>1, <2>1, HoldsWhat
  <2> QED
    BY <2>1, <2>2, <2>3, LockTaken
<1>5. CASE exit(p)
  BY <1>1, <1>5, LocksKept, HoldsWhat DEF exit
<1>6. ASSUME NEW victim \in Slot, kill(p, victim)
      PROVE  MutualExclusion'
  BY <1>2, <1>6 DEF kill, locals
<1>7. CASE WaitLook(p) \/ WaitSleeps(p)
  <2>1. original_parent' = original_parent
    BY <1>7 DEF WaitLook, NotMine, ChildLives, ChildExited, ScanDone, WaitSleeps
  <2>2. \/ pc' = pc
        \/ pc' = [pc EXCEPT ![p] = "user", ![np[p]] = "none"]
        \/ pc' = [pc EXCEPT ![p] = "user"]
        \/ pc' = [pc EXCEPT ![p] = "asleep"]
    BY <1>7 DEF WaitLook, NotMine, ChildLives, ChildExited, ScanDone, WaitSleeps
  <2>3. \A q \in Slot : pc'[q] = pc[q] \/ pc'[q] \in {"user", "none", "asleep"}
    BY <1>1, <2>2
  <2> QED
    BY <2>1, <2>3, LocksKept, HoldsWhat
<1>8. CASE CopyParent(p)
  BY <1>1, <1>8, LocksKept, HoldsWhat DEF CopyParent
<1>9. CASE LockParent(p)
  <2>1. /\ pc[p] = "lockparent" /\ Free(original_parent[p])
        /\ pc' = [pc EXCEPT ![p] = "lockself"] /\ original_parent' = original_parent
    BY <1>9 DEF LockParent
  <2>2. \A lock \in Slot \union {NoSlot} : lock \in Holds(p)' => lock = original_parent[p]
    BY <1>1, <2>1, HoldsWhat
  <2>3. \A q \in Slot \ {p}, lock \in Slot \union {NoSlot} :
          lock \in Holds(q)' => lock \in Holds(q)
    BY <1>1, <2>1, HoldsWhat
  <2> QED
    BY <2>1, <2>2, <2>3, LockTaken
<1>10. CASE LockSelf(p)
  <2>1. /\ pc[p] = "lockself" /\ Free(p)
        /\ pc' = [pc EXCEPT ![p] = "reparent"] /\ original_parent' = original_parent
    BY <1>10 DEF LockSelf
  <2>2. \A lock \in Slot \union {NoSlot} : lock \in Holds(p)' => lock \in Holds(p) \/ lock = p
    BY <1>1, <2>1, HoldsWhat
  <2>3. \A q \in Slot \ {p}, lock \in Slot \union {NoSlot} :
          lock \in Holds(q)' => lock \in Holds(q)
    BY <1>1, <2>1, HoldsWhat
  <2> QED
    BY <2>1, <2>2, <2>3, LockTaken
<1>11. CASE reparent(p)
  BY <1>2, <1>11 DEF reparent
<1>12. CASE BecomeZombie(p)
  BY <1>1, <1>12, LocksKept, HoldsWhat DEF BecomeZombie
<1>13. CASE forkFails(p)
  BY <1>2, <1>13 DEF forkFails, locals
<1> QED
  BY <1>3, <1>4, <1>5, <1>6, <1>7, <1>8, <1>9, <1>10, <1>11, <1>12, <1>13 DEF WaitStep, ExitStep

-----------------------------------------------------------------------------
\* A process that is exiting changes parents only when reparent() gives it to init.
LEMMA StepParent ==
  ASSUME TreeInv, LockedParentInv, [Next]_vars
  PROVE  LockedParentInv'
<1>1. /\ pc \in [Slot -> Places] /\ parent \in [Slot -> Slot \union {NoSlot}]
      /\ original_parent \in [Slot -> Slot \union {NoSlot}]
  BY DEF TreeInv, TypeOK
<1>2. CASE UNCHANGED <<pc, parent, original_parent>>
  BY <1>2 DEF LockedParentInv
<1> SUFFICES ASSUME NEW p \in Slot,
                    \/ fork(p) \/ forkFails(p) \/ wait(p) \/ exit(p)
                    \/ \E victim \in Slot : kill(p, victim)
                    \/ WaitStep(p) \/ ExitStep(p)
             PROVE  LockedParentInv'
  BY <1>2 DEF Next, vars, locals
<1>3. CASE fork(p)
  <2>1. PICK child \in Slot : /\ parent' = [parent EXCEPT ![child] = p]
                              /\ pc' = [pc EXCEPT ![child] = "user"]
    BY <1>3 DEF fork
  <2>2. original_parent' = original_parent
    BY <1>3 DEF fork
  <2> QED
    BY <1>1, <2>1, <2>2 DEF LockedParentInv
<1>4. CASE wait(p) \/ Awake(p) \/ exit(p) \/ WaitSleeps(p)
  <2>1. /\ UNCHANGED <<parent, original_parent>>
        /\ \A q \in Slot : pc'[q] = pc[q] \/ pc'[q] \in {"scan", "closed", "user", "asleep"}
    BY <1>1, <1>4 DEF wait, Awake, StartScan, exit, WaitSleeps, ScanDone
  <2> QED
    BY <2>1 DEF LockedParentInv
<1>5. ASSUME NEW victim \in Slot, kill(p, victim)
      PROVE  LockedParentInv'
  BY <1>2, <1>5 DEF kill, locals
<1>6. CASE WaitLook(p)
  <2>1. CASE NotMine(p) \/ ChildLives(p)
    BY <1>2, <2>1 DEF NotMine, ChildLives
  <2>2. CASE ChildExited(p)
    <3>1. original_parent' = original_parent
      BY <2>2 DEF ChildExited, ScanDone
    <3>2. CASE freeproc(np[p]) /\ pc' = [pc EXCEPT ![p] = "user", ![np[p]] = "none"]
      <4>1. \A q \in Slot : \/ pc'[q] = pc[q] /\ parent'[q] = parent[q]
                            \/ pc'[q] \in {"user", "none"}
        BY <1>1, <3>2 DEF freeproc
      <4> QED
        BY <3>1, <4>1 DEF LockedParentInv
    <3>3. CASE UNCHANGED <<state, parent, killed>> /\ pc' = [pc EXCEPT ![p] = "user"]
      BY <1>1, <3>1, <3>3 DEF LockedParentInv
    <3> QED
      BY <2>2, <3>2, <3>3 DEF ChildExited
  <2> QED
    BY <1>6, <2>1, <2>2 DEF WaitLook
<1>7. CASE CopyParent(p)
  BY <1>1, <1>7 DEF CopyParent, LockedParentInv
<1>8. CASE LockParent(p) \/ LockSelf(p)
  BY <1>1, <1>8 DEF LockParent, LockSelf, LockedParentInv
<1>9. CASE reparent(p)
  BY <1>1, <1>9 DEF reparent, LockedParentInv
<1>10. CASE BecomeZombie(p)
  BY <1>1, <1>10 DEF BecomeZombie, LockedParentInv
<1>11. CASE forkFails(p)
  BY <1>2, <1>11 DEF forkFails, locals
<1> QED
  BY <1>3, <1>4, <1>5, <1>6, <1>7, <1>8, <1>9, <1>10, <1>11 DEF WaitStep, ExitStep

-----------------------------------------------------------------------------
\* exit() holds the lock of a parent other than init when it becomes a zombie: that
\* parent is neither between its first look and its sleep, nor left asleep.
LEMMA ZombieSeen ==
  ASSUME TypeOK, MutualExclusion, LockedParentInv,
         NEW p \in Slot, BecomeZombie(p), parent[p] # initproc, parent[p] \in Slot
  PROVE  pc[parent[p]] # "scan" /\ state'[parent[p]] # "SLEEPING"
<1>1. /\ pc[p] = "reparent"
      /\ state' = [wakeup1(original_parent[p]) EXCEPT ![p] = "ZOMBIE"]
  BY DEF BecomeZombie, Exited
<1>2. parent[p] = original_parent[p]
  BY <1>1 DEF LockedParentInv
<1>3. pc[parent[p]] # "scan"
  BY <1>1, <1>2, HoldsWhat DEF MutualExclusion
<1>4. state'[parent[p]] # "SLEEPING"
  BY <1>1, <1>2, Wakeup
<1> QED
  BY <1>3, <1>4

\* What each step may do to the zombies: only BecomeZombie makes one, only the
\* end of a scan makes a sleeper.
LEMMA Changes ==
  ASSUME TreeInv, NEW p \in Slot,
         \/ fork(p) \/ forkFails(p) \/ wait(p) \/ exit(p)
         \/ \E victim \in Slot : kill(p, victim)
         \/ Awake(p) \/ WaitLook(p)
         \/ CopyParent(p) \/ LockParent(p) \/ LockSelf(p) \/ reparent(p)
  PROVE  \A s \in Slot :
           /\ state'[s] = "ZOMBIE" =>
                state[s] = "ZOMBIE" /\ parent'[s] \in {parent[s], initproc}
           /\ state'[s] = "SLEEPING" => state[s] = "SLEEPING"
<1>1. /\ state \in [Slot -> {"UNUSED", "RUNNABLE", "SLEEPING", "ZOMBIE"}]
      /\ parent \in [Slot -> Slot \union {NoSlot}]
      /\ initproc \in Slot
  BY ProcessesAssumption DEF TreeInv, TypeOK, initproc, Slot
<1>2. CASE fork(p)
  BY <1>1, <1>2 DEF fork
<1>3. CASE wait(p) \/ Awake(p) \/ CopyParent(p) \/ LockParent(p) \/ LockSelf(p)
  BY <1>3 DEF wait, Awake, StartScan, CopyParent, LockParent, LockSelf
<1>4. CASE exit(p)
  BY <1>1, <1>4, Wakeup DEF exit, TreeInv
<1>5. ASSUME NEW victim \in Slot, kill(p, victim)
      PROVE  \A s \in Slot :
               /\ state'[s] = "ZOMBIE" => state[s] = "ZOMBIE" /\ parent'[s] = parent[s]
               /\ state'[s] = "SLEEPING" => state[s] = "SLEEPING"
  BY <1>1, <1>5 DEF kill
<1>6. CASE WaitLook(p)
  <2>1. CASE UNCHANGED <<state, parent>>
    BY <2>1
  <2>2. CASE freeproc(np[p])
    BY <1>1, <2>2 DEF freeproc
  <2> QED
    BY <1>6, <2>1, <2>2 DEF WaitLook, NotMine, ChildLives, ChildExited
<1>7. CASE reparent(p)
  BY <1>1, <1>7 DEF reparent
<1>8. CASE forkFails(p)
  BY <1>8 DEF forkFails
<1> QED
  BY <1>2, <1>3, <1>4, <1>5, <1>6, <1>7, <1>8

\* What BecomeZombie does to the others: it may wake one.
LEMMA OneZombie ==
  ASSUME TreeInv, NEW p \in Slot, BecomeZombie(p)
  PROVE  \A s \in Slot \ {p} :
           /\ state'[s] = "ZOMBIE" => state[s] = "ZOMBIE"
           /\ state'[s] = "SLEEPING" => state[s] = "SLEEPING"
<1>1. original_parent[p] \in Slot \union {NoSlot} /\ TypeOK
  BY DEF TreeInv, TypeOK
<1>2. state' = [wakeup1(original_parent[p]) EXCEPT ![p] = "ZOMBIE"]
  BY DEF BecomeZombie, Exited
<1> QED
  BY <1>1, <1>2, Wakeup

\* wait() keeps its own slot's lock from the first look to sleep().
LEMMA StepScan ==
  ASSUME TreeInv, MutualExclusion, LockedParentInv, ScanInv, [Next]_vars
  PROVE  ScanInv'
<1>1. /\ pc \in [Slot -> Places] /\ parent \in [Slot -> Slot \union {NoSlot}]
      /\ np \in [Slot -> 1..NPROC + 1] /\ TypeOK /\ Slot \subseteq Nat /\ NPROC \in Nat
  BY ProcessesAssumption DEF TreeInv, TypeOK, Slot
<1>2. CASE UNCHANGED vars
  BY <1>2 DEF vars, locals, ScanInv
<1> SUFFICES ASSUME NEW p \in Slot,
                    \/ fork(p) \/ forkFails(p) \/ wait(p) \/ exit(p)
                    \/ \E victim \in Slot : kill(p, victim)
                    \/ WaitStep(p) \/ ExitStep(p)
             PROVE  ScanInv'
  BY <1>2 DEF Next
<1>3. ASSUME \A s \in Slot : state'[s] = "ZOMBIE" =>
               state[s] = "ZOMBIE" /\ parent'[s] \in {parent[s], initproc},
             \A q \in Slot : pc'[q] = "scan" => pc[q] = "scan" /\ np'[q] = np[q]
      PROVE  ScanInv'
  BY <1>3 DEF ScanInv
<1>4. CASE fork(p)
  <2>1. \A q \in Slot : pc'[q] = "scan" => pc[q] = "scan" /\ np'[q] = np[q]
    BY <1>1, <1>4 DEF fork
  <2> QED
    BY <1>3, <1>4, <2>1, Changes
<1>5. CASE wait(p) \/ Awake(p)
  <2>1. UNCHANGED <<state, parent>>
    BY <1>5 DEF wait, Awake, StartScan
  <2>2. \A q \in Slot \ {p} : pc'[q] = pc[q] /\ np'[q] = np[q]
    BY <1>1, <1>5 DEF wait, Awake, StartScan
  <2>3. \A s \in Slot : ~(s < np'[p])
    BY <1>1, <1>5 DEF wait, Awake, StartScan, Slot
  <2> QED
    BY <2>1, <2>2, <2>3 DEF ScanInv
<1>6. CASE exit(p) \/ \E victim \in Slot : kill(p, victim)
  <2>1. \A q \in Slot : pc'[q] = "scan" => pc[q] = "scan" /\ np'[q] = np[q]
    BY <1>1, <1>6 DEF exit, kill, locals
  <2> QED
    BY <1>3, <1>6, <2>1, Changes
<1>7. CASE WaitLook(p)
  <2>1. CASE NotMine(p) \/ ChildLives(p)
    <3>1. /\ UNCHANGED <<state, parent, pc>> /\ np' = [np EXCEPT ![p] = @ + 1]
          /\ parent[np[p]] = p => state[np[p]] # "ZOMBIE"
      BY <2>1 DEF NotMine, ChildLives
    <3>2. \A s \in Slot : s < np'[p] => s < np[p] \/ s = np[p]
      BY <1>1, <3>1
    <3>3. \A q \in Slot \ {p} : np'[q] = np[q]
      BY <1>1, <3>1
    <3> QED
      BY <3>1, <3>2, <3>3 DEF ScanInv
  <2>2. CASE ChildExited(p)
    <3>1. \A q \in Slot : pc'[q] = "scan" => q # p /\ pc[q] = "scan"
      BY <1>1, <2>2 DEF ChildExited
    <3>2. \A q \in Slot : pc'[q] = "scan" => pc[q] = "scan" /\ np'[q] = np[q]
      BY <1>1, <2>2, <3>1 DEF ChildExited, ScanDone
    <3> QED
      BY <1>3, <1>7, <3>2, Changes
  <2> QED
    BY <1>7, <2>1, <2>2 DEF WaitLook
<1>8. CASE WaitSleeps(p)
  <2>1. \A q \in Slot : pc'[q] = "scan" => pc[q] = "scan" /\ np'[q] = np[q]
    BY <1>1, <1>8 DEF WaitSleeps, ScanDone
  <2>2. \A s \in Slot : state'[s] = "ZOMBIE" => state[s] = "ZOMBIE" /\ parent'[s] = parent[s]
    BY <1>1, <1>8 DEF WaitSleeps, TypeOK
  <2> QED
    BY <1>3, <2>1, <2>2
<1>9. CASE CopyParent(p) \/ LockParent(p) \/ LockSelf(p) \/ reparent(p)
  <2>1. \A q \in Slot : pc'[q] = "scan" => pc[q] = "scan" /\ np'[q] = np[q]
    BY <1>1, <1>9 DEF CopyParent, LockParent, LockSelf, reparent
  <2> QED
    BY <1>3, <1>9, <2>1, Changes
<1>10. CASE BecomeZombie(p)
  <2>1. \A q \in Slot : pc'[q] = "scan" => pc[q] = "scan" /\ np'[q] = np[q]
    BY <1>1, <1>10 DEF BecomeZombie
  <2>2. parent' = parent
    BY <1>10 DEF BecomeZombie
  <2>3. ASSUME NEW q \in Slot \ {initproc}, pc'[q] = "scan", parent[p] = q
        PROVE  FALSE
    BY <1>1, <1>10, <2>1, <2>3, ZombieSeen
  <2> QED
    BY <1>10, <2>1, <2>2, <2>3, OneZombie DEF ScanInv
<1>11. CASE forkFails(p)
  BY <1>11 DEF forkFails, locals, ScanInv
<1> QED
  BY <1>4, <1>5, <1>6, <1>7, <1>8, <1>9, <1>10, <1>11 DEF WaitStep, ExitStep

\* Neither a child's exit() nor its parent's sleep() leaves the parent asleep.
LEMMA StepMissed ==
  ASSUME TreeInv, MutualExclusion, LockedParentInv, ScanInv, NoExitMissed, [Next]_vars
  PROVE  NoExitMissed'
<1>1. /\ state \in [Slot -> {"UNUSED", "RUNNABLE", "SLEEPING", "ZOMBIE"}]
      /\ parent \in [Slot -> Slot \union {NoSlot}]
      /\ np \in [Slot -> 1..NPROC + 1] /\ TypeOK /\ NPROC \in Nat
  BY ProcessesAssumption DEF TreeInv, TypeOK
<1>2. \A s \in Slot : state[s] = "ZOMBIE" => parent[s] \in Slot
  BY <1>1 DEF TreeInv, InitInv, ParentInv, TypeOK
<1>3. CASE UNCHANGED vars
  BY <1>3 DEF vars, locals, NoExitMissed
<1> SUFFICES ASSUME NEW p \in Slot,
                    \/ fork(p) \/ forkFails(p) \/ wait(p) \/ exit(p)
                    \/ \E victim \in Slot : kill(p, victim)
                    \/ WaitStep(p) \/ ExitStep(p)
             PROVE  NoExitMissed'
  BY <1>3 DEF Next
<1>4. CASE \/ fork(p) \/ forkFails(p) \/ wait(p) \/ exit(p)
           \/ \E victim \in Slot : kill(p, victim)
           \/ Awake(p) \/ WaitLook(p)
           \/ CopyParent(p) \/ LockParent(p) \/ LockSelf(p) \/ reparent(p)
  <2>1. \A s \in Slot :
          /\ state'[s] = "ZOMBIE" =>
               state[s] = "ZOMBIE" /\ parent'[s] \in {parent[s], initproc}
          /\ state'[s] = "SLEEPING" => state[s] = "SLEEPING"
    BY <1>4, Changes
  <2> QED
    BY <1>2, <2>1 DEF NoExitMissed
<1>5. CASE WaitSleeps(p)
  <2>1. pc[p] = "scan" /\ np[p] > NPROC /\ parent' = parent
    BY <1>5 DEF WaitSleeps, TableDone
  <2>2. \A s \in Slot : s < np[p]
    BY <1>1, <2>1 DEF Slot
  <2>3. p # initproc => \A s \in Slot : parent[s] = p => state[s] # "ZOMBIE"
    BY <2>1, <2>2 DEF ScanInv
  <2>4. state' = state \/ state' = [state EXCEPT ![p] = "SLEEPING"]
    BY <1>5 DEF WaitSleeps
  <2>5. \A s \in Slot : /\ state'[s] = "ZOMBIE" => state[s] = "ZOMBIE"
                        /\ s # p /\ state'[s] = "SLEEPING" => state[s] = "SLEEPING"
    BY <1>1, <2>4
  <2>6. state[p] # "SLEEPING" /\ state[p] # "ZOMBIE"
    BY <1>1, <2>1, StateOf
  <2> QED
    BY <1>2, <2>1, <2>3, <2>5 DEF NoExitMissed
<1>6. CASE BecomeZombie(p)
  <2>1. parent' = parent /\ pc[p] = "reparent"
    BY <1>6 DEF BecomeZombie
  <2>2. parent[p] # initproc => parent[p] \in Slot
    BY <1>1, <2>1, StateOf DEF TreeInv, InitInv, ParentInv
  <2>3. parent[p] # initproc => state'[parent[p]] # "SLEEPING"
    BY <1>1, <1>6, <2>2, ZombieSeen
  <2>4. state'[p] = "ZOMBIE"
    BY <1>1, <1>6, Wakeup DEF BecomeZombie, Exited, TypeOK
  <2> QED
    BY <1>2, <1>6, <2>1, <2>3, <2>4, OneZombie DEF NoExitMissed
<1> QED
  BY <1>4, <1>5, <1>6 DEF WaitStep, ExitStep

-----------------------------------------------------------------------------
\* fork(), exit(), wait() and kill() keep the invariant.
LEMMA Inductive == Spec => []IInv
<1>1. Init => IInv
  BY InitHolds
<1>2. IInv /\ [Next]_vars => IInv'
  BY StepTree, StepLocks, StepParent, StepScan, StepMissed DEF IInv, TreeInv
<1> QED
  BY <1>1, <1>2, PTL DEF Spec

\* exit() gives every child to init before it becomes a zombie, and nobody forks
\* or reaps in a way that leaves a process without a parent to wait for it.
THEOREM TreeBelowInit == Spec => []FamilyTree
<1>1. IInv => FamilyTree
  BY DEF IInv, TreeInv, FamilyTree, ParentInv, NoLoop, Live
<1> QED
  BY <1>1, Inductive, PTL

\* A process asleep in wait() has no zombie child, init excepted.
THEOREM ExitsSeen == Spec => []NoExitMissed
<1>1. IInv => NoExitMissed
  BY DEF IInv
<1> QED
  BY <1>1, Inductive, PTL

\* No slot's lock has two holders.
THEOREM LocksExclude == Spec => []MutualExclusion
<1>1. IInv => MutualExclusion
  BY DEF IInv
<1> QED
  BY <1>1, Inductive, PTL
=============================================================================
