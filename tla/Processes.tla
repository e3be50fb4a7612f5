------------------------------ MODULE Processes ------------------------------
(***************************************************************************)
(* The life of a process in mp4/kernel/proc.c: fork(), exit(), wait() and  *)
(* kill() on the process table, with the order in which they take the      *)
(* locks of its slots.                                                     *)
(*                                                                         *)
(* A step runs from one acquire() to the next: what a process does while   *)
(* it holds locks is seen by nobody who must take them first, except for   *)
(* `parent`, which wait() and reparent() read without the lock, one slot   *)
(* per step.  A section that takes one lock and no other inside it is one  *)
(* step.  The scheduler may leave any process that holds no lock where it  *)
(* is for as long as it likes, so RUNNING and RUNNABLE are one state here. *)
(*                                                                         *)
(* A slot's number stands for its process: pids are never reused while the *)
(* slot is; an unused slot has pid 0.  Nobody kills init: exit() panics    *)
(* for it.                                                                 *)
(***************************************************************************)
EXTENDS Integers, FiniteSets

CONSTANTS
  NPROC       \* slots of the process table

ASSUME ProcessesAssumption == NPROC \in Nat \ {0}

Slot     == 1..NPROC
initproc == 1
NoSlot   == 0

VARIABLES
  state, parent, killed,   \* fields of struct proc
  pc,                      \* where its process is in the kernel
  np,                      \* the slot its scan of the table has come to
  havekids,                \* wait()'s local variable
  original_parent          \* exit()'s local variable

locals == <<pc, np, havekids, original_parent>>
vars   == <<state, parent, killed, locals>>

Places == {"none", "user", "scan", "asleep", "closed", "lockparent", "lockself",
           "reparent", "zombie"}

TypeOK ==
  /\ state \in [Slot -> {"UNUSED", "RUNNABLE", "SLEEPING", "ZOMBIE"}]
  /\ parent \in [Slot -> Slot \union {NoSlot}]
  /\ killed \in [Slot -> BOOLEAN]
  /\ pc \in [Slot -> Places]
  /\ np \in [Slot -> 1..NPROC + 1]
  /\ havekids \in [Slot -> BOOLEAN]
  /\ original_parent \in [Slot -> Slot \union {NoSlot}]
  /\ \A s \in Slot :
       /\ state[s] = "UNUSED" <=> pc[s] = "none"
       /\ state[s] = "ZOMBIE" <=> pc[s] = "zombie"
       /\ state[s] = "SLEEPING" => pc[s] = "asleep"
       /\ state[s] = "UNUSED" => parent[s] = NoSlot

Init ==
  /\ state = [s \in Slot |-> IF s = initproc THEN "RUNNABLE" ELSE "UNUSED"]
  /\ parent = [s \in Slot |-> NoSlot]
  /\ killed = [s \in Slot |-> FALSE]
  /\ pc = [s \in Slot |-> IF s = initproc THEN "user" ELSE "none"]
  /\ np = [s \in Slot |-> 1]
  /\ havekids = [s \in Slot |-> FALSE]
  /\ original_parent = [s \in Slot |-> NoSlot]

-----------------------------------------------------------------------------
(* Locks *)

\* Mutant: wait() lets its lock go before it decides to sleep.
HoldsToLook(p) ==
  CASE pc[p] = "scan"     -> {s \in {p} : np[p] <= NPROC}
    [] pc[p] = "lockself" -> {original_parent[p]}
    [] pc[p] = "reparent" -> {original_parent[p], p}
    [] OTHER              -> {}

\* Mutant: sleep() keeps the lock.
HoldsAsleep(p) ==
  CASE pc[p] \in {"scan", "asleep"} -> {p}
    [] pc[p] = "lockself" -> {original_parent[p]}
    [] pc[p] = "reparent" -> {original_parent[p], p}
    [] OTHER              -> {}

\* The slots whose locks p's process holds between two steps.
Holds(p) ==
  CASE pc[p] = "scan"     -> {p}
    [] pc[p] = "lockself" -> {original_parent[p]}
    [] pc[p] = "reparent" -> {original_parent[p], p}
    [] OTHER              -> {}

Free(lock) == \A q \in Slot : lock \notin Holds(q)

\* The locks p's process spins on, given where it is.
Wants(p) ==
  CASE pc[p] = "lockparent" -> {original_parent[p]}
    [] pc[p] = "lockself"   -> {p}
    [] pc[p] \in {"scan", "reparent"} ->
         {s \in Slot : s = np[p] /\ parent[s] = p}
    [] OTHER -> {}

\* The states after wakeup1(p).  wait() is the only place a process sleeps on
\* its own slot.
wakeup1(p) ==
  IF state[p] = "SLEEPING" /\ pc[p] = "asleep"
  THEN [state EXCEPT ![p] = "RUNNABLE"] ELSE state

\* Mutant: the last slot is not looked at.
TableDoneEarly(p) == np[p] >= NPROC

TableDone(p) == np[p] > NPROC

\* A process asks for something only while it is not killed: usertrap() makes
\* it exit() before the call otherwise.
InUser(p) == pc[p] = "user" /\ ~killed[p]

-----------------------------------------------------------------------------
(* fork() and kill() *)

\* allocproc() takes the locks one by one and keeps that of an unused slot
\* until the child is complete.  It does not reset `killed`.
fork(p) ==
  /\ InUser(p)
  /\ \E child \in Slot :
       /\ state[child] = "UNUSED" /\ Free(child)
       /\ state' = [state EXCEPT ![child] = "RUNNABLE"]
       /\ parent' = [parent EXCEPT ![child] = p]
       /\ pc' = [pc EXCEPT ![child] = "user"]
  /\ UNCHANGED <<killed, np, havekids, original_parent>>

\* When the child's memory cannot be had, freeproc() gives the slot back.
forkFails(p) ==
  /\ InUser(p)
  /\ \E child \in Slot :
       /\ state[child] = "UNUSED" /\ Free(child)
       /\ killed' = [killed EXCEPT ![child] = FALSE]
  /\ UNCHANGED <<state, parent, locals>>

\* kill() compares pids only: kill(0) finds an unused slot, whose pid is 0.
kill(p, victim) ==
  /\ InUser(p)
  /\ victim # initproc /\ Free(victim)
  /\ killed' = [killed EXCEPT ![victim] = TRUE]
  /\ state' = [state EXCEPT ![victim] = IF @ = "SLEEPING" THEN "RUNNABLE" ELSE @]
  /\ UNCHANGED <<parent, locals>>

-----------------------------------------------------------------------------
(* wait() *)

StartScan(p) ==
  /\ Free(p)
  /\ pc' = [pc EXCEPT ![p] = "scan"]
  /\ np' = [np EXCEPT ![p] = 1]
  /\ havekids' = [havekids EXCEPT ![p] = FALSE]
  /\ UNCHANGED <<state, parent, killed, original_parent>>

wait(p) == InUser(p) /\ StartScan(p)

\* sleep() returns with p's lock, which the scheduler took to run it.
Awake(p) == pc[p] = "asleep" /\ state[p] = "RUNNABLE" /\ StartScan(p)

\* The locals of a scan mean nothing after it.
ScanDone(p) ==
  /\ np' = [np EXCEPT ![p] = 1]
  /\ havekids' = [havekids EXCEPT ![p] = FALSE]
  /\ UNCHANGED original_parent

freeproc(s) ==
  /\ state' = [state EXCEPT ![s] = "UNUSED"]
  /\ parent' = [parent EXCEPT ![s] = NoSlot]
  /\ killed' = [killed EXCEPT ![s] = FALSE]

\* One turn of wait()'s loop over the table.
NotMine(p) ==
  /\ parent[np[p]] # p
  /\ np' = [np EXCEPT ![p] = @ + 1]
  /\ UNCHANGED <<state, parent, killed, pc, havekids, original_parent>>

ChildLives(p) ==
  /\ parent[np[p]] = p /\ Free(np[p])
  /\ state[np[p]] # "ZOMBIE"
  /\ np' = [np EXCEPT ![p] = @ + 1]
  /\ havekids' = [havekids EXCEPT ![p] = TRUE]
  /\ UNCHANGED <<state, parent, killed, pc, original_parent>>

ChildExited(p) ==
  /\ parent[np[p]] = p /\ Free(np[p])
  /\ state[np[p]] = "ZOMBIE"
  /\ \/ freeproc(np[p]) /\ pc' = [pc EXCEPT ![p] = "user", ![np[p]] = "none"]
     \/ UNCHANGED <<state, parent, killed>>      \* copyout() fails
        /\ pc' = [pc EXCEPT ![p] = "user"]
  /\ ScanDone(p)

WaitLook(p) ==
  /\ pc[p] = "scan" /\ ~TableDone(p)
  /\ NotMine(p) \/ ChildLives(p) \/ ChildExited(p)

WaitSleeps(p) ==
  /\ pc[p] = "scan" /\ TableDone(p)
  /\ IF ~havekids[p] \/ killed[p]
     THEN pc' = [pc EXCEPT ![p] = "user"] /\ UNCHANGED state
     ELSE /\ pc' = [pc EXCEPT ![p] = "asleep"]
          /\ state' = [state EXCEPT ![p] = "SLEEPING"]
  /\ ScanDone(p) /\ UNCHANGED <<parent, killed>>

-----------------------------------------------------------------------------
(* exit(), called by the process or by usertrap() for a killed one *)

\* Files and the current directory are given back; then init is woken, in case
\* it is about to inherit children.
exit(p) ==
  /\ pc[p] = "user" /\ p # initproc
  /\ Free(initproc)
  /\ state' = wakeup1(initproc)
  /\ pc' = [pc EXCEPT ![p] = "closed"]
  /\ UNCHANGED <<parent, killed, np, havekids, original_parent>>

CopyParent(p) ==
  /\ pc[p] = "closed" /\ Free(p)
  /\ original_parent' = [original_parent EXCEPT ![p] = parent[p]]
  /\ pc' = [pc EXCEPT ![p] = "lockparent"]
  /\ UNCHANGED <<state, parent, killed, np, havekids>>

LockParent(p) ==
  /\ pc[p] = "lockparent" /\ Free(original_parent[p])
  /\ pc' = [pc EXCEPT ![p] = "lockself"]
  /\ UNCHANGED <<state, parent, killed, np, havekids, original_parent>>

LockSelf(p) ==
  /\ pc[p] = "lockself" /\ Free(p)
  /\ pc' = [pc EXCEPT ![p] = "reparent"]
  /\ np' = [np EXCEPT ![p] = 1]
  /\ UNCHANGED <<state, parent, killed, havekids, original_parent>>

reparent(p) ==
  /\ pc[p] = "reparent" /\ ~TableDone(p)
  /\ IF parent[np[p]] = p
     THEN Free(np[p]) /\ parent' = [parent EXCEPT ![np[p]] = initproc]
     ELSE UNCHANGED parent
  /\ np' = [np EXCEPT ![p] = @ + 1]
  /\ UNCHANGED <<state, killed, pc, havekids, original_parent>>

\* Mutant: exit() relies on the wakeup of init.
ExitedToInit(p) == [wakeup1(initproc) EXCEPT ![p] = "ZOMBIE"]

Exited(p) == [wakeup1(original_parent[p]) EXCEPT ![p] = "ZOMBIE"]

BecomeZombie(p) ==
  /\ pc[p] = "reparent" /\ TableDone(p)
  /\ state' = Exited(p)
  /\ pc' = [pc EXCEPT ![p] = "zombie"]
  /\ np' = [np EXCEPT ![p] = 1]
  /\ original_parent' = [original_parent EXCEPT ![p] = NoSlot]
  /\ UNCHANGED <<parent, killed, havekids>>

-----------------------------------------------------------------------------
WaitStep(p) == Awake(p) \/ WaitLook(p) \/ WaitSleeps(p)
ExitStep(p) ==
  CopyParent(p) \/ LockParent(p) \/ LockSelf(p) \/ reparent(p) \/ BecomeZombie(p)

Next ==
  \E p \in Slot :
    \/ fork(p) \/ forkFails(p) \/ wait(p) \/ exit(p)
    \/ \E victim \in Slot : kill(p, victim)
    \/ WaitStep(p) \/ ExitStep(p)

Spec == Init /\ [][Next]_vars

\* A process inside wait() or exit() goes on, and one that spins on a lock
\* that is free again and again takes it once.  Nobody is bound to make a call.
FairSpec ==
  Spec /\ \A p \in Slot : SF_vars(WaitStep(p)) /\ SF_vars(ExitStep(p))

-----------------------------------------------------------------------------
(* Properties *)

\* The processes form a tree below init: everyone else has a parent that is
\* neither dead nor reaped and can still call wait(), and no set of processes
\* has all its parents inside itself.  exit() must reparent every child,
\* one by one, before it turns into a zombie, while others fork and reap.
FamilyTree ==
  /\ TypeOK
  /\ \A s \in Slot \ {initproc} :
       state[s] # "UNUSED" =>
         parent[s] # NoSlot /\ state[parent[s]] \in {"RUNNABLE", "SLEEPING"}
  /\ \A family \in SUBSET (Slot \ {initproc}) :
       family # {} => \E s \in family : parent[s] \notin family

\* No exit is slept through: a process asleep in wait() has no zombie among its
\* children.  exit() takes the parent's lock before its own for this, and
\* wait() holds it from its first look to sleep().  init is excepted: it may
\* inherit a zombie after the wakeup that was meant for it.
NoExitMissed ==
  \A s \in Slot :
    state[s] = "ZOMBIE" /\ parent[s] # initproc => state[parent[s]] # "SLEEPING"

\* Some processes each spin on a lock that another of them holds.  exit() may get
\* there: by the time it takes the lock of original_parent that slot may be
\* another process's, one that is below it in the order of locks.
LockCycle ==
  \E ring \in SUBSET Slot :
    /\ ring # {}
    /\ \A p \in ring : \E q \in ring : Wants(p) \intersect Holds(q) # {}

\* exit() comes to its end, unless it is caught in such a cycle or behind one.
ExitEnds ==
  \A p \in Slot : pc[p] = "closed" ~> state[p] = "ZOMBIE" \/ LockCycle

\* wait() returns once a child has exited.
WaitReturns ==
  \A p \in Slot \ {initproc} :
    (\E s \in Slot : state[s] = "ZOMBIE" /\ parent[s] = p) /\ pc[p] \in {"scan", "asleep"}
      ~> pc[p] = "user" \/ LockCycle
=============================================================================
