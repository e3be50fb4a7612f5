------------------------------ MODULE RtThreads ------------------------------
(***************************************************************************)
(* The thread library of mp3 (mp3/xv6/user/threads.c) with its schedulers  *)
(* (threads_sched.c) on the timer that the kernel gives it (thrdstop(),    *)
(* cancelthrdstop(), thrdresume() of kernel/thrd.c and trap.c).            *)
(*                                                                         *)
(* Only the running thread or the timer's handler acts, so what happens    *)
(* from one expiry to the next dispatch is one step: a function of the     *)
(* library's variables, put together from the functions of the code.  The  *)
(* program may mix real-time threads and others, of any priority: each     *)
(* scheduler passes over those that are not its own.  schedule_edf_cbs()   *)
(* is an empty body; the fields for it are left out.  A program creates    *)
(* fewer than MAX_THRD_NUM threads.                                        *)
(***************************************************************************)
EXTENDS Integers, Sequences, SequencesExt, FiniteSets

CONSTANTS
  Thrd,            \* the IDs: 1, 2, ... in the order of thread_create()
  Scheduler,       \* SCHEDPOLICY of the builds
  Tasks(_),        \* per build: what thread_create() and thread_add_at() are given
  TIME_QUANTUM

ASSUME RtAssumption ==
  /\ IsFiniteSet(Thrd) /\ Thrd = 1..Cardinality(Thrd)
  /\ Scheduler \subseteq {"DEFAULT", "HRRN", "PRIORITY_RR", "DM"}
  /\ TIME_QUANTUM \in Nat \ {0}
  /\ \A s \in Scheduler : \A k \in Tasks(s) :
       /\ k.is_real_time \in BOOLEAN
       /\ k.period \in Nat \union {-1} /\ k.processing_time \in Nat \ {0}
       /\ k.n \in Nat \ {0} /\ k.arrival \in Nat /\ k.priority \in Nat

VARIABLES
  sched,   \* the build
  task,    \* the fields of struct thread that stay as they are
  lib      \* the library's variables and the others of struct thread

rt_vars == <<sched, task, lib>>

NoThread == 0                   \* current is &run_queue

\* job: n, remaining_time, current_deadline and arrival_time; the last is also
\* the release_time of the thread's entry in the release queue.
\* freed: the threads whose struct thread is given back.
\* at: what the process is doing.
\* since: history, the threads dispatched since the thread is in the run queue.
RtInit ==
  /\ sched \in Scheduler
  /\ task \in [Thrd -> Tasks(sched)]
  /\ lib = [time |-> 0, run |-> <<>>, release |-> [t \in Thrd |-> t],
            job |-> [t \in Thrd |->
                       [n |-> task[t].n, remaining |-> task[t].processing_time,
                        deadline |-> IF task[t].is_real_time
                                    THEN task[t].arrival + task[t].period ELSE 0,
                        arrival |-> task[t].arrival]],
            current |-> NoThread, allocated |-> 0, freed |-> {}, at |-> "start",
            since |-> [t \in Thrd |-> {}]]

-----------------------------------------------------------------------------
(* Queues *)

Least(S) == CHOOSE x \in S : \A y \in S : x <= y

\* The entries of the queue that are in S, in the queue's order: SelectSeq() as a
\* recursive function.
Keep(queue, S) ==
  LET kept[n \in 0..Len(queue)] ==
        IF n = 0 THEN <<>>
        ELSE IF queue[n] \in S THEN Append(kept[n - 1], queue[n]) ELSE kept[n - 1]
  IN kept[Len(queue)]

Due(s) == {t \in Thrd : s.job[t].arrival <= s.time}
Released(s) == Keep(s.release, Due(s))
StillWaiting(s) == Keep(s.release, Thrd \ Due(s))

__release(s) ==
  [s EXCEPT
     !.run = @ \o Released(s), !.release = StillWaiting(s),
     !.job = [t \in Thrd |->
       IF Contains(Released(s), t)
       THEN [s.job[t] EXCEPT !.remaining = task[t].processing_time,
                             !.deadline = s.job[t].arrival + task[t].period]
       ELSE s.job[t]]]

\* list_del(), the queue given back.
Without(queue, t) == Keep(queue, Thrd \ {t})

\* list_del() and list_add_tail().
ToTail(queue, t) == Append(Without(queue, t), t)

\* The next cycle begins at the deadline of this one.
thread_add_at(s, t) ==
  LET at == s.job[t].deadline IN
  [s EXCEPT !.job[t].arrival = at,
            !.job[t].deadline = IF task[t].is_real_time THEN at + task[t].period ELSE @,
            !.release = Append(@, t)]

-----------------------------------------------------------------------------
(* The schedulers: from the library's variables to `current` and              *)
(* `allocated_time`                                                           *)

Picks(s, t, ticks) == [s EXCEPT !.current = t, !.allocated = ticks]
PicksNone(s) == Picks(s, NoThread, 1)
Queued(s) == ToSet(s.run)
RealTime(s) == {t \in Queued(s) : task[t].is_real_time}
Ordinary(s) == Queued(s) \ RealTime(s)

schedule_default(s) ==
  IF s.run = <<>> THEN PicksNone(s)
  ELSE LET t == Least(Queued(s)) IN Picks(s, t, s.job[t].remaining)

\* t's response ratio is greater than u's, (w + b) / b with w the time since its
\* arrival, or equal and its ID is less.
\* Mutant: the products are formed with the wrong burst times.
BeatsSwapped(s, t, u) ==
  LET b(x) == task[x].processing_time
      w(x) == s.time - s.job[x].arrival
      mine == (w(t) + b(t)) * b(t)
      its  == (w(u) + b(u)) * b(u)
  IN mine > its \/ (mine = its /\ t < u)
Beats(s, t, u) ==
  LET b(x) == task[x].processing_time
      w(x) == s.time - s.job[x].arrival
      mine == (w(t) + b(t)) * b(u)
      its  == (w(u) + b(u)) * b(t)
  IN mine > its \/ (mine = its /\ t < u)

schedule_hrrn(s) ==
  IF Ordinary(s) = {} THEN PicksNone(s)
  ELSE LET t == CHOOSE t \in Ordinary(s) : \A u \in Ordinary(s) \ {t} : Beats(s, t, u)
       IN Picks(s, t, s.job[t].remaining)

\* A priority above 5, like the 100 of thread_create(), is never the highest.
Highest(s) == Least({5} \union {task[t].priority : t \in Ordinary(s)})
Group(s) ==
  Keep(s.run, {t \in Thrd : ~task[t].is_real_time /\ task[t].priority = Highest(s)})

\* A thread that is alone in its group, or will be done within the quantum, is
\* not interrupted.
schedule_priority_rr(s) ==
  IF Group(s) = <<>> THEN PicksNone(s)
  ELSE LET t == Head(Group(s)) IN
       IF Len(Group(s)) = 1 \/ s.job[t].remaining <= TIME_QUANTUM
       THEN Picks(s, t, s.job[t].remaining)
       ELSE Picks([s EXCEPT !.run = ToTail(@, t)], t, TIME_QUANTUM)

Missed(s) == {t \in Queued(s) : s.job[t].deadline <= s.time}
Shorter(t, u) ==
  \/ task[t].period < task[u].period
  \/ task[t].period = task[u].period /\ t < u

ToNextRelease(s) == {s.job[t].arrival - s.time : t \in ToSet(s.release)}

\* What the thread may run: until it is done, its deadline, the next release.
\* Mutant: a release does not interrupt it.
SafeTicksUnpreempted(s, t) == Least({s.job[t].remaining, s.job[t].deadline - s.time})
SafeTicks(s, t) ==
  Least({s.job[t].remaining, s.job[t].deadline - s.time} \union ToNextRelease(s))

\* schedule_dm() also looks for threads to release; __release() has left none.  A
\* thread without a deadline of its own counts as missed too, and one that has not
\* missed is not chosen: the timer is then set to 0 ticks.
schedule_dm(s) ==
  IF Missed(s) # {} THEN Picks(s, Least(Missed(s)), 0)
  ELSE IF s.run = <<>> THEN Picks(s, NoThread, Least(ToNextRelease(s) \union
                                                     (IF s.release = <<>> THEN {0} ELSE {})))
  ELSE IF RealTime(s) = {} THEN Picks(s, NoThread, 0)
  ELSE LET t == CHOOSE t \in RealTime(s) : \A u \in RealTime(s) \ {t} : Shorter(t, u)
       IN Picks(s, t, SafeTicks(s, t))

__schedule(s) ==
  CASE sched = "DEFAULT" -> schedule_default(s)
    [] sched = "HRRN" -> schedule_hrrn(s)
    [] sched = "PRIORITY_RR" -> schedule_priority_rr(s)
    [] sched = "DM" -> schedule_dm(s)

-----------------------------------------------------------------------------
(* Dispatch, and the end of a turn *)

Misses(s) == [s EXCEPT !.at = "missed"]

\* The timer runs while the thread does.  Without a thread the main thread goes
\* on behind its cancelthrdstop() and sleeps, or returns when there is nothing
\* left to wait for.
__dispatch(s) ==
  IF s.current = NoThread
  THEN [s EXCEPT !.at = IF s.run = <<>> /\ s.release = <<>> THEN "done" ELSE "asleep"]
  ELSE IF task[s.current].is_real_time /\ s.allocated = 0 THEN Misses(s)
  ELSE [s EXCEPT !.at = "running",
                 !.since = [t \in Thrd |->
                   IF t = s.current \/ ~Contains(s.run, t) THEN {}
                   ELSE s.since[t] \union {s.current}]]

__thread_exit(s, t) ==
  __dispatch(__schedule([s EXCEPT !.run = Without(@, t), !.freed = @ \union {t}]))

\* The switch_handler() behind __release() for a thread that is not done.
SwitchesOn(s) == __dispatch(__schedule(__release(s)))

\* Mutant: the entry stays in the run queue.
NextCycleKept(s, t) == SwitchesOn(thread_add_at(s, t))
NextCycle(s, t) == SwitchesOn(thread_add_at([s EXCEPT !.run = Without(@, t)], t))

\* __finish_current() and __rt_finish_current().
FinishCurrent(s, t) ==
  LET e == [s EXCEPT !.job[t].n = @ - 1]
  IN IF e.job[t].n > 0 THEN NextCycle(e, t) ELSE __thread_exit(e, t)

Requeued(s, t) == SwitchesOn([s EXCEPT !.run = ToTail(@, t)])

TooLate(s, t) ==
  /\ task[t].is_real_time
  /\ \/ s.time > s.job[t].deadline
     \/ s.time = s.job[t].deadline /\ s.job[t].remaining > 0

\* A timer of 0 ticks never expires.
switch_handler ==
  /\ lib.at = "running" /\ lib.allocated > 0
  /\ LET t == lib.current
         elapsed == [lib EXCEPT !.time = @ + lib.allocated]
         s == [__release(elapsed) EXCEPT !.job[t].remaining = @ - lib.allocated]
     IN lib' = IF TooLate(s, t) THEN Misses(s)
               ELSE IF s.job[t].remaining <= 0 THEN FinishCurrent(s, t)
               ELSE Requeued(s, t)
  /\ UNCHANGED <<sched, task>>

\* thread_exit(): the thread's function ends before the timer does.
ThreadExits ==
  /\ lib.at = "running"
  /\ \E ticks \in {0} \union 0..lib.allocated - 1 :
       lib' = __thread_exit(__release([lib EXCEPT !.time = @ + ticks]), lib.current)
  /\ UNCHANGED <<sched, task>>

\* One round of the loop of thread_start_threading().
MainRound(s) == SwitchesOn(s)

Start == lib.at = "start" /\ lib' = MainRound(lib) /\ UNCHANGED <<sched, task>>

back_to_main_handler ==
  /\ lib.at = "asleep" /\ lib.allocated > 0
  /\ lib' = MainRound([lib EXCEPT !.time = @ + lib.allocated])
  /\ UNCHANGED <<sched, task>>

RtNext == Start \/ switch_handler \/ ThreadExits \/ back_to_main_handler

RtSpec == RtInit /\ [][RtNext]_rt_vars

-----------------------------------------------------------------------------
(* Properties *)

RtTypeOK ==
  /\ lib.time \in Nat /\ lib.allocated \in Nat
  /\ lib.run \in Seq(Thrd) /\ lib.release \in Seq(Thrd)
  /\ lib.job \in [Thrd -> [n : Nat, remaining : Nat, deadline : Int, arrival : Int]]
  /\ lib.current \in Thrd \union {NoThread} /\ lib.freed \in SUBSET Thrd
  /\ lib.at \in {"start", "running", "asleep", "missed", "done"}

\* Whom the build's scheduler may choose.
Eligible(t) ==
  CASE sched = "DEFAULT" -> TRUE
    [] sched = "HRRN" -> ~task[t].is_real_time
    [] sched = "PRIORITY_RR" -> ~task[t].is_real_time /\ task[t].priority <= 5
    [] sched = "DM" -> task[t].is_real_time

\* Every thread that is not freed is in one queue, once, and nobody else is; whoever
\* runs is in the run queue and has cycles left; the processor is idle only while
\* nobody whom the scheduler may choose could run, and not beyond the next release;
\* with an empty run queue the timer that ends the idling is set; and the main thread
\* returns only when all threads are freed.  Threads are taken out of the list and
\* put back at seven places in the code.
QueuesExact ==
  /\ RtTypeOK
  /\ IsInjective(lib.run \o lib.release)
  /\ ToSet(lib.run \o lib.release) = Thrd \ lib.freed
  /\ lib.at = "running" =>
       Contains(lib.run, lib.current) /\ lib.job[lib.current].n > 0
  /\ lib.at = "asleep" =>
       /\ \A t \in ToSet(lib.run) : ~Eligible(t)
       /\ lib.run = <<>> => lib.allocated > 0
       /\ \A t \in ToSet(lib.release) : lib.job[t].arrival >= lib.time + lib.allocated
  /\ lib.at = "done" => lib.freed = Thrd

\* The reference for DM: the worst response time of a real-time thread, every one of
\* a shorter period included with as many cycles as it has.
Demand(t, R) ==
  LET cycles(u) == Least({task[u].n, (R + task[u].period - 1) \div task[u].period})
      higher == {u \in Thrd : task[u].is_real_time /\ Shorter(u, t)}
  IN task[t].processing_time
       + FoldLeft(LAMBDA sum, u : sum + cycles(u) * task[u].processing_time, 0,
                  SetToSeq(higher))
MeetsDeadlines(t) == \E R \in 1..task[t].period : Demand(t, R) <= R

\* DM reports a missed deadline only for a real-time thread whose worst response
\* time is beyond its period; and when all of them arrive together and none exits
\* before its cycles are done, all deadlines are met only if every response time is
\* within its period.
MissesAsAnalysed ==
  LET RT == {t \in Thrd : task[t].is_real_time} IN
  sched = "DM" =>
    /\ lib.at = "missed" => lib.current \in RT /\ ~MeetsDeadlines(lib.current)
    /\ /\ lib.at = "done" /\ \A t, u \in RT : task[t].arrival = task[u].arrival
       /\ \A t \in RT : lib.job[t].n = 0
       => \A t \in RT : MeetsDeadlines(t)

Waits(s, t, u) == t # u /\ Contains(s.run, t) /\ Eligible(t)

\* P-RR: nobody has two turns while another thread of his priority waits for one
\* that the scheduler may give it.
RoundRobin(u) ==
  \A t \in Thrd :
    Waits(lib', t, u) /\ task[t].priority = task[u].priority => u \notin lib.since[t]

\* HRRN: nobody runs before a thread that has waited longer for less.
ShorterAndEarlierFirst(u) ==
  \A t \in Thrd : Waits(lib', t, u) =>
    ~(lib'.job[t].arrival < lib'.job[u].arrival
        /\ task[t].processing_time <= task[u].processing_time)

\* Nobody is overtaken against the rules of the scheduler, in whatever order the
\* threads arrive, are interrupted and end.
NotOvertaken ==
  [][lib'.at = "running" =>
       /\ sched = "PRIORITY_RR" => RoundRobin(lib'.current)
       /\ sched = "HRRN" => ShorterAndEarlierFirst(lib'.current)]_rt_vars
=============================================================================
