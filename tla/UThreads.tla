------------------------------ MODULE UThreads ------------------------------
(***************************************************************************)
(* The user-level threads of mp1 (threads.c): a ring of threads that is    *)
(* walked by schedule(), the two jmp_bufs of each thread, signals and      *)
(* suspension.                                                             *)
(*                                                                         *)
(* One process runs it all, so a step is what the running thread does      *)
(* between two decisions of its own; a turn of schedule()'s loop is a      *)
(* step, and so is dispatch(), which may kill the thread it was called for *)
(* and go on to the next.                                                  *)
(* A place in a thread's code is <<"fn", n>> or <<"handler", n>>: n counts *)
(* the thread_yield() calls it has returned from.  A jmp_buf holds the     *)
(* registers of a place; the frames they refer to are on the thread's      *)
(* stack, at whose top both its function and its handler begin.            *)
(*                                                                         *)
(* The callers keep to the rules of the assignment (OS mp doc/mp1.pdf,     *)
(* 4.2): a thread signals its own children only, each at most once, and a  *)
(* handler calls nothing but thread_yield() and thread_exit().             *)
(***************************************************************************)
EXTENDS Integers

CONSTANTS
  Thread,     \* the threads a program may create
  Root,       \* the thread that main adds to the run queue
  Signal,     \* signal numbers
  MaxYields   \* bound: the yields of one function or handler

ASSUME ThreadsAssumption ==
  /\ Root \in Thread
  /\ Signal \subseteq Nat /\ MaxYields \in Nat

VARIABLES
  current, next, previous,     \* current_thread and the links of the ring
  queued,                      \* threads added and not yet freed
  buf_set, handler_buf_set, env, handler_env, \* the jmp_bufs
  signo, sig_handler, suspended,
  overwritten,                 \* threads whose function lost frames to the handler
  at,                          \* the place the running thread is at
  pc,                          \* "run", "schedule", "dispatch", "main", "astray"
  parent, signalled,           \* who may signal whom
  left,                        \* history: where each function was left
  got                          \* history: who had turns while a thread waited

ring    == <<current, next, previous, queued>>
bufs    == <<buf_set, handler_buf_set, env, handler_env>>
sigs    == <<signo, sig_handler, suspended>>
callers == <<parent, signalled>>
vars    == <<ring, bufs, overwritten, sigs, at, pc, callers, left, got>>

NoSignal == -1
Fresh == <<"fn", 0>>
Entry == <<"handler", 0>>
Later(place) == <<place[1], place[2] + 1>>

Init ==
  /\ current = Root /\ queued = {Root}
  /\ next = [t \in Thread |-> t] /\ previous = [t \in Thread |-> t]
  /\ buf_set = [t \in Thread |-> FALSE] /\ handler_buf_set = [t \in Thread |-> FALSE]
  /\ env = [t \in Thread |-> Fresh] /\ handler_env = [t \in Thread |-> Entry]
  /\ overwritten = {}
  /\ signo = [t \in Thread |-> NoSignal]
  /\ sig_handler = [t \in Thread |-> {}]
  /\ suspended = [t \in Thread |-> FALSE]
  /\ at = Fresh /\ pc = "dispatch"
  /\ parent = [t \in Thread |-> t] /\ signalled = {Root}
  /\ left = [t \in Thread |-> Fresh] /\ got = [t \in Thread |-> {}]

(***************************************************************************)
(* schedule(): one turn of its loop; it has no end when every thread of    *)
(* the ring is suspended.                                                  *)
(***************************************************************************)
\* Mutant: every other thread is skipped.
NextButOne(c) == next[next[c]]

Following(c) == next[c]

schedule ==
  /\ pc = "schedule"
  /\ current' = Following(current)
  /\ pc' = IF suspended[current'] THEN "schedule" ELSE "dispatch"
  /\ UNCHANGED <<next, previous, queued, bufs, overwritten, sigs, at, callers, left, got>>

(***************************************************************************)
(* What a thread function does.                                            *)
(***************************************************************************)
InFn == pc = "run" /\ at[1] = "fn"
InHandler == pc = "run" /\ at[1] = "handler"

\* thread_create() and thread_add_runqueue().
Spawn(t) ==
  /\ InFn /\ t \notin queued /\ parent[t] = t /\ t # Root
  /\ queued' = queued \cup {t}
  /\ next' = [next EXCEPT ![t] = current, ![previous[current]] = t]
  /\ previous' = [previous EXCEPT ![t] = previous[current], ![current] = t]
  /\ sig_handler' = [sig_handler EXCEPT ![t] = sig_handler[current]]
  /\ parent' = [parent EXCEPT ![t] = current]
  /\ UNCHANGED <<current, bufs, overwritten, signo, suspended, at, pc, signalled, left, got>>

thread_register_handler(s) ==
  /\ InFn
  /\ sig_handler' = [sig_handler EXCEPT ![current] = @ \cup {s}]
  /\ UNCHANGED <<ring, bufs, overwritten, signo, suspended, at, pc, callers, left, got>>

thread_kill(t, s) ==
  /\ InFn /\ t \in queued \ signalled /\ parent[t] = current
  /\ signo' = [signo EXCEPT ![t] = s]
  /\ signalled' = signalled \cup {t}
  /\ UNCHANGED <<ring, bufs, overwritten, sig_handler, suspended, at, pc, parent,
                 left, got>>

\* thread_yield()'s setjmp(): which jmp_buf depends on the pending signal.
Saved(c) ==
  IF signo[c] # NoSignal
  THEN handler_env' = [handler_env EXCEPT ![c] = Later(at)] /\ UNCHANGED env
  ELSE env' = [env EXCEPT ![c] = Later(at)] /\ UNCHANGED handler_env

Leaves(c) ==
  /\ at[2] < MaxYields /\ Saved(c)
  /\ left' = IF at[1] = "fn" THEN [left EXCEPT ![c] = Later(at)] ELSE left

thread_yield ==
  /\ pc = "run" /\ Leaves(current)
  /\ pc' = "schedule"
  /\ UNCHANGED <<ring, buf_set, handler_buf_set, overwritten, sigs, at, callers,
                 got>>

thread_suspend(t) ==
  /\ InFn /\ t \in queued
  /\ suspended' = [suspended EXCEPT ![t] = TRUE]
  /\ IF t = current
     THEN Leaves(current) /\ pc' = "schedule"
     ELSE UNCHANGED <<env, handler_env, left, pc>>
  /\ UNCHANGED <<ring, buf_set, handler_buf_set, overwritten, signo,
                 sig_handler, at, callers, got>>

\* Who waits for its turn begins to wait now.
thread_resume(t) ==
  /\ InFn /\ t \in queued
  /\ suspended' = [suspended EXCEPT ![t] = FALSE]
  /\ got' = [got EXCEPT ![t] = IF suspended[t] THEN {} ELSE @]
  /\ UNCHANGED <<ring, bufs, overwritten, signo, sig_handler, at, pc, callers, left>>

\* Mutant: the next thread still has the freed one as its previous.
UnlinkedForward(c) ==
  /\ next' = [next EXCEPT ![previous[c]] = next[c]]
  /\ UNCHANGED previous

Unlinked(c) ==
  /\ next' = [next EXCEPT ![previous[c]] = next[c]]
  /\ previous' = [previous EXCEPT ![next[c]] = previous[c]]

\* thread_exit(): the next thread is dispatched, the last one returns to main.
Exit ==
  /\ queued' = queued \ {current}
  /\ IF next[current] = current
     THEN pc' = "main" /\ UNCHANGED <<current, next, previous>>
     ELSE pc' = "dispatch" /\ current' = next[current] /\ Unlinked(current)
  /\ UNCHANGED <<bufs, overwritten, sigs, at, callers, left, got>>

thread_exit == pc = "run" /\ Exit

(***************************************************************************)
(* dispatch().                                                             *)
(***************************************************************************)
TakesTurn ==
  got' = [t \in Thread |-> IF t \in queued \ {current} THEN got[t] \cup {current} ELSE {}]

\* Mutant: the function is begun again.
PlaceFresh(c) == Fresh

PlaceInFn(c) == IF buf_set[c] THEN env[c] ELSE Fresh

\* The end of dispatch(): go on with the function, or begin it.
RunFn ==
  /\ at' = PlaceInFn(current)
  /\ buf_set' = [buf_set EXCEPT ![current] = TRUE]
  /\ pc' = "run"

\* Mutant: a thread that has begun is resumed before its signal is looked at.
PendingIfFresh(c) == signo[c] # NoSignal /\ ~buf_set[c]

Pending(c) == signo[c] # NoSignal

DispatchFn ==
  /\ pc = "dispatch" /\ ~Pending(current)
  /\ RunFn /\ TakesTurn
  /\ UNCHANGED <<ring, handler_buf_set, env, handler_env, overwritten, sigs, callers,
                 left>>

\* A handler that begins takes the stack from its top, where a function that
\* has begun has its frames.
DispatchHandler ==
  /\ pc = "dispatch" /\ Pending(current)
  /\ signo[current] \in sig_handler[current]
  /\ at' = IF handler_buf_set[current] THEN handler_env[current] ELSE Entry
  /\ handler_env' = [handler_env EXCEPT ![current] = at']
  /\ handler_buf_set' = [handler_buf_set EXCEPT ![current] = TRUE]
  /\ overwritten' = IF buf_set[current] /\ ~handler_buf_set[current]
                    THEN overwritten \cup {current} ELSE overwritten
  /\ pc' = "run" /\ TakesTurn
  /\ UNCHANGED <<ring, buf_set, env, sigs, callers, left>>

\* No handler: thread_exit() for the thread that should have run.
DispatchKill ==
  /\ pc = "dispatch" /\ Pending(current)
  /\ signo[current] \notin sig_handler[current]
  /\ Exit

\* The handler returns and dispatch() goes on.
HandlerReturns ==
  /\ InHandler
  /\ signo' = [signo EXCEPT ![current] = NoSignal]
  /\ RunFn
  /\ UNCHANGED <<ring, handler_buf_set, env, handler_env, overwritten, sig_handler,
                 suspended, callers, left, got>>

\* longjmp() gives such a function its registers, and the handler's frames for
\* its own: from then on a variable, a saved register or a return address that
\* it takes from the stack may be the handler's, and what it does is undefined.
\* The threads of the process do nothing more that the library has promised.
GoesAstray ==
  /\ InFn /\ current \in overwritten
  /\ pc' = "astray"
  /\ UNCHANGED <<ring, bufs, overwritten, sigs, at, callers, left, got>>

Next ==
  \/ \E t \in Thread : \/ Spawn(t) \/ thread_suspend(t) \/ thread_resume(t)
                       \/ \E s \in Signal : thread_kill(t, s)
  \/ \E s \in Signal : thread_register_handler(s)
  \/ thread_yield \/ schedule \/ thread_exit \/ HandlerReturns
  \/ DispatchFn \/ DispatchHandler \/ DispatchKill \/ GoesAstray

Spec == Init /\ [][Next]_vars

\* The library goes on; what the threads themselves do is up to the program.
FairSpec == Spec /\ WF_vars(schedule)

(***************************************************************************)
(* Properties.                                                             *)
(***************************************************************************)
FnPlace == {"fn"} \X (0..MaxYields)
HandlerPlace == {"handler"} \X (0..MaxYields)

\* The fields of struct thread and the control state have their types: env
\* holds places in the function and handler_env places in a handler.
TypeOK ==
  /\ current \in Thread /\ queued \subseteq Thread
  /\ next \in [Thread -> Thread] /\ previous \in [Thread -> Thread]
  /\ buf_set \in [Thread -> BOOLEAN] /\ handler_buf_set \in [Thread -> BOOLEAN]
  /\ env \in [Thread -> FnPlace] /\ handler_env \in [Thread -> HandlerPlace]
  /\ overwritten \subseteq Thread
  /\ signo \in [Thread -> Signal \cup {NoSignal}]
  /\ sig_handler \in [Thread -> SUBSET Signal]
  /\ suspended \in [Thread -> BOOLEAN]
  /\ at \in FnPlace \cup HandlerPlace /\ pc \in {"run", "schedule", "dispatch", "main", "astray"}
  /\ parent \in [Thread -> Thread] /\ signalled \subseteq Thread
  /\ left \in [Thread -> FnPlace] /\ got \in [Thread -> SUBSET Thread]

\* next and previous stay the two directions of one ring of the threads that
\* are not freed, with the current thread in it.
RingLinked ==
  pc # "main" =>
    /\ current \in queued
    /\ \A t \in queued : /\ next[t] \in queued /\ previous[t] \in queued
                         /\ previous[next[t]] = t /\ next[previous[t]] = t

\* A thread function whose stack is its own goes on where it was left, whatever
\* other threads do in between, and a handler that runs and yields before the
\* function has begun does not keep it from beginning at its beginning.  Of a
\* function that a signal interrupts the assignment asks the same, to go on "from
\* the place where it was interrupted by the signal" (mp1.pdf, 4.1); the code
\* does not give it that (GoesAstray).
ResumedWhereLeft ==
  InFn /\ current \notin overwritten => at = left[current]

\* A signal that was sent is handled before the function goes on.
SignalFirst == InFn => signo[current] = NoSignal

\* schedule() is fair: no thread has a second turn while a thread that is not
\* suspended waits for its first, across exits, kills and additions.
NoOvertaking ==
  [][pc = "dispatch" /\ pc' = "run" =>
       \A t \in queued \ {current} : ~suspended[t] => current \notin got[t]]_vars

\* schedule() finds a thread to run when there is one, wherever in the ring
\* threads have been added, freed or suspended.
ScheduleEnds ==
  (pc = "schedule" /\ \E t \in queued : ~suspended[t]) ~> pc # "schedule"

\* Turns go round the ring: schedule() comes to its end and passes nobody over.
FairTurns == NoOvertaking /\ ScheduleEnds
=============================================================================
