---------------------------- MODULE ThreadsProofs ---------------------------
(***************************************************************************)
(* Theorems of the threads of mp1, which run by turns (UThreads), and of   *)
(* those of mp3, which a scheduler chooses in real time (RtThreads), for   *)
(* any threads, signals, numbers of yields, periods and execution times.   *)
(***************************************************************************)
EXTENDS UThreads, RtThreads, FiniteSetTheorems, WellFoundedInduction, TLAPS

\* Nobody can signal itself, a running function has no signal pending and a
\* running handler has.
SignalInv ==
  /\ Root \in signalled
  /\ \A t \in queued \ {Root} : parent[t] # t
  /\ SignalFirst
  /\ InHandler => signo[current] # NoSignal

\* env is where the function was left, also while it runs.
PlaceInv ==
  /\ \A t \in Thread : env[t] = left[t]
  /\ \A t \in Thread : ~buf_set[t] => env[t] = Fresh
  /\ InFn => buf_set[current] /\ at = left[current]

IInv == TypeOK /\ RingLinked /\ SignalInv /\ PlaceInv

-----------------------------------------------------------------------------
\* A place is left for the next one, of the same kind.
LEMMA LaterPlace ==
  ASSUME ThreadsAssumption, TypeOK, at[2] < MaxYields
  PROVE  /\ InFn => Later(at) \in FnPlace
         /\ InHandler => Later(at) \in HandlerPlace
<1>1. PICK k \in {"fn", "handler"}, n \in 0..MaxYields : at = <<k, n>>
  BY DEF TypeOK, FnPlace, HandlerPlace
<1>2. n + 1 \in 0..MaxYields
  BY <1>1 DEF ThreadsAssumption
<1>3. at[1] = k /\ Later(at) = <<k, n + 1>>
  BY <1>1 DEF Later
<1> QED
  BY <1>2, <1>3 DEF FnPlace, HandlerPlace, InFn, InHandler

\* The program starts with the root alone in the ring.
LEMMA InitInv ==
  ASSUME ThreadsAssumption, Init
  PROVE  IInv
<1>1. Fresh \in FnPlace /\ Entry \in HandlerPlace
  BY DEF ThreadsAssumption, Fresh, Entry, FnPlace, HandlerPlace
<1>2. TypeOK
  BY <1>1 DEF ThreadsAssumption, Init, TypeOK
<1>3. RingLinked
  BY DEF ThreadsAssumption, Init, RingLinked
<1>4. SignalInv /\ PlaceInv
  BY DEF Init, SignalInv, PlaceInv, SignalFirst, InFn, InHandler
<1> QED
  BY <1>2, <1>3, <1>4 DEF IInv

\* What a thread yields from is saved in the jmp_buf of its kind, and left
\* records it when it is the function.
LEMMA LeavesKeeps ==
  ASSUME ThreadsAssumption, IInv, pc = "run", Leaves(current)
  PROVE  /\ env' \in [Thread -> FnPlace] /\ handler_env' \in [Thread -> HandlerPlace]
         /\ left' \in [Thread -> FnPlace]
         /\ \A t \in Thread : env'[t] = left'[t]
         /\ \A t \in Thread : ~buf_set[t] => env'[t] = Fresh
<1>1. current \in Thread /\ at \in FnPlace \cup HandlerPlace /\ at[2] < MaxYields
  BY DEF IInv, TypeOK, Leaves
<1>2. CASE InFn
  <2>1. Later(at) \in FnPlace /\ signo[current] = NoSignal /\ buf_set[current]
    BY <1>1, <1>2, LaterPlace DEF IInv, SignalInv, SignalFirst, PlaceInv
  <2>2. env' = [env EXCEPT ![current] = Later(at)] /\ handler_env' = handler_env
    BY <2>1 DEF Leaves, Saved
  <2>3. left' = [left EXCEPT ![current] = Later(at)]
    BY <1>2 DEF Leaves, InFn
  <2> QED
    BY <1>1, <2>1, <2>2, <2>3 DEF IInv, TypeOK, PlaceInv
<1>3. CASE InHandler
  <2>1. Later(at) \in HandlerPlace /\ signo[current] # NoSignal
    BY <1>1, <1>3, LaterPlace DEF IInv, SignalInv
  <2>2. handler_env' = [handler_env EXCEPT ![current] = Later(at)] /\ env' = env
    BY <2>1 DEF Leaves, Saved
  <2>3. left' = left
    BY <1>3 DEF Leaves, InHandler
  <2> QED
    BY <1>1, <2>1, <2>2, <2>3 DEF IInv, TypeOK, PlaceInv
<1> QED
  BY <1>1, <1>2, <1>3 DEF InFn, InHandler, FnPlace, HandlerPlace

\* thread_exit(): the ring closes around the freed thread.
LEMMA ExitKeeps ==
  ASSUME ThreadsAssumption, IInv, pc # "main", Exit
  PROVE  IInv'
<1> USE DEF IInv
<1>1. TypeOK'
  <2>1. /\ current \in Thread /\ next \in [Thread -> Thread] /\ previous \in [Thread -> Thread]
        /\ next[current] \in Thread /\ previous[current] \in Thread
    BY DEF TypeOK
  <2>2. current' \in Thread /\ pc' \in {"run", "schedule", "dispatch", "main", "astray"}
    BY <2>1 DEF Exit
  <2>3. next' \in [Thread -> Thread] /\ previous' \in [Thread -> Thread]
    BY <2>1 DEF Exit, Unlinked
  <2>4. queued' \subseteq Thread
    BY DEF Exit, TypeOK
  <2> QED
    BY <2>2, <2>3, <2>4 DEF Exit, TypeOK, bufs, sigs, callers
<1>2. RingLinked'
  <2>1. CASE next[current] = current
    BY <2>1 DEF Exit, RingLinked
  <2>2. CASE next[current] # current
    <3> DEFINE c == current
               p == previous[c]
               n == next[c]
    <3>1. /\ pc' = "dispatch" /\ current' = n /\ queued' = queued \ {c}
          /\ next' = [next EXCEPT ![p] = n] /\ previous' = [previous EXCEPT ![n] = p]
      BY <2>2 DEF Exit, Unlinked
    <3>2. /\ c \in queued /\ n \in queued \ {c} /\ p \in queued
          /\ next[p] = c /\ previous[n] = c
      BY <2>2 DEF RingLinked
    <3>3. p # c
      BY <2>2, <3>2 DEF RingLinked
    <3>4. ASSUME NEW t \in queued'
          PROVE  /\ next'[t] \in queued' /\ previous'[t] \in queued'
                 /\ previous'[next'[t]] = t /\ next'[previous'[t]] = t
      <4>1. /\ t \in Thread /\ t # c /\ t \in queued
            /\ next[t] \in queued /\ previous[t] \in queued
            /\ previous[next[t]] = t /\ next[previous[t]] = t
        BY <3>1 DEF RingLinked, TypeOK
      <4>2. next'[t] = IF t = p THEN n ELSE next[t]
        BY <3>1, <4>1 DEF TypeOK
      <4>3. previous'[t] = IF t = n THEN p ELSE previous[t]
        BY <3>1, <4>1 DEF TypeOK
      <4>4. next'[t] \in queued' /\ previous'[t] \in queued'
        BY <3>1, <3>2, <3>3, <4>1, <4>2, <4>3
      <4>5. previous'[next'[t]] = t
        BY <3>1, <3>2, <4>1, <4>2, <4>4 DEF TypeOK
      <4>6. next'[previous'[t]] = t
        BY <3>1, <3>2, <4>1, <4>3, <4>4 DEF TypeOK
      <4> QED
        BY <4>4, <4>5, <4>6
    <3> QED
      BY <3>1, <3>2, <3>4 DEF RingLinked
  <2> QED
    BY <2>1, <2>2
<1>3. pc' # "run" /\ SignalInv'
  BY DEF Exit, SignalInv, SignalFirst, InFn, InHandler, sigs, callers
<1>4. PlaceInv'
  BY <1>3 DEF Exit, PlaceInv, InFn, bufs
<1> QED
  BY <1>1, <1>2, <1>3, <1>4

\* The end of dispatch(): the function is at the place where it was left.
LEMMA RunFnKeeps ==
  ASSUME ThreadsAssumption, IInv, pc \in {"run", "dispatch"}, RunFn,
         signo' \in [Thread -> Signal \cup {NoSignal}], signo'[current] = NoSignal,
         got' \in [Thread -> SUBSET Thread],
         UNCHANGED <<ring, handler_buf_set, env, handler_env, overwritten, sig_handler, suspended,
                   callers, left>>
  PROVE  IInv'
<1> USE DEF IInv
<1>1. current \in Thread
  BY DEF TypeOK
<1>2. at' = left[current] /\ at' \in FnPlace
  BY <1>1 DEF RunFn, PlaceInFn, PlaceInv, TypeOK
<1>3. at'[1] = "fn"
  BY <1>2 DEF FnPlace
<1>4. buf_set' \in [Thread -> BOOLEAN] /\ buf_set'[current] = TRUE /\ pc' = "run"
  BY <1>1 DEF RunFn, TypeOK
<1>5. \A t \in Thread : ~buf_set'[t] => ~buf_set[t]
  BY <1>1 DEF RunFn, TypeOK
<1>6. TypeOK'
  BY <1>2, <1>4 DEF TypeOK, ring, callers
<1>7. RingLinked'
  BY DEF RingLinked, ring
<1>8. SignalInv'
  BY <1>3, <1>4 DEF SignalInv, SignalFirst, InFn, InHandler, ring, callers
<1>9. PlaceInv'
  BY <1>2, <1>4, <1>5 DEF PlaceInv, InFn, ring
<1> QED
  BY <1>6, <1>7, <1>8, <1>9

\* Every step keeps the invariant.
LEMMA NextInv ==
  ASSUME ThreadsAssumption, IInv, [Next]_vars
  PROVE  IInv'
<1> USE DEF IInv
<1>1. ASSUME NEW t \in Thread, Spawn(t)
      PROVE  IInv'
  <2> DEFINE c == current
             p == previous[c]
  <2>1. /\ c \in queued /\ p \in queued /\ next[p] = c /\ t \notin queued
        /\ c \in Thread /\ p \in Thread /\ pc = "run" /\ InFn
    BY <1>1 DEF Spawn, InFn, RingLinked, TypeOK
  <2>9. queued' = queued \cup {t} /\ current' = c /\ pc' = pc
    BY <1>1 DEF Spawn
  <2>2. /\ next' = [next EXCEPT ![t] = c, ![p] = t]
        /\ previous' = [previous EXCEPT ![t] = p, ![c] = t]
    BY <1>1 DEF Spawn
  <2>3. \A u \in Thread : /\ next'[u] = IF u = p THEN t ELSE IF u = t THEN c ELSE next[u]
                          /\ previous'[u] = IF u = c THEN t ELSE IF u = t THEN p ELSE previous[u]
    BY <2>1, <2>2 DEF TypeOK
  <2>4. TypeOK'
    <3>1. next' \in [Thread -> Thread] /\ previous' \in [Thread -> Thread]
      BY <2>1, <2>2 DEF TypeOK
    <3>2. sig_handler' \in [Thread -> SUBSET Signal] /\ parent' \in [Thread -> Thread]
      BY <1>1, <2>1 DEF Spawn, TypeOK
    <3>3. queued' \subseteq Thread
      BY <1>1 DEF Spawn, TypeOK
    <3>4. UNCHANGED <<current, buf_set, handler_buf_set, env, handler_env, overwritten, signo, suspended,
                      at, pc, signalled, left, got>>
      BY <1>1 DEF Spawn, bufs
    <3> QED
      BY <3>1, <3>2, <3>3, <3>4 DEF TypeOK
  <2>5. RingLinked'
    <3>1. /\ next'[t] = c /\ previous'[t] = p /\ next'[p] = t /\ previous'[c] = t
          /\ \A u \in queued \ {p} : next'[u] = next[u]
          /\ \A u \in queued \ {c} : previous'[u] = previous[u]
      BY <2>1, <2>3 DEF TypeOK
    <3>2. ASSUME NEW u \in queued, u # p
          PROVE  next[u] \in queued \ {c} /\ previous[next[u]] = u
      BY <2>1, <3>2 DEF RingLinked
    <3>3. ASSUME NEW u \in queued, u # c
          PROVE  previous[u] \in queued \ {p} /\ next[previous[u]] = u
      BY <2>1, <3>3 DEF RingLinked
    <3>4. \A u \in queued' : next'[u] \in queued' /\ previous'[next'[u]] = u
      BY <2>1, <2>9, <3>1, <3>2
    <3>5. \A u \in queued' : previous'[u] \in queued' /\ next'[previous'[u]] = u
      BY <2>1, <2>9, <3>1, <3>3
    <3> QED
      BY <2>1, <2>9, <3>4, <3>5 DEF RingLinked
  <2>6. SignalInv'
    <3>1. t # c
      BY <2>1
    <3> QED
      BY <1>1, <2>1, <3>1 DEF Spawn, SignalInv, SignalFirst, InFn, InHandler, TypeOK
  <2>7. PlaceInv'
    BY <1>1 DEF Spawn, PlaceInv, InFn, bufs
  <2> QED
    BY <2>4, <2>5, <2>6, <2>7
<1>2. ASSUME NEW s \in Signal, thread_register_handler(s)
      PROVE  IInv'
  <2>1. sig_handler' \in [Thread -> SUBSET Signal]
    BY <1>2 DEF thread_register_handler, TypeOK
  <2> QED
    BY <1>2, <2>1 DEF thread_register_handler, TypeOK, RingLinked, SignalInv, SignalFirst,
       PlaceInv, InFn, InHandler, ring, bufs, callers
<1>3. ASSUME NEW t \in Thread, NEW s \in Signal, thread_kill(t, s)
      PROVE  IInv'
  <2>1. t # current
    BY <1>3 DEF thread_kill, SignalInv
  <2>2. TypeOK'
    BY <1>3 DEF thread_kill, TypeOK, ring, bufs
  <2>3. signo'[current] = signo[current]
    BY <1>3, <2>1 DEF thread_kill, TypeOK
  <2>4. SignalInv'
    BY <1>3, <2>3 DEF thread_kill, SignalInv, SignalFirst, InFn, InHandler, ring
  <2>5. RingLinked' /\ PlaceInv'
    BY <1>3 DEF thread_kill, RingLinked, PlaceInv, InFn, ring, bufs
  <2> QED
    BY <2>2, <2>4, <2>5
<1>4. CASE thread_yield
  <2>1. pc = "run" /\ Leaves(current) /\ pc' = "schedule"
    BY <1>4 DEF thread_yield
  <2>2. /\ env' \in [Thread -> FnPlace] /\ handler_env' \in [Thread -> HandlerPlace]
        /\ left' \in [Thread -> FnPlace]
        /\ \A t \in Thread : env'[t] = left'[t]
        /\ \A t \in Thread : ~buf_set[t] => env'[t] = Fresh
    BY <2>1, LeavesKeeps
  <2> QED
    BY <1>4, <2>1, <2>2 DEF thread_yield, TypeOK, RingLinked, SignalInv, SignalFirst,
       PlaceInv, InFn, InHandler, ring, sigs, callers
<1>5. ASSUME NEW t \in Thread, thread_suspend(t)
      PROVE  IInv'
  <2>1. suspended' \in [Thread -> BOOLEAN]
    BY <1>5 DEF thread_suspend, TypeOK
  <2>2. CASE t = current
    <3>1. pc = "run" /\ Leaves(current) /\ pc' = "schedule"
      BY <1>5, <2>2 DEF thread_suspend, InFn
    <3>2. /\ env' \in [Thread -> FnPlace] /\ handler_env' \in [Thread -> HandlerPlace]
          /\ left' \in [Thread -> FnPlace]
          /\ \A u \in Thread : env'[u] = left'[u]
          /\ \A u \in Thread : ~buf_set[u] => env'[u] = Fresh
      BY <3>1, LeavesKeeps
    <3> QED
      BY <1>5, <2>1, <3>1, <3>2 DEF thread_suspend, TypeOK, RingLinked, SignalInv, SignalFirst,
         PlaceInv, InFn, InHandler, ring, callers
  <2>3. CASE t # current
    BY <1>5, <2>1, <2>3 DEF thread_suspend, TypeOK, RingLinked, SignalInv, SignalFirst,
       PlaceInv, InFn, InHandler, ring, callers
  <2> QED
    BY <2>2, <2>3
<1>6. ASSUME NEW t \in Thread, thread_resume(t)
      PROVE  IInv'
  <2>1. suspended' \in [Thread -> BOOLEAN] /\ got' \in [Thread -> SUBSET Thread]
    BY <1>6 DEF thread_resume, TypeOK
  <2> QED
    BY <1>6, <2>1 DEF thread_resume, TypeOK, RingLinked, SignalInv, SignalFirst,
       PlaceInv, InFn, InHandler, ring, bufs, callers
<1>7. CASE schedule
  <2>1. pc' # "run" /\ pc' # "main" /\ pc # "main"
    BY <1>7 DEF schedule
  <2>2. current' = next[current] /\ current' \in queued
    BY <1>7, <2>1 DEF schedule, Following, RingLinked
  <2> QED
    BY <1>7, <2>1, <2>2 DEF schedule, TypeOK, RingLinked, SignalInv, SignalFirst,
       PlaceInv, InFn, InHandler, bufs, sigs, callers
<1>8. CASE thread_exit
  BY <1>8, ExitKeeps DEF thread_exit
<1>9. CASE HandlerReturns
  <2>1. /\ signo' \in [Thread -> Signal \cup {NoSignal}] /\ signo'[current] = NoSignal
    BY <1>9 DEF HandlerReturns, TypeOK
  <2>2. pc = "run" /\ RunFn /\ got' = got
    BY <1>9 DEF HandlerReturns, InHandler
  <2>3. UNCHANGED <<ring, handler_buf_set, env, handler_env, overwritten, sig_handler, suspended,
                   callers, left>>
    BY <1>9 DEF HandlerReturns
  <2> QED
    BY <2>1, <2>2, <2>3, RunFnKeeps DEF TypeOK
<1>10. CASE DispatchFn
  <2>1. /\ signo' \in [Thread -> Signal \cup {NoSignal}] /\ signo'[current] = NoSignal
    BY <1>10 DEF DispatchFn, Pending, TypeOK, sigs
  <2>2. got' \in [Thread -> SUBSET Thread]
    BY <1>10 DEF DispatchFn, TakesTurn, TypeOK
  <2>3. UNCHANGED <<ring, handler_buf_set, env, handler_env, overwritten, sig_handler, suspended,
                   callers, left>>
    BY <1>10 DEF DispatchFn, sigs
  <2> QED
    BY <1>10, <2>1, <2>2, <2>3, RunFnKeeps DEF DispatchFn
<1>11. CASE DispatchHandler
  <2>1. at' \in HandlerPlace
    BY <1>11 DEF DispatchHandler, TypeOK, HandlerPlace, Entry, ThreadsAssumption
  <2>2. at'[1] = "handler"
    BY <2>1 DEF HandlerPlace
  <2>3. /\ handler_env' \in [Thread -> HandlerPlace] /\ handler_buf_set' \in [Thread -> BOOLEAN]
        /\ got' \in [Thread -> SUBSET Thread] /\ overwritten' \subseteq Thread
    BY <1>11, <2>1 DEF DispatchHandler, TakesTurn, TypeOK
  <2>4. pc' = "run" /\ signo'[current] # NoSignal
    BY <1>11 DEF DispatchHandler, Pending, sigs
  <2> QED
    BY <1>11, <2>1, <2>2, <2>3, <2>4 DEF DispatchHandler, TypeOK, RingLinked, SignalInv,
       SignalFirst, PlaceInv, InFn, InHandler, ring, sigs, callers
<1>12. CASE DispatchKill
  BY <1>12, ExitKeeps DEF DispatchKill
<1>13. CASE GoesAstray
  BY <1>13 DEF GoesAstray, TypeOK, RingLinked, SignalInv, SignalFirst,
     PlaceInv, InFn, InHandler, ring, bufs, sigs, callers
<1>14. CASE UNCHANGED vars
  BY <1>14 DEF vars, TypeOK, RingLinked, SignalInv, SignalFirst,
     PlaceInv, InFn, InHandler, ring, bufs, sigs, callers
<1> QED
  BY <1>1, <1>2, <1>3, <1>4, <1>5, <1>6, <1>7, <1>8, <1>9, <1>10, <1>11, <1>12, <1>13, <1>14 DEF Next

-----------------------------------------------------------------------------
\* The invariant holds in every reachable state.
THEOREM Inductive == Spec => []IInv
<1>1. Init => IInv
  BY InitInv, ThreadsAssumption
<1>2. IInv /\ [Next]_vars => IInv'
  BY NextInv, ThreadsAssumption
<1> QED
  BY <1>1, <1>2, PTL DEF Spec

\* The fields of every thread, and the places its jmp_bufs hold, have their
\* types in every reachable state.
THEOREM ThreadsWellTyped == Spec => []TypeOK
<1>1. IInv => TypeOK
  BY DEF IInv
<1> QED
  BY <1>1, Inductive, PTL

\* The queue stays one doubly linked ring of the threads that are not freed,
\* whatever order threads are added, exit and are killed in.
THEOREM RingStaysLinked == Spec => []RingLinked
<1>1. IInv => RingLinked
  BY DEF IInv
<1> QED
  BY <1>1, Inductive, PTL

\* No function runs on while a signal to its thread is pending.
THEOREM SignalsFirst == Spec => []SignalFirst
<1>1. IInv => SignalFirst
  BY DEF IInv, SignalInv
<1> QED
  BY <1>1, Inductive, PTL

\* A function whose stack no handler has used is at the place it was left at, and
\* one that a handler kept from beginning is at its beginning.
THEOREM FunctionsResumed == Spec => []ResumedWhereLeft
<1>1. IInv => ResumedWhereLeft
  BY DEF IInv, PlaceInv, ResumedWhereLeft
<1> QED
  BY <1>1, Inductive, PTL

-----------------------------------------------------------------------------
(***************************************************************************)
(* RtThreads: the two queues and the rules of the schedulers.              *)
(***************************************************************************)

\* A set of natural numbers that is not empty has a least element.
LEMMA LeastNat ==
  ASSUME NEW S \in SUBSET Nat, S # {}
  PROVE  \E x \in S : \A y \in S : x <= y
<1>1. IsWellFoundedOn(OpToRel(<, Nat), Nat)
  BY NatLessThanWellFounded
<1>2. PICK x \in S : \A y \in S : ~(<<y, x>> \in OpToRel(<, Nat))
  BY <1>1, WFMin
<1>3. \A y \in S : ~(y < x)
  BY <1>2 DEF OpToRel
<1> QED
  BY <1>3

-----------------------------------------------------------------------------
(* Queues: sequences in which nobody is twice *)

\* t is somewhere in front of u.
Before(queue, t, u) == \E i, j \in 1..Len(queue) : i < j /\ queue[i] = t /\ queue[j] = u

LEMMA Members ==
  ASSUME NEW q \in Seq(Thrd)
  PROVE  /\ ToSet(q) \subseteq Thrd
         /\ \A t : t \in ToSet(q) <=> \E i \in 1..Len(q) : q[i] = t
         /\ \A t : Contains(q, t) <=> t \in ToSet(q)
         /\ IsInjective(q) <=> \A i, j \in 1..Len(q) : q[i] = q[j] => i = j
         /\ q = <<>> <=> ToSet(q) = {}
<1>1. DOMAIN q = 1..Len(q) /\ Len(q) \in Nat /\ (\A i \in 1..Len(q) : q[i] \in Thrd)
  OBVIOUS
<1>2. \A t : t \in ToSet(q) <=> \E i \in 1..Len(q) : q[i] = t
  BY <1>1 DEF ToSet
<1>3. \A t : Contains(q, t) <=> t \in ToSet(q)
  BY <1>1, <1>2 DEF Contains
<1>4. IsInjective(q) <=> \A i, j \in 1..Len(q) : q[i] = q[j] => i = j
  BY <1>1 DEF IsInjective
<1>5. q = <<>> <=> Len(q) = 0
  OBVIOUS
<1>6. Len(q) = 0 <=> ToSet(q) = {}
  <2>1. Len(q) # 0 => q[1] \in ToSet(q)
    BY <1>1, <1>2
  <2>2. Len(q) = 0 => \A t : t \notin ToSet(q)
    BY <1>1, <1>2
  <2> QED
    BY <2>1, <2>2
<1> QED
  BY <1>1, <1>2, <1>3, <1>4, <1>5, <1>6

\* list_add_tail().
LEMMA AppendFacts ==
  ASSUME NEW q \in Seq(Thrd), NEW t \in Thrd
  PROVE  /\ Append(q, t) \in Seq(Thrd)
         /\ ToSet(Append(q, t)) = ToSet(q) \cup {t}
         /\ IsInjective(q) /\ t \notin ToSet(q) => IsInjective(Append(q, t))
         /\ \A x, y : Before(q, x, y) => Before(Append(q, t), x, y)
         /\ \A x \in ToSet(q) : Before(Append(q, t), x, t)
<1> DEFINE a == Append(q, t)
<1>1. /\ a \in Seq(Thrd) /\ Len(a) = Len(q) + 1 /\ Len(q) \in Nat
      /\ \A i \in 1..Len(q) : a[i] = q[i]
      /\ a[Len(q) + 1] = t
  OBVIOUS
<1> HIDE DEF a
<1>2. ToSet(a) = ToSet(q) \cup {t}
  <2>1. \A x : x \in ToSet(a) <=> \E i \in 1..Len(a) : a[i] = x
    BY <1>1, Members
  <2>2. \A x : x \in ToSet(q) <=> \E i \in 1..Len(q) : q[i] = x
    BY Members
  <2> QED
    BY <1>1, <2>1, <2>2
<1>3. ASSUME IsInjective(q), t \notin ToSet(q)
      PROVE  IsInjective(a)
  <2>1. \A i, j \in 1..Len(q) : q[i] = q[j] => i = j
    BY <1>3, Members
  <2>2. \A i \in 1..Len(q) : q[i] # t
    BY <1>3, Members
  <2>3. \A i, j \in 1..Len(a) : a[i] = a[j] => i = j
    BY <1>1, <2>1, <2>2
  <2> QED
    BY <1>1, <2>3, Members
<1>4. ASSUME NEW x, NEW y, Before(q, x, y)
      PROVE  Before(a, x, y)
  BY <1>1, <1>4 DEF Before
<1>5. ASSUME NEW x \in ToSet(q)
      PROVE  Before(a, x, t)
  <2>1. PICK i \in 1..Len(q) : q[i] = x
    BY Members
  <2> QED
    BY <1>1, <2>1 DEF Before
<1> QED
  BY <1>1, <1>2, <1>3, <1>4, <1>5 DEF a

\* list_splice_tail().
LEMMA ConcatFacts ==
  ASSUME NEW p \in Seq(Thrd), NEW q \in Seq(Thrd)
  PROVE  /\ p \o q \in Seq(Thrd)
         /\ ToSet(p \o q) = ToSet(p) \cup ToSet(q)
         /\ IsInjective(p) /\ IsInjective(q) /\ ToSet(p) \cap ToSet(q) = {} => IsInjective(p \o q)
         /\ \A x, y : Before(p, x, y) => Before(p \o q, x, y)
         /\ \A x \in ToSet(p), y \in ToSet(q) : Before(p \o q, x, y)
<1> DEFINE c == p \o q
<1>1. /\ c \in Seq(Thrd) /\ Len(c) = Len(p) + Len(q) /\ Len(p) \in Nat /\ Len(q) \in Nat
      /\ \A i \in 1..Len(p) : c[i] = p[i]
      /\ \A i \in 1..Len(q) : c[Len(p) + i] = q[i]
  OBVIOUS
<1> HIDE DEF c
<1>2. \A i \in 1..Len(c) : \/ i \in 1..Len(p) /\ c[i] = p[i]
                           \/ i - Len(p) \in 1..Len(q) /\ c[i] = q[i - Len(p)]
  <2>1. ASSUME NEW i \in 1..Len(c), i > Len(p)
        PROVE  i - Len(p) \in 1..Len(q) /\ c[i] = q[i - Len(p)]
    <3>1. i - Len(p) \in 1..Len(q) /\ Len(p) + (i - Len(p)) = i
      BY <1>1, <2>1
    <3> QED
      BY <1>1, <3>1
  <2> QED
    BY <1>1, <2>1
<1>3. /\ \A x : x \in ToSet(c) <=> \E i \in 1..Len(c) : c[i] = x
      /\ \A x : x \in ToSet(p) <=> \E i \in 1..Len(p) : p[i] = x
      /\ \A x : x \in ToSet(q) <=> \E i \in 1..Len(q) : q[i] = x
  BY <1>1, Members
<1>4. ToSet(c) = ToSet(p) \cup ToSet(q)
  <2>1. ASSUME NEW x \in ToSet(c)
        PROVE  x \in ToSet(p) \cup ToSet(q)
    BY <1>2, <1>3
  <2>2. ASSUME NEW x \in ToSet(p)
        PROVE  x \in ToSet(c)
    BY <1>1, <1>3
  <2>3. ASSUME NEW x \in ToSet(q)
        PROVE  x \in ToSet(c)
    <3>1. PICK i \in 1..Len(q) : q[i] = x
      BY <1>3
    <3>2. Len(p) + i \in 1..Len(c) /\ c[Len(p) + i] = x
      BY <1>1, <3>1
    <3> QED
      BY <1>3, <3>2
  <2> QED
    BY <2>1, <2>2, <2>3
<1>5. ASSUME IsInjective(p), IsInjective(q), ToSet(p) \cap ToSet(q) = {}
      PROVE  IsInjective(c)
  <2>1. /\ \A i, j \in 1..Len(p) : p[i] = p[j] => i = j
        /\ \A i, j \in 1..Len(q) : q[i] = q[j] => i = j
    BY <1>5, Members
  <2>2. \A i \in 1..Len(p), j \in 1..Len(q) : p[i] # q[j]
    BY <1>3, <1>5
  <2>3. ASSUME NEW i \in 1..Len(c), NEW j \in 1..Len(c), c[i] = c[j]
        PROVE  i = j
    <3>1. /\ \/ i \in 1..Len(p) /\ c[i] = p[i]
             \/ i - Len(p) \in 1..Len(q) /\ c[i] = q[i - Len(p)]
          /\ \/ j \in 1..Len(p) /\ c[j] = p[j]
             \/ j - Len(p) \in 1..Len(q) /\ c[j] = q[j - Len(p)]
      BY <1>2
    <3>2. i - Len(p) \in 1..Len(q) /\ j - Len(p) \in 1..Len(q) /\ i - Len(p) = j - Len(p) => i = j
      BY <1>1
    <3> QED
      BY <2>1, <2>2, <2>3, <3>1, <3>2
  <2> QED
    BY <1>1, <2>3, Members
<1>6. ASSUME NEW x, NEW y, Before(p, x, y)
      PROVE  Before(c, x, y)
  BY <1>1, <1>6 DEF Before
<1>7. ASSUME NEW x \in ToSet(p), NEW y \in ToSet(q)
      PROVE  Before(c, x, y)
  <2>1. PICK i \in 1..Len(p) : p[i] = x
    BY <1>3
  <2>2. PICK j \in 1..Len(q) : q[j] = y
    BY <1>3
  <2>3. i \in 1..Len(c) /\ Len(p) + j \in 1..Len(c) /\ i < Len(p) + j
    BY <1>1
  <2>4. c[i] = x /\ c[Len(p) + j] = y
    BY <1>1, <2>1, <2>2
  <2> QED
    BY <2>3, <2>4 DEF Before
<1> QED
  BY <1>1, <1>4, <1>5, <1>6, <1>7 DEF c

\* What Keep() has after m entries.
IsKept(f, q, S, m) ==
  f = [n \in 0..m |-> IF n = 0 THEN <<>>
                      ELSE IF q[n] \in S THEN Append(f[n - 1], q[n]) ELSE f[n - 1]]

\* The recursive definition has a solution.
LEMMA KeptExists ==
  ASSUME NEW q, NEW S, NEW m \in Nat
  PROVE  \E f : IsKept(f, q, S, m)
<1> DEFINE Bad == {n \in Nat : \A f : ~IsKept(f, q, S, n)}
<1>1. SUFFICES ASSUME Bad # {} PROVE FALSE
  BY DEF Bad
<1>2. PICK n \in Bad : \A y \in Bad : n <= y
  BY <1>1, LeastNat
<1> DEFINE Step(k, before) == IF k = 0 THEN <<>>
                              ELSE IF q[k] \in S THEN Append(before, q[k]) ELSE before
<1>3. CASE n = 0
  <2> DEFINE g == [k \in 0..0 |-> <<>>]
  <2>1. g = [k \in 0..0 |-> Step(k, g[k - 1])]
    OBVIOUS
  <2> QED
    BY <1>3, <2>1 DEF IsKept
<1>4. CASE n > 0
  <2>1. n - 1 \in Nat /\ n - 1 \notin Bad
    BY <1>2, <1>4
  <2>2. PICK f : IsKept(f, q, S, n - 1)
    BY <2>1
  <2> DEFINE g == [k \in 0..n |-> IF k = n THEN Step(n, f[n - 1]) ELSE f[k]]
  <2>3. f = [k \in 0..n - 1 |-> Step(k, f[k - 1])]
    BY <2>2 DEF IsKept
  <2> HIDE DEF Step
  <2>4. ASSUME NEW k \in 0..n
        PROVE  g[k] = Step(k, g[k - 1])
    <3>1. CASE k = n
      BY <1>4, <3>1
    <3>2. CASE k # n /\ k # 0
      <4>1. k \in 0..n - 1 /\ k - 1 \in 0..n - 1
        BY <1>2, <3>2
      <4>2. g[k] = f[k] /\ g[k - 1] = f[k - 1]
        BY <4>1
      <4> QED
        BY <2>3, <4>1, <4>2
    <3>3. CASE k # n /\ k = 0
      <4>1. k \in 0..n - 1 /\ g[k] = f[k]
        BY <1>2, <3>3
      <4>2. f[k] = Step(k, f[k - 1])
        BY <2>3, <4>1
      <4> QED
        BY <3>3, <4>1, <4>2 DEF Step
    <3> QED
      BY <3>1, <3>2, <3>3
  <2>5. g = [k \in 0..n |-> Step(k, g[k - 1])]
    BY <2>4
  <2>6. IsKept(g, q, S, n)
    BY <2>5 DEF IsKept, Step
  <2> QED
    BY <1>2, <2>6
<1> QED
  BY <1>2, <1>3, <1>4

\* k has the first n entries of q that are in S, in q's order.
KeptOf(k, q, S, n) ==
  /\ k \in Seq(Thrd)
  /\ \A i \in 1..n : q[i] \in S => \E j \in 1..Len(k) : k[j] = q[i]
  /\ \A j \in 1..Len(k) : \E i \in 1..n : q[i] = k[j] /\ q[i] \in S
  /\ \A j, l \in 1..Len(k) : j < l => \E i, m \in 1..n : i < m /\ q[i] = k[j] /\ q[m] = k[l]

LEMMA KeptStep ==
  ASSUME NEW q \in Seq(Thrd), NEW S, NEW n \in 1..Len(q), NEW k, KeptOf(k, q, S, n - 1)
  PROVE  KeptOf(IF q[n] \in S THEN Append(k, q[n]) ELSE k, q, S, n)
<1>1. /\ k \in Seq(Thrd) /\ n \in Nat
      /\ \A i \in 1..n - 1 : q[i] \in S => \E j \in 1..Len(k) : k[j] = q[i]
      /\ \A j \in 1..Len(k) : \E i \in 1..n - 1 : q[i] = k[j] /\ q[i] \in S
      /\ \A j, l \in 1..Len(k) : j < l => \E i, m \in 1..n - 1 : i < m /\ q[i] = k[j] /\ q[m] = k[l]
  BY DEF KeptOf
<1>2. 1..n = (1..n - 1) \cup {n} /\ n \notin 1..n - 1 /\ \A i \in 1..n - 1 : i < n
  BY <1>1
<1>3. CASE q[n] \notin S
  BY <1>1, <1>2, <1>3 DEF KeptOf
<1>4. CASE q[n] \in S
  <2> DEFINE a == Append(k, q[n])
  <2>1. /\ a \in Seq(Thrd) /\ Len(a) = Len(k) + 1 /\ Len(k) \in Nat
        /\ \A i \in 1..Len(k) : a[i] = k[i]
        /\ a[Len(k) + 1] = q[n]
    BY <1>1
  <2> HIDE DEF a
  <2>2. 1..Len(a) = (1..Len(k)) \cup {Len(k) + 1} /\ \A i \in 1..Len(k) : i < Len(k) + 1
    BY <2>1
  <2>3. ASSUME NEW i \in 1..n, q[i] \in S
        PROVE  \E j \in 1..Len(a) : a[j] = q[i]
    <3>1. CASE i = n
      BY <2>1, <2>2, <3>1
    <3>2. CASE i \in 1..n - 1
      <4>1. PICK j \in 1..Len(k) : k[j] = q[i]
        BY <1>1, <2>3, <3>2
      <4> QED
        BY <2>1, <2>2, <4>1
    <3> QED
      BY <1>2, <3>1, <3>2
  <2>4. ASSUME NEW j \in 1..Len(a)
        PROVE  \E i \in 1..n : q[i] = a[j] /\ q[i] \in S
    <3>1. CASE j \in 1..Len(k)
      <4>1. PICK i \in 1..n - 1 : q[i] = k[j] /\ q[i] \in S
        BY <1>1, <3>1
      <4> QED
        BY <1>2, <2>1, <3>1, <4>1
    <3>2. CASE j = Len(k) + 1
      BY <1>2, <1>4, <2>1, <3>2
    <3> QED
      BY <2>2, <3>1, <3>2
  <2>5. ASSUME NEW j \in 1..Len(a), NEW l \in 1..Len(a), j < l
        PROVE  \E i, m \in 1..n : i < m /\ q[i] = a[j] /\ q[m] = a[l]
    <3>1. j \in 1..Len(k)
      BY <2>1, <2>5
    <3>2. CASE l \in 1..Len(k)
      <4>1. a[j] = k[j] /\ a[l] = k[l]
        BY <2>1, <3>1, <3>2
      <4>2. PICK i \in 1..n - 1, m \in 1..n - 1 : i < m /\ q[i] = k[j] /\ q[m] = k[l]
        BY <1>1, <2>5, <3>1, <3>2
      <4> QED
        BY <1>2, <4>1, <4>2
    <3>3. CASE l = Len(k) + 1
      <4>1. PICK i \in 1..n - 1 : q[i] = k[j]
        BY <1>1, <3>1
      <4> QED
        BY <1>2, <2>1, <3>1, <3>3, <4>1
    <3> QED
      BY <2>2, <3>2, <3>3
  <2>6. KeptOf(a, q, S, n)
    BY <2>1, <2>3, <2>4, <2>5 DEF KeptOf
  <2> QED
    BY <1>4, <2>6 DEF a
<1> QED
  BY <1>3, <1>4

\* Keep() keeps the order and what is in S.
LEMMA KeepIs ==
  ASSUME NEW q \in Seq(Thrd), NEW S
  PROVE  KeptOf(Keep(q, S), q, S, Len(q))
<1> DEFINE L == Len(q)
           f == CHOOSE g : IsKept(g, q, S, L)
           Bad == {n \in 0..L : ~KeptOf(f[n], q, S, n)}
<1>1. L \in Nat
  OBVIOUS
<1>2. \E g : IsKept(g, q, S, L)
  BY <1>1, KeptExists
<1>3. IsKept(f, q, S, L)
  BY <1>2, Zenon
<1>4. Keep(q, S) = f[L]
  BY Zenon DEF Keep, IsKept
<1> HIDE DEF f, L
<1>5. f = [n \in 0..L |-> IF n = 0 THEN <<>>
                          ELSE IF q[n] \in S THEN Append(f[n - 1], q[n]) ELSE f[n - 1]]
  BY <1>3 DEF IsKept
<1>6. f[0] = <<>> /\ KeptOf(<<>>, q, S, 0)
  BY <1>1, <1>5 DEF KeptOf
<1>7. SUFFICES ASSUME Bad # {} PROVE FALSE
  BY <1>1, <1>4 DEF L
<1>8. PICK n \in Bad : \A y \in Bad : n <= y
  <2>1. Bad \in SUBSET Nat
    BY <1>1
  <2> QED
    BY <1>7, <2>1, LeastNat
<1>9. n \in 1..L /\ n - 1 \in 0..L
  BY <1>1, <1>6, <1>8
<1>10. KeptOf(f[n - 1], q, S, n - 1)
  BY <1>1, <1>8, <1>9
<1>11. KeptOf(IF q[n] \in S THEN Append(f[n - 1], q[n]) ELSE f[n - 1], q, S, n)
  <2>1. n \in 1..Len(q)
    BY <1>9 DEF L
  <2>2. PICK k : k = f[n - 1]
    OBVIOUS
  <2>3. KeptOf(k, q, S, n - 1)
    BY <1>10, <2>2
  <2>4. KeptOf(IF q[n] \in S THEN Append(k, q[n]) ELSE k, q, S, n)
    BY <2>1, <2>3, KeptStep, Zenon
  <2> QED
    BY <2>2, <2>4, Zenon
<1>12. f[n] = IF q[n] \in S THEN Append(f[n - 1], q[n]) ELSE f[n - 1]
  <2>1. PICK m \in 0..L : m = n
    BY <1>1, <1>9
  <2>2. m # 0
    BY <1>1, <1>9, <2>1
  <2> HIDE DEF Bad
  <2>3. f[m] = IF q[m] \in S THEN Append(f[m - 1], q[m]) ELSE f[m - 1]
    BY <1>5, <2>2
  <2> QED
    BY <2>1, <2>3
<1> QED
  BY <1>8, <1>11, <1>12

LEMMA OneOrder ==
  ASSUME NEW q \in Seq(Thrd), IsInjective(q), NEW x, NEW y, Before(q, x, y)
  PROVE  ~Before(q, y, x)
<1>1. \A i, j \in 1..Len(q) : q[i] = q[j] => i = j
  BY Members
<1> QED
  BY <1>1 DEF Before

LEMMA KeepFacts ==
  ASSUME NEW q \in Seq(Thrd), NEW S
  PROVE  /\ Keep(q, S) \in Seq(Thrd)
         /\ ToSet(Keep(q, S)) = ToSet(q) \cap S
         /\ IsInjective(q) =>
              /\ IsInjective(Keep(q, S))
              /\ \A x, y \in S : Before(q, x, y) => Before(Keep(q, S), x, y)
         /\ ToSet(Keep(q, S)) # {} =>
              /\ Head(Keep(q, S)) \in ToSet(q) \cap S
              /\ \A u \in ToSet(q) \cap S : u # Head(Keep(q, S)) => Before(q, Head(Keep(q, S)), u)
<1>1. PICK k : k = Keep(q, S)
  OBVIOUS
<1>2. KeptOf(k, q, S, Len(q))
  BY <1>1, KeepIs
<1>3. /\ k \in Seq(Thrd) /\ Len(k) \in Nat /\ Len(q) \in Nat
      /\ \A i \in 1..Len(q) : q[i] \in S => \E j \in 1..Len(k) : k[j] = q[i]
      /\ \A j \in 1..Len(k) : \E i \in 1..Len(q) : q[i] = k[j] /\ q[i] \in S
      /\ \A j, l \in 1..Len(k) : j < l =>
           \E i, m \in 1..Len(q) : i < m /\ q[i] = k[j] /\ q[m] = k[l]
  <2>1. k \in Seq(Thrd)
    BY <1>2 DEF KeptOf
  <2>2. Len(k) \in Nat /\ Len(q) \in Nat
    BY <2>1
  <2> QED
    BY <1>2, <2>1, <2>2, Zenon DEF KeptOf
<1>4. /\ \A x : x \in ToSet(k) <=> \E i \in 1..Len(k) : k[i] = x
      /\ \A x : x \in ToSet(q) <=> \E i \in 1..Len(q) : q[i] = x
  BY <1>3, Members
<1>5. ToSet(k) = ToSet(q) \cap S
  <2>1. ASSUME NEW x \in ToSet(k)
        PROVE  x \in ToSet(q) \cap S
    <3>1. PICK j \in 1..Len(k) : k[j] = x
      BY <1>4
    <3>2. PICK i \in 1..Len(q) : q[i] = k[j] /\ q[i] \in S
      BY <1>3
    <3> QED
      BY <1>4, <3>1, <3>2
  <2>2. ASSUME NEW x \in ToSet(q) \cap S
        PROVE  x \in ToSet(k)
    BY <1>3, <1>4
  <2> QED
    BY <2>1, <2>2
<1>6. \A j, l \in 1..Len(k) : j < l => Before(q, k[j], k[l])
  BY <1>3 DEF Before
<1>7. ASSUME IsInjective(q)
      PROVE  /\ IsInjective(k)
             /\ \A x, y \in S : Before(q, x, y) => Before(k, x, y)
  <2>1. \A i, j \in 1..Len(q) : q[i] = q[j] => i = j
    BY <1>7, Members
  <2>2. \A j, l \in 1..Len(k) : j < l => k[j] # k[l]
    BY <1>3, <2>1
  <2>3. IsInjective(k)
    <3>1. ASSUME NEW j \in 1..Len(k), NEW l \in 1..Len(k), k[j] = k[l]
          PROVE  j = l
      <4>1. ~(j < l) /\ ~(l < j)
        BY <2>2, <3>1
      <4> QED
        BY <1>3, <4>1
    <3> QED
      BY <1>3, <3>1, Members
  <2>4. ASSUME NEW x \in S, NEW y \in S, Before(q, x, y)
        PROVE  Before(k, x, y)
    <3>1. x \in ToSet(q) /\ y \in ToSet(q)
      BY <1>4, <2>4 DEF Before
    <3>2. PICK j \in 1..Len(k) : k[j] = x
      BY <1>4, <1>5, <3>1
    <3>3. PICK l \in 1..Len(k) : k[l] = y
      BY <1>4, <1>5, <3>1
    <3>4. ~Before(q, y, x)
      BY <1>7, <2>4, OneOrder
    <3>5. ~(l < j)
      BY <1>6, <3>2, <3>3, <3>4
    <3>6. j # l
      BY <2>4, <3>2, <3>3, <3>4
    <3>7. j < l
      BY <1>3, <3>5, <3>6
    <3> QED
      BY <3>2, <3>3, <3>7 DEF Before
  <2> QED
    BY <2>3, <2>4
<1>8. ASSUME ToSet(k) # {}
      PROVE  /\ Head(k) \in ToSet(q) \cap S
             /\ \A u \in ToSet(q) \cap S : u # Head(k) => Before(q, Head(k), u)
  <2>1. 1 \in 1..Len(k) /\ Head(k) = k[1]
    BY <1>3, <1>4, <1>8
  <2>2. Head(k) \in ToSet(q) \cap S
    BY <1>4, <1>5, <2>1
  <2>3. ASSUME NEW u \in ToSet(q) \cap S, u # Head(k)
        PROVE  Before(q, Head(k), u)
    <3>1. PICK l \in 1..Len(k) : k[l] = u
      BY <1>4, <1>5
    <3>2. 1 < l
      BY <1>3, <2>1, <2>3, <3>1
    <3> QED
      BY <1>6, <2>1, <3>1, <3>2
  <2> QED
    BY <2>2, <2>3
<1> QED
  BY <1>1, <1>3, <1>5, <1>7, <1>8

\* list_del().
LEMMA WithoutFacts ==
  ASSUME NEW q \in Seq(Thrd), NEW t
  PROVE  /\ Without(q, t) \in Seq(Thrd)
         /\ ToSet(Without(q, t)) = ToSet(q) \ {t}
         /\ IsInjective(q) =>
              /\ IsInjective(Without(q, t))
              /\ \A x, y : x # t /\ y # t /\ Before(q, x, y) => Before(Without(q, t), x, y)
<1>1. PICK S : S = Thrd \ {t}
  OBVIOUS
<1>2. Without(q, t) = Keep(q, S)
  BY <1>1 DEF Without
<1>3. ToSet(q) \subseteq Thrd
  BY Members
<1>4. ToSet(q) \cap S = ToSet(q) \ {t}
  BY <1>1, <1>3
<1>5. \A x, y : Before(q, x, y) => x \in ToSet(q) /\ y \in ToSet(q)
  BY Members DEF Before
<1>6. \A x, y : x # t /\ y # t /\ Before(q, x, y) => x \in S /\ y \in S
  BY <1>1, <1>3, <1>5
<1> QED
  BY <1>2, <1>4, <1>6, KeepFacts

\* list_del() and list_add_tail(): t is behind all others.
LEMMA ToTailFacts ==
  ASSUME NEW q \in Seq(Thrd), IsInjective(q), NEW t \in ToSet(q)
  PROVE  /\ ToTail(q, t) \in Seq(Thrd)
         /\ ToSet(ToTail(q, t)) = ToSet(q)
         /\ IsInjective(ToTail(q, t))
         /\ \A x, y : x # t /\ y # t /\ Before(q, x, y) => Before(ToTail(q, t), x, y)
         /\ \A x \in ToSet(q) \ {t} : Before(ToTail(q, t), x, t)
<1>1. PICK w : w = Without(q, t)
  OBVIOUS
<1>2. /\ w \in Seq(Thrd) /\ ToSet(w) = ToSet(q) \ {t} /\ IsInjective(w)
      /\ \A x, y : x # t /\ y # t /\ Before(q, x, y) => Before(w, x, y)
  BY <1>1, WithoutFacts
<1>3. ToTail(q, t) = Append(w, t)
  BY <1>1 DEF ToTail
<1>4. t \in Thrd
  BY Members
<1>5. /\ Append(w, t) \in Seq(Thrd)
      /\ ToSet(Append(w, t)) = ToSet(w) \cup {t}
      /\ IsInjective(Append(w, t))
      /\ \A x, y : Before(w, x, y) => Before(Append(w, t), x, y)
      /\ \A x \in ToSet(w) : Before(Append(w, t), x, t)
  BY <1>2, <1>4, AppendFacts
<1> QED
  BY <1>2, <1>3, <1>5

-----------------------------------------------------------------------------
(* The library's variables *)

LibFields ==
  {"time", "run", "release", "job", "current", "allocated", "freed", "at", "since"}
Job == [n : Nat, remaining : Nat, deadline : Int, arrival : Int]

LibTypes(s) ==
  /\ DOMAIN s = LibFields
  /\ s.time \in Nat /\ s.run \in Seq(Thrd) /\ s.release \in Seq(Thrd)
  /\ s.job \in [Thrd -> Job]
  /\ s.since \in [Thrd -> SUBSET Thrd]

\* What thread_create() and thread_add_at() were given.
TaskTypes ==
  \A t \in Thrd :
    /\ task[t].is_real_time \in BOOLEAN
    /\ task[t].period \in Int /\ task[t].period >= -1
    /\ task[t].processing_time \in Nat /\ task[t].processing_time > 0
    /\ task[t].n \in Nat /\ task[t].n > 0
    /\ task[t].arrival \in Nat /\ task[t].priority \in Nat

OneQueue(s) ==
  /\ IsInjective(s.run) /\ IsInjective(s.release)
  /\ ToSet(s.run) \cap ToSet(s.release) = {}

\* Who is not freed is in a list.
Whole(s) ==
  /\ s.freed \in SUBSET Thrd
  /\ ToSet(s.run) \cup ToSet(s.release) = Thrd \ s.freed

\* Who is in a queue has cycles left, and in the run queue a part of one.
Jobs(s) ==
  /\ \A t \in ToSet(s.run) :
       s.job[t].n > 0 /\ s.job[t].remaining > 0 /\ s.job[t].arrival <= s.time
  /\ \A t \in ToSet(s.release) : s.job[t].n > 0

\* P-RR: who has had a turn since t waits is behind t, c excepted.
Turns(s, c) ==
  sched = "PRIORITY_RR" =>
    \A t, u \in ToSet(s.run) :
      t # u /\ Eligible(t) /\ task[t].priority = task[u].priority /\ u \in s.since[t] =>
        u = c \/ Before(s.run, t, u)

Ready(s, c) ==
  /\ LibTypes(s)
  /\ OneQueue(s)
  /\ Jobs(s)
  /\ \A t \in Thrd \ ToSet(s.run) : s.since[t] = {}
  /\ Turns(s, c)

\* Nobody is left to release.
NoneDue(s) == \A t \in ToSet(s.release) : s.job[t].arrival > s.time

LEMMA ReleaseIs ==
  ASSUME TaskTypes, NEW s, LibTypes(s)
  PROVE  /\ LibTypes(__release(s))
         /\ __release(s).run = s.run \o Released(s)
         /\ __release(s).release = StillWaiting(s)
         /\ __release(s).time = s.time /\ __release(s).since = s.since
         /\ __release(s).current = s.current /\ __release(s).allocated = s.allocated
         /\ __release(s).at = s.at /\ __release(s).freed = s.freed
         /\ \A t \in Thrd :
              /\ __release(s).job[t].n = s.job[t].n
              /\ __release(s).job[t].arrival = s.job[t].arrival
              /\ IF t \in ToSet(Released(s))
                 THEN __release(s).job[t].remaining = task[t].processing_time
                 ELSE __release(s).job[t] = s.job[t]
<1> DEFINE R == Released(s)
           W == StillWaiting(s)
           job == [t \in Thrd |->
                     IF Contains(R, t)
                     THEN [s.job[t] EXCEPT !.remaining = task[t].processing_time,
                                           !.deadline = s.job[t].arrival + task[t].period]
                     ELSE s.job[t]]
<1>1. R \in Seq(Thrd) /\ W \in Seq(Thrd)
  BY KeepFacts DEF Released, StillWaiting, LibTypes
<1>2. __release(s) = [s EXCEPT !.run = @ \o R, !.release = W, !.job = job]
  BY DEF __release
<1>3. ASSUME NEW t \in Thrd
      PROVE  /\ job[t] \in Job
             /\ job[t].n = s.job[t].n /\ job[t].arrival = s.job[t].arrival
             /\ IF t \in ToSet(R) THEN job[t].remaining = task[t].processing_time
                ELSE job[t] = s.job[t]
  <2>1. s.job[t] \in Job
    BY DEF LibTypes
  <2>2. Contains(R, t) <=> t \in ToSet(R)
    BY <1>1, Members
  <2>3. task[t].processing_time \in Nat /\ s.job[t].arrival + task[t].period \in Int
    BY <2>1 DEF TaskTypes, Job
  <2>4. CASE Contains(R, t)
    <3>1. PICK x \in Nat, y \in Int : x = task[t].processing_time /\ y = s.job[t].arrival + task[t].period
      BY <2>3
    <3>2. job[t] = [s.job[t] EXCEPT !.remaining = x, !.deadline = y]
      BY <2>4, <3>1
    <3> HIDE DEF job
    <3> QED
      BY <2>1, <2>2, <2>4, <3>1, <3>2 DEF Job
  <2>5. CASE ~Contains(R, t)
    BY <2>1, <2>2, <2>5
  <2> QED
    BY <2>4, <2>5
<1>4. job \in [Thrd -> Job]
  BY <1>3
<1> HIDE DEF R, W, job
<1>5. s.run \o R \in Seq(Thrd)
  BY <1>1 DEF LibTypes
<1> QED
  BY <1>1, <1>2, <1>3, <1>4, <1>5 DEF LibTypes, LibFields, R, W

\* Released threads come behind those that wait, and none that is due is left.
LEMMA ReleaseReady ==
  ASSUME TaskTypes, NEW s, NEW c, Ready(s, c)
  PROVE  /\ Ready(__release(s), c)
         /\ NoneDue(__release(s))
         /\ ToSet(s.run) \subseteq ToSet(__release(s).run)
         /\ \A t \in ToSet(s.run) : __release(s).job[t] = s.job[t]
         /\ Whole(s) => Whole(__release(s))
<1> DEFINE D == Due(s)
<1>1. PICK r : r = __release(s)
  OBVIOUS
<1>2. LibTypes(s) /\ OneQueue(s) /\ Jobs(s) /\ Turns(s, c)
  BY DEF Ready
<1>3. s.run \in Seq(Thrd) /\ s.release \in Seq(Thrd) /\ s.time \in Nat
  BY <1>2 DEF LibTypes
<1>4. PICK R, W : R = Released(s) /\ W = StillWaiting(s)
  OBVIOUS
<1>5. /\ LibTypes(r) /\ r.run = s.run \o R /\ r.release = W /\ r.time = s.time /\ r.since = s.since
      /\ r.freed = s.freed
      /\ \A t \in Thrd : /\ r.job[t].n = s.job[t].n /\ r.job[t].arrival = s.job[t].arrival
                         /\ IF t \in ToSet(R) THEN r.job[t].remaining = task[t].processing_time
                            ELSE r.job[t] = s.job[t]
  BY <1>1, <1>2, <1>4, ReleaseIs
<1>6. /\ R \in Seq(Thrd) /\ ToSet(R) = ToSet(s.release) \cap D /\ IsInjective(R)
      /\ W \in Seq(Thrd) /\ ToSet(W) = ToSet(s.release) \cap (Thrd \ D) /\ IsInjective(W)
  <2> HIDE DEF D
  <2>1. IsInjective(s.release)
    BY <1>2 DEF OneQueue
  <2>2. R = Keep(s.release, D) /\ W = Keep(s.release, Thrd \ D)
    BY <1>4 DEF Released, StillWaiting, D
  <2>3. PICK E : E = Thrd \ D
    OBVIOUS
  <2>4. R \in Seq(Thrd) /\ ToSet(R) = ToSet(s.release) \cap D /\ IsInjective(R)
    BY <1>3, <2>1, <2>2, KeepFacts
  <2>5. W \in Seq(Thrd) /\ ToSet(W) = ToSet(s.release) \cap E /\ IsInjective(W)
    BY <1>3, <2>1, <2>2, <2>3, KeepFacts
  <2> QED
    BY <2>3, <2>4, <2>5
<1>7. /\ IsInjective(s.run) /\ ToSet(s.run) \cap ToSet(R) = {}
      /\ ToSet(s.run) \subseteq Thrd /\ ToSet(s.release) \subseteq Thrd
  <2>1. ToSet(s.run) \cap ToSet(s.release) = {} /\ IsInjective(s.run)
    BY <1>2 DEF OneQueue
  <2> QED
    BY <1>3, <1>6, <2>1, Members
<1>8. /\ ToSet(r.run) = ToSet(s.run) \cup ToSet(R) /\ IsInjective(r.run)
      /\ \A x, y : Before(s.run, x, y) => Before(r.run, x, y)
      /\ \A x \in ToSet(s.run), y \in ToSet(R) : Before(r.run, x, y)
  BY <1>3, <1>5, <1>6, <1>7, ConcatFacts
<1>9. OneQueue(r)
  BY <1>2, <1>5, <1>6, <1>7, <1>8 DEF OneQueue
<1>10. \A t \in Thrd : t \in D <=> s.job[t].arrival <= s.time
  BY DEF Due
<1> HIDE DEF D
<1>11. \A t \in Thrd : s.job[t].arrival \in Int
  BY <1>2 DEF LibTypes, Job
<1>12. Jobs(r)
  <2>1. ASSUME NEW t \in ToSet(s.run)
        PROVE  r.job[t].n > 0 /\ r.job[t].remaining > 0 /\ r.job[t].arrival <= r.time
    <3>1. t \in Thrd /\ r.job[t] = s.job[t]
      BY <1>5, <1>7
    <3> QED
      BY <1>2, <1>5, <3>1 DEF Jobs
  <2>2. ASSUME NEW t \in ToSet(R)
        PROVE  r.job[t].n > 0 /\ r.job[t].remaining > 0 /\ r.job[t].arrival <= r.time
    <3>1. t \in Thrd /\ t \in ToSet(s.release) /\ t \in D
      BY <1>6, <1>7
    <3>2. s.job[t].n > 0 /\ s.job[t].arrival <= s.time
      BY <1>2, <1>10, <3>1 DEF Jobs
    <3>3. task[t].processing_time > 0
      BY <3>1 DEF TaskTypes
    <3> QED
      BY <1>5, <3>1, <3>2, <3>3
  <2>3. ASSUME NEW t \in ToSet(W)
        PROVE  r.job[t].n > 0
    <3>1. t \in Thrd /\ t \in ToSet(s.release)
      BY <1>6, <1>7
    <3> QED
      BY <1>2, <1>5, <3>1 DEF Jobs
  <2> QED
    BY <1>5, <1>8, <2>1, <2>2, <2>3 DEF Jobs
<1>13. \A t \in Thrd \ ToSet(r.run) : r.since[t] = {}
  BY <1>5, <1>8 DEF Ready
<1>14. Turns(r, c)
  <2>1. SUFFICES ASSUME sched = "PRIORITY_RR", NEW t \in ToSet(r.run), NEW u \in ToSet(r.run),
                        t # u, Eligible(t), task[t].priority = task[u].priority, u \in r.since[t]
                 PROVE  u = c \/ Before(r.run, t, u)
    BY DEF Turns
  <2>2. t \in ToSet(s.run)
    <3>1. t \in Thrd
      BY <1>6, <1>7, <1>8
    <3> QED
      BY <1>5, <2>1, <3>1 DEF Ready
  <2>3. CASE u \in ToSet(s.run)
    BY <1>2, <1>5, <1>8, <2>1, <2>2, <2>3 DEF Turns
  <2>4. CASE u \in ToSet(R)
    BY <1>8, <2>2, <2>4
  <2> QED
    BY <1>8, <2>3, <2>4
<1>15. NoneDue(r)
  <2>1. ASSUME NEW t \in ToSet(W)
        PROVE  r.job[t].arrival > r.time
    <3>1. t \in Thrd /\ t \notin D
      BY <1>6
    <3> QED
      BY <1>3, <1>5, <1>10, <1>11, <3>1
  <2> QED
    BY <1>5, <2>1 DEF NoneDue
<1>16. \A t \in ToSet(s.run) : r.job[t] = s.job[t]
  BY <1>5, <1>7
<1>17. Whole(s) => Whole(r)
  <2>1. ToSet(r.run) \cup ToSet(r.release) = ToSet(s.run) \cup ToSet(s.release)
    BY <1>5, <1>6, <1>7, <1>8
  <2> QED
    BY <1>5, <2>1 DEF Whole
<1> QED
  BY <1>1, <1>5, <1>8, <1>9, <1>12, <1>13, <1>14, <1>15, <1>16, <1>17 DEF Ready

-----------------------------------------------------------------------------
(* The schedulers *)

LEMMA ThreadIds ==
  /\ Thrd \subseteq Nat /\ NoThread \notin Thrd
  /\ TIME_QUANTUM \in Nat /\ TIME_QUANTUM > 0
<1>1. Cardinality(Thrd) \in Nat
  BY RtAssumption, FS_CardinalityType
<1> QED
  BY <1>1, RtAssumption DEF NoThread

LEMMA LeastIn ==
  ASSUME NEW S \in SUBSET Nat, S # {}
  PROVE  Least(S) \in S /\ \A y \in S : Least(S) <= y
<1>1. \E x \in S : \A y \in S : x <= y
  BY LeastNat
<1> QED
  BY <1>1, Zenon DEF Least

\* What a scheduler does to the queues.
SameJobs(s, d) ==
  /\ LibTypes(d)
  /\ d.time = s.time /\ d.release = s.release /\ d.job = s.job /\ d.since = s.since
  /\ d.freed = s.freed /\ ToSet(d.run) = ToSet(s.run) /\ IsInjective(d.run)

\* The choice of nobody, and of a thread.
Idles(s, d) ==
  /\ d.current = NoThread /\ d.run = s.run
  /\ \A t \in ToSet(s.run) : ~Eligible(t)
  /\ d.allocated \in Nat
  /\ s.run = <<>> /\ s.release # <<>> => d.allocated > 0
  /\ \A t \in ToSet(s.release) : s.job[t].arrival >= s.time + d.allocated
Chooses(s, d) ==
  /\ d.current \in ToSet(s.run)
  /\ d.allocated \in Nat /\ d.allocated <= s.job[d.current].remaining

\* P-RR: the choice has had no turn since another of its priority waits, and unless it
\* is to run to its end it goes behind the others.
InTurn(s, d) ==
  /\ \A t \in ToSet(s.run) \ {d.current} :
       Eligible(t) /\ task[t].priority = task[d.current].priority =>
         d.current \notin s.since[t]
  /\ d.allocated = s.job[d.current].remaining
     \/ \A t \in ToSet(s.run) \ {d.current} : Before(d.run, t, d.current)
  /\ \A t, u \in ToSet(s.run) \ {d.current} : Before(s.run, t, u) => Before(d.run, t, u)

Best(s, d) ==
  \A t \in ToSet(s.run) \ {d.current} : Eligible(t) => Beats(s, d.current, t)

Scheduled(s, d) ==
  /\ SameJobs(s, d)
  /\ Idles(s, d) \/ Chooses(s, d)
  /\ Chooses(s, d) /\ sched = "PRIORITY_RR" => InTurn(s, d)
  /\ Chooses(s, d) /\ sched = "HRRN" => Best(s, d)

LEMMA PicksIs ==
  ASSUME NEW s, LibTypes(s), NEW t, NEW ticks
  PROVE  /\ LibTypes(Picks(s, t, ticks))
         /\ Picks(s, t, ticks).current = t /\ Picks(s, t, ticks).allocated = ticks
         /\ Picks(s, t, ticks).time = s.time /\ Picks(s, t, ticks).run = s.run
         /\ Picks(s, t, ticks).release = s.release /\ Picks(s, t, ticks).job = s.job
         /\ Picks(s, t, ticks).since = s.since /\ Picks(s, t, ticks).freed = s.freed
  BY DEF Picks, LibTypes, LibFields

LEMMA PicksSame ==
  ASSUME NEW s, NEW c, Ready(s, c), NEW t, NEW ticks
  PROVE  SameJobs(s, Picks(s, t, ticks))
<1>1. LibTypes(s) /\ IsInjective(s.run)
  BY DEF Ready, OneQueue
<1> QED
  BY <1>1, PicksIs DEF SameJobs

\* Nobody to choose, for the three schedulers that wait a tick.
LEMMA NoneScheduled ==
  ASSUME NEW s, NEW c, Ready(s, c), NoneDue(s), \A t \in ToSet(s.run) : ~Eligible(t)
  PROVE  Scheduled(s, PicksNone(s))
<1>1. LibTypes(s)
  BY DEF Ready
<1>2. /\ PicksNone(s).current = NoThread /\ PicksNone(s).allocated = 1
      /\ PicksNone(s).run = s.run
  BY <1>1, PicksIs DEF PicksNone
<1>3. SameJobs(s, PicksNone(s))
  BY PicksSame DEF PicksNone
<1>4. \A t \in ToSet(s.release) : s.job[t].arrival >= s.time + 1
  <2>1. ASSUME NEW t \in ToSet(s.release)
        PROVE  s.job[t].arrival >= s.time + 1
    <3>1. t \in Thrd
      BY <1>1, Members DEF LibTypes
    <3>2. s.job[t].arrival \in Int /\ s.time \in Nat
      BY <1>1, <3>1 DEF LibTypes, Job
    <3>3. s.job[t].arrival > s.time
      BY DEF NoneDue
    <3> QED
      BY <3>2, <3>3
  <2> QED
    BY <2>1
<1>5. Idles(s, PicksNone(s))
  BY <1>2, <1>4 DEF Idles
<1>6. ~Chooses(s, PicksNone(s))
  <2>1. ToSet(s.run) \subseteq Thrd
    BY <1>1, Members DEF LibTypes
  <2> QED
    BY <1>2, <2>1, ThreadIds DEF Chooses
<1> QED
  BY <1>3, <1>5, <1>6 DEF Scheduled

\* A thread of the run queue has something left to do.
LEMMA QueuedJob ==
  ASSUME NEW s, NEW c, Ready(s, c), NEW t \in ToSet(s.run)
  PROVE  /\ t \in Thrd
         /\ s.job[t] \in Job
         /\ s.job[t].remaining \in Nat /\ s.job[t].remaining > 0
         /\ s.job[t].arrival \in Int /\ s.time \in Nat /\ s.job[t].arrival <= s.time
<1>1. LibTypes(s) /\ Jobs(s)
  BY DEF Ready
<1>2. t \in Thrd
  BY <1>1, Members DEF LibTypes
<1>3. s.job[t] \in Job /\ s.time \in Nat
  BY <1>1, <1>2 DEF LibTypes
<1>4. s.job[t].remaining > 0 /\ s.job[t].arrival <= s.time
  BY <1>1 DEF Jobs
<1> QED
  BY <1>2, <1>3, <1>4 DEF Job

\* The run queue as a set of numbers.
LEMMA QueuedIds ==
  ASSUME NEW s, NEW c, Ready(s, c)
  PROVE  /\ Queued(s) = ToSet(s.run) /\ Queued(s) \in SUBSET Nat
         /\ s.run # <<>> => Queued(s) # {}
<1>1. s.run \in Seq(Thrd)
  BY DEF Ready, LibTypes
<1> QED
  BY <1>1, Members, ThreadIds DEF Queued

LEMMA DefaultScheduled ==
  ASSUME NEW s, NEW c, Ready(s, c), NoneDue(s), sched = "DEFAULT"
  PROVE  Scheduled(s, schedule_default(s))
<1>1. CASE s.run = <<>>
  <2>1. ToSet(s.run) = {}
    BY <1>1, Members DEF Ready, LibTypes
  <2> QED
    BY <1>1, <2>1, NoneScheduled DEF schedule_default
<1>2. CASE s.run # <<>>
  <2>1. PICK t : t = Least(Queued(s))
    OBVIOUS
  <2>2. t \in ToSet(s.run)
    BY <1>2, <2>1, LeastIn, QueuedIds
  <2>3. PICK d : d = Picks(s, t, s.job[t].remaining)
    OBVIOUS
  <2>4. d.current = t /\ d.allocated = s.job[t].remaining
    BY <2>3, PicksIs DEF Ready
  <2>5. Chooses(s, d)
    BY <2>2, <2>4, QueuedJob DEF Chooses
  <2>6. SameJobs(s, d)
    BY <2>3, PicksSame
  <2>7. schedule_default(s) = d
    BY <1>2, <2>1, <2>3 DEF schedule_default
  <2> QED
    BY <2>5, <2>6, <2>7 DEF Scheduled
<1> QED
  BY <1>1, <1>2

\* A scheduler that passes over threads, its set of the others.
LEMMA OthersEligible ==
  ASSUME TaskTypes, NEW s, NEW c, Ready(s, c)
  PROVE  /\ RealTime(s) = {t \in ToSet(s.run) : task[t].is_real_time}
         /\ Ordinary(s) = {t \in ToSet(s.run) : ~task[t].is_real_time}
         /\ ToSet(s.run) \subseteq Thrd
  BY QueuedIds, Members DEF RealTime, Ordinary, Ready, LibTypes

\* Whoever may be chosen does not have a higher priority than the group.
LEMMA HighestQueued ==
  ASSUME TaskTypes, NEW s, NEW c, Ready(s, c), sched = "PRIORITY_RR",
         NEW t \in ToSet(s.run), Eligible(t)
  PROVE  \E u \in ToSet(s.run) : ~task[u].is_real_time /\ task[u].priority = Highest(s)
<1> DEFINE P == {task[u].priority : u \in Ordinary(s)}
<1>1. /\ Ordinary(s) = {u \in ToSet(s.run) : ~task[u].is_real_time}
      /\ ToSet(s.run) \subseteq Thrd
  BY OthersEligible
<1>2. t \in Thrd /\ ~task[t].is_real_time /\ task[t].priority <= 5 /\ task[t].priority \in Nat
  BY <1>1 DEF Eligible, TaskTypes
<1>3. {5} \cup P \in SUBSET Nat /\ {5} \cup P # {}
  BY <1>1 DEF TaskTypes
<1>4. Highest(s) \in {5} \cup P /\ \A y \in {5} \cup P : Highest(s) <= y
  BY <1>3, LeastIn DEF Highest
<1>5. task[t].priority \in P
  BY <1>1, <1>2
<1>6. CASE Highest(s) \in P
  BY <1>1, <1>6
<1>7. CASE Highest(s) = 5
  <2>1. 5 <= task[t].priority
    BY <1>4, <1>5, <1>7
  <2> QED
    BY <1>2, <1>7, <2>1
<1> QED
  BY <1>4, <1>6, <1>7

LEMMA PriorityScheduled ==
  ASSUME TaskTypes, NEW s, Ready(s, NoThread), NoneDue(s), sched = "PRIORITY_RR"
  PROVE  Scheduled(s, schedule_priority_rr(s))
<1> DEFINE H == {u \in Thrd : ~task[u].is_real_time /\ task[u].priority = Highest(s)}
<1>0. /\ Group(s) \in Seq(Thrd)
      /\ ToSet(Group(s)) = ToSet(s.run) \cap H /\ ToSet(s.run) \subseteq Thrd
  BY KeepFacts, Members DEF Group, Ready, OneQueue, LibTypes
<1>1. CASE Group(s) = <<>>
  <2>1. ToSet(s.run) \cap H = {}
    BY <1>0, <1>1, Members
  <2>2. \A t \in ToSet(s.run) : ~Eligible(t)
    BY <1>0, <2>1, HighestQueued
  <2> QED
    BY <1>1, <2>2, NoneScheduled DEF schedule_priority_rr
<1>2. CASE Group(s) # <<>>
  <2>1. PICK t : t = Head(Group(s))
    OBVIOUS
  <2>2. s.run \in Seq(Thrd) /\ IsInjective(s.run) /\ ToSet(s.run) \subseteq Thrd /\ LibTypes(s)
    BY Members DEF Ready, OneQueue, LibTypes
  <2>4. ToSet(Group(s)) # {}
    BY <1>0, <1>2, Members
  <2>5. /\ t \in ToSet(s.run) \cap H
        /\ \A u \in ToSet(s.run) \cap H : u # t => Before(s.run, t, u)
    <3> HIDE DEF H
    <3>1. PICK K : K = H
      OBVIOUS
    <3>2. Group(s) = Keep(s.run, K)
      BY <3>1 DEF Group, H
    <3>3. ToSet(Keep(s.run, K)) # {}
      BY <2>4, <3>2
    <3>4. /\ Head(Keep(s.run, K)) \in ToSet(s.run) \cap K
          /\ \A u \in ToSet(s.run) \cap K : u # Head(Keep(s.run, K)) => Before(s.run, Head(Keep(s.run, K)), u)
      BY <2>2, <3>3, KeepFacts
    <3> QED
      BY <2>1, <3>1, <3>2, <3>4
  <2>6. ASSUME NEW u \in ToSet(s.run) \ {t}, Eligible(u), task[u].priority = task[t].priority
        PROVE  t \notin s.since[u]
    <3>1. Before(s.run, t, u)
      BY <2>2, <2>5, <2>6 DEF Eligible
    <3>2. ~Before(s.run, u, t)
      BY <2>2, <3>1, OneOrder
    <3>3. t # NoThread
      BY <2>2, <2>5, ThreadIds
    <3>4. Turns(s, NoThread)
      BY DEF Ready
    <3> QED
      BY <2>5, <2>6, <3>2, <3>3, <3>4 DEF Turns
  <2>7. CASE Len(Group(s)) = 1 \/ s.job[t].remaining <= TIME_QUANTUM
    <3>1. PICK d : d = Picks(s, t, s.job[t].remaining)
      OBVIOUS
    <3>2. d.current = t /\ d.allocated = s.job[t].remaining /\ d.run = s.run
      BY <2>2, <3>1, PicksIs
    <3>3. Chooses(s, d)
      BY <2>5, <3>2, QueuedJob DEF Chooses
    <3>4. SameJobs(s, d)
      BY <3>1, PicksSame
    <3>5. InTurn(s, d)
      BY <2>6, <3>2 DEF InTurn
    <3>6. schedule_priority_rr(s) = d
      BY <1>2, <2>1, <2>7, <3>1 DEF schedule_priority_rr
    <3> QED
      BY <3>3, <3>4, <3>5, <3>6 DEF Scheduled
  <2>8. CASE ~(Len(Group(s)) = 1 \/ s.job[t].remaining <= TIME_QUANTUM)
    <3>1. PICK q : q = ToTail(s.run, t)
      OBVIOUS
    <3>2. /\ q \in Seq(Thrd) /\ ToSet(q) = ToSet(s.run) /\ IsInjective(q)
          /\ \A x, y : x # t /\ y # t /\ Before(s.run, x, y) => Before(q, x, y)
          /\ \A x \in ToSet(s.run) \ {t} : Before(q, x, t)
      BY <2>2, <2>5, <3>1, ToTailFacts
    <3>3. PICK e : e = [s EXCEPT !.run = q]
      OBVIOUS
    <3>4. /\ LibTypes(e) /\ e.run = q /\ e.time = s.time /\ e.release = s.release
          /\ e.job = s.job /\ e.since = s.since /\ e.freed = s.freed
      BY <2>2, <3>2, <3>3 DEF LibTypes, LibFields
    <3>5. PICK d : d = Picks(e, t, TIME_QUANTUM)
      OBVIOUS
    <3>6. /\ LibTypes(d) /\ d.run = q /\ d.time = s.time /\ d.release = s.release
          /\ d.job = s.job /\ d.since = s.since /\ d.freed = s.freed
          /\ d.current = t /\ d.allocated = TIME_QUANTUM
      BY <3>4, <3>5, PicksIs
    <3>7. Chooses(s, d)
      <4>1. s.job[t].remaining \in Nat
        BY <2>5, QueuedJob
      <4> QED
        BY <2>5, <2>8, <3>6, <4>1, ThreadIds DEF Chooses
    <3>8. SameJobs(s, d)
      BY <3>2, <3>6 DEF SameJobs
    <3>9. InTurn(s, d)
      BY <2>6, <3>2, <3>6 DEF InTurn
    <3>10. schedule_priority_rr(s) = d
      BY <1>2, <2>1, <2>8, <3>1, <3>3, <3>5 DEF schedule_priority_rr
    <3> QED
      BY <3>7, <3>8, <3>9, <3>10 DEF Scheduled
  <2> QED
    BY <2>7, <2>8
<1> QED
  BY <1>1, <1>2

-----------------------------------------------------------------------------
\* Somebody's period is the shortest.
LEMMA ShortestQueued ==
  ASSUME TaskTypes, NEW S \in SUBSET Thrd, S # {}
  PROVE  \E t \in S : \A u \in S \ {t} : Shorter(t, u)
<1> DEFINE P == {task[t].period + 1 : t \in S}
<1>1. P \in SUBSET Nat /\ P # {}
  BY DEF TaskTypes
<1>2. PICK p \in P : \A y \in P : p <= y
  BY <1>1, LeastNat
<1> DEFINE M == {t \in S : task[t].period + 1 = p}
<1>3. M \in SUBSET Nat /\ M # {}
  BY <1>2, ThreadIds
<1>4. PICK t \in M : \A u \in M : t <= u
  BY <1>3, LeastNat
<1>5. ASSUME NEW u \in S \ {t}
      PROVE  Shorter(t, u)
  <2>1. task[u].period \in Int /\ task[t].period \in Int
    BY DEF TaskTypes
  <2>2. task[t].period + 1 = p /\ p <= task[u].period + 1
    BY <1>2
  <2>3. t \in Nat /\ u \in Nat
    BY ThreadIds
  <2>4. CASE task[u].period + 1 = p
    <3>1. t <= u
      BY <1>4, <2>4
    <3> QED
      BY <2>1, <2>2, <2>3, <2>4, <3>1 DEF Shorter
  <2>5. CASE task[u].period + 1 # p
    BY <2>1, <2>2, <2>5 DEF Shorter
  <2> QED
    BY <2>4, <2>5
<1> QED
  BY <1>4, <1>5

LEMMA NextReleases ==
  ASSUME NEW s, NEW c, Ready(s, c), NoneDue(s)
  PROVE  /\ \A x : x \in ToNextRelease(s) => x \in Nat /\ x > 0
         /\ \A t \in ToSet(s.release) : s.job[t].arrival - s.time \in ToNextRelease(s)
         /\ \A t \in ToSet(s.release) : s.job[t].arrival \in Int
<1>1. ASSUME NEW t \in ToSet(s.release)
      PROVE  /\ s.job[t].arrival - s.time \in Nat /\ s.job[t].arrival - s.time > 0
             /\ s.job[t].arrival \in Int
  <2>1. t \in Thrd
    BY Members DEF Ready, LibTypes
  <2>2. s.job[t].arrival \in Int /\ s.time \in Nat
    BY <2>1 DEF Ready, LibTypes, Job
  <2>3. s.job[t].arrival > s.time
    BY DEF NoneDue
  <2> QED
    BY <2>2, <2>3
<1> QED
  BY <1>1 DEF ToNextRelease

LEMMA DmScheduled ==
  ASSUME TaskTypes, NEW s, NEW c, Ready(s, c), NoneDue(s), sched = "DM"
  PROVE  Scheduled(s, schedule_dm(s))
<1>1. Queued(s) = ToSet(s.run) /\ Queued(s) \in SUBSET Nat /\ Queued(s) \subseteq Thrd /\ LibTypes(s)
  <2>1. LibTypes(s) /\ s.run \in Seq(Thrd)
    BY DEF Ready, LibTypes
  <2>2. Queued(s) = ToSet(s.run) /\ Queued(s) \in SUBSET Nat
    BY QueuedIds
  <2>3. ToSet(s.run) \subseteq Thrd
    BY <2>1, Members
  <2> QED
    BY <2>1, <2>2, <2>3
<1>2. CASE Missed(s) # {}
  <2>1. Missed(s) \in SUBSET Nat /\ Missed(s) \subseteq ToSet(s.run)
    BY <1>1 DEF Missed
  <2>2. PICK t : t = Least(Missed(s))
    OBVIOUS
  <2>3. t \in ToSet(s.run)
    BY <1>2, <2>1, <2>2, LeastIn
  <2>4. PICK d : d = Picks(s, t, 0)
    OBVIOUS
  <2>5. d.current = t /\ d.allocated = 0
    BY <1>1, <2>4, PicksIs
  <2>6. Chooses(s, d)
    BY <2>3, <2>5, QueuedJob DEF Chooses
  <2>7. SameJobs(s, d)
    BY <2>4, PicksSame
  <2>8. schedule_dm(s) = d
    BY <1>2, <2>2, <2>4 DEF schedule_dm
  <2> QED
    BY <2>6, <2>7, <2>8 DEF Scheduled
<1>3. CASE Missed(s) = {} /\ s.run = <<>>
  <2> DEFINE N == ToNextRelease(s) \cup (IF s.release = <<>> THEN {0} ELSE {})
  <2>1. PICK a : a = Least(N)
    OBVIOUS
  <2>2. PICK d : d = Picks(s, NoThread, a)
    OBVIOUS
  <2>3. d.current = NoThread /\ d.allocated = a /\ d.run = s.run
    BY <1>1, <2>2, PicksIs
  <2>4. SameJobs(s, d)
    BY <2>2, PicksSame
  <2>5. s.release \in Seq(Thrd) /\ (s.release # <<>> => ToSet(s.release) # {}) /\ s.time \in Nat
    BY <1>1, Members DEF LibTypes
  <2>6. /\ \A x : x \in ToNextRelease(s) => x \in Nat /\ x > 0
        /\ \A t \in ToSet(s.release) : s.job[t].arrival - s.time \in ToNextRelease(s)
        /\ \A t \in ToSet(s.release) : s.job[t].arrival \in Int
    BY NextReleases
  <2>7. N \in SUBSET Nat /\ N # {}
    BY <2>5, <2>6
  <2>8. a \in N /\ \A y \in N : a <= y
    BY <2>1, <2>7, LeastIn
  <2>9. s.release # <<>> => a > 0
    BY <2>6, <2>8
  <2>10. a \in Nat
    BY <2>7, <2>8
  <2>10a. \A t \in ToSet(s.release) : s.job[t].arrival >= s.time + a
    <3>1. \A t \in ToSet(s.release) : a <= s.job[t].arrival - s.time
      BY <2>6, <2>8
    <3> QED
      BY <2>5, <2>6, <2>10, <3>1
  <2>10b. ToSet(s.run) = {}
    BY <1>1, <1>3, Members DEF LibTypes
  <2>11. Idles(s, d)
    BY <2>3, <2>9, <2>10, <2>10a, <2>10b DEF Idles
  <2>12. ~Chooses(s, d)
    BY <2>10b DEF Chooses
  <2>13. schedule_dm(s) = d
    BY <1>3, <2>1, <2>2 DEF schedule_dm
  <2> QED
    BY <2>4, <2>11, <2>12, <2>13 DEF Scheduled
<1>3a. CASE Missed(s) = {} /\ s.run # <<>> /\ RealTime(s) = {}
  <2>1. PICK d : d = Picks(s, NoThread, 0)
    OBVIOUS
  <2>2. d.current = NoThread /\ d.allocated = 0 /\ d.run = s.run
    BY <1>1, <2>1, PicksIs
  <2>3. SameJobs(s, d)
    BY <2>1, PicksSame
  <2>4. \A t \in ToSet(s.run) : ~Eligible(t)
    BY <1>3a, OthersEligible DEF Eligible
  <2>5. \A t \in ToSet(s.release) : s.job[t].arrival >= s.time + 0
    <3>1. \A t \in ToSet(s.release) : s.job[t].arrival > s.time /\ s.job[t].arrival \in Int
      BY NextReleases DEF NoneDue
    <3>2. s.time \in Nat
      BY <1>1 DEF LibTypes
    <3> QED
      BY <3>1, <3>2
  <2>6. Idles(s, d)
    BY <1>3a, <2>2, <2>4, <2>5 DEF Idles
  <2>7. ~Chooses(s, d)
    BY <1>1, <2>2, ThreadIds DEF Chooses
  <2>8. schedule_dm(s) = d
    BY <1>3a, <2>1 DEF schedule_dm
  <2> QED
    BY <2>3, <2>6, <2>7, <2>8 DEF Scheduled
<1>4. CASE Missed(s) = {} /\ s.run # <<>> /\ RealTime(s) # {}
  <2>1. PICK t : t = CHOOSE x \in RealTime(s) : \A u \in RealTime(s) \ {x} : Shorter(x, u)
    OBVIOUS
  <2>2. RealTime(s) \subseteq Queued(s)
    BY DEF RealTime
  <2>3. \E x \in RealTime(s) : \A u \in RealTime(s) \ {x} : Shorter(x, u)
    BY <1>1, <1>4, <2>2, ShortestQueued
  <2>4. t \in Queued(s)
    <3>1. t \in RealTime(s)
      BY <2>1, <2>3, Zenon
    <3> QED
      BY <2>2, <3>1
  <2>5. PICK a : a = SafeTicks(s, t)
    OBVIOUS
  <2>6. PICK d : d = Picks(s, t, a)
    OBVIOUS
  <2>7. d.current = t /\ d.allocated = a
    BY <1>1, <2>6, PicksIs
  <2>8. SameJobs(s, d)
    BY <2>6, PicksSame
  <2>9. t \in Thrd /\ s.job[t] \in Job /\ s.job[t].remaining \in Nat /\ s.time \in Nat
    BY <1>1, <2>4, QueuedJob
  <2>10. s.job[t].deadline \in Int /\ s.job[t].deadline > s.time
    <3>1. s.job[t].deadline \in Int
      BY <2>9 DEF Job
    <3>2. ~(s.job[t].deadline <= s.time)
      BY <1>4, <2>4 DEF Missed
    <3> QED
      BY <2>9, <3>1, <3>2
  <2> DEFINE N == {s.job[t].remaining, s.job[t].deadline - s.time} \cup ToNextRelease(s)
  <2>11. N \in SUBSET Nat /\ N # {} /\ s.job[t].remaining \in N
    BY <2>9, <2>10, NextReleases
  <2>12. a = Least(N)
    BY <2>5 DEF SafeTicks
  <2>13. a \in Nat /\ a <= s.job[t].remaining
    BY <2>11, <2>12, LeastIn
  <2>14. Chooses(s, d)
    BY <1>1, <2>4, <2>7, <2>13 DEF Chooses
  <2>15. schedule_dm(s) = d
    BY <1>4, <2>1, <2>5, <2>6 DEF schedule_dm
  <2> QED
    BY <2>8, <2>14, <2>15 DEF Scheduled
<1> QED
  BY <1>2, <1>3, <1>3a, <1>4

-----------------------------------------------------------------------------
(* Response ratios *)

LEMMA TimesMono ==
  ASSUME NEW x \in Nat, NEW y \in Nat, NEW z \in Nat, z > 0
  PROVE  /\ x >= y => x * z >= y * z
         /\ x > y => x * z > y * z
<1>1. ASSUME NEW d \in Nat
      PROVE  d * z \in Nat /\ (y + d) * z = y * z + d * z
  OBVIOUS
<1>2. ASSUME NEW d \in Nat, d > 0
      PROVE  d * z > 0
  BY <1>2
<1>3. x * z \in Nat /\ y * z \in Nat
  OBVIOUS
<1>4. CASE x = y
  BY <1>3, <1>4
<1>5. CASE x > y
  <2>1. PICK d \in Nat : d = x - y
    BY <1>5
  <2>2. d > 0 /\ x = y + d
    BY <1>5, <2>1
  <2>3. x * z = y * z + d * z /\ d * z \in Nat
    BY <1>1, <2>2
  <2>4. d * z > 0
    BY <1>2, <2>2
  <2>5. x * z > y * z
    BY <1>3, <2>3, <2>4
  <2> QED
    BY <1>3, <2>5
<1> QED
  BY <1>4, <1>5

\* The order of fractions is transitive.
LEMMA RatioTrans ==
  ASSUME NEW a \in Nat, NEW b \in Nat, NEW c \in Nat, NEW d \in Nat, NEW e \in Nat, NEW f \in Nat,
         b > 0, d > 0, f > 0, a * d >= c * b, c * f >= e * d
  PROVE  /\ a * f >= e * b
         /\ a * d > c * b \/ c * f > e * d => a * f > e * b
<1>1. PICK ad \in Nat, cb \in Nat, cf \in Nat, ed \in Nat, af \in Nat, eb \in Nat :
        ad = a * d /\ cb = c * b /\ cf = c * f /\ ed = e * d /\ af = a * f /\ eb = e * b
  OBVIOUS
<1>2. af * d = ad * f /\ cb * f = cf * b /\ ed * b = eb * d
  BY <1>1
<1>3. ad >= cb /\ cf >= ed
  BY <1>1
<1>4. ad * f >= cb * f /\ cf * b >= ed * b
  BY <1>3, TimesMono
<1>5. /\ af * d \in Nat /\ eb * d \in Nat /\ ad * f \in Nat /\ cb * f \in Nat
      /\ cf * b \in Nat /\ ed * b \in Nat
  OBVIOUS
<1>6. af * d >= eb * d
  BY <1>2, <1>4, <1>5
<1>7. af >= eb
  <2>1. eb > af => eb * d > af * d
    BY TimesMono
  <2> QED
    BY <1>5, <1>6, <2>1
<1>8. ASSUME ad > cb \/ cf > ed
      PROVE  af > eb
  <2>1. ad > cb => ad * f > cb * f
    BY TimesMono
  <2>2. cf > ed => cf * b > ed * b
    BY TimesMono
  <2>3. af * d > eb * d
    BY <1>2, <1>4, <1>5, <1>8, <2>1, <2>2
  <2>4. eb >= af => eb * d >= af * d
    BY TimesMono
  <2> QED
    BY <1>5, <2>3, <2>4
<1> QED
  BY <1>1, <1>7, <1>8

\* Numerator and denominator of x's response ratio.
Waited(s, x) == (s.time - s.job[x].arrival) + task[x].processing_time
Burst(x) == task[x].processing_time

LEMMA BeatsIs ==
  ASSUME NEW s, NEW t, NEW u
  PROVE  Beats(s, t, u) <=>
           \/ Waited(s, t) * Burst(u) > Waited(s, u) * Burst(t)
           \/ Waited(s, t) * Burst(u) = Waited(s, u) * Burst(t) /\ t < u
  BY DEF Beats, Waited, Burst

LEMMA RatioTypes ==
  ASSUME TaskTypes, NEW s, NEW c, Ready(s, c), NEW t \in ToSet(s.run)
  PROVE  Waited(s, t) \in Nat /\ Burst(t) \in Nat /\ Burst(t) > 0 /\ t \in Nat
<1>1. t \in Thrd /\ s.job[t].arrival \in Int /\ s.time \in Nat /\ s.job[t].arrival <= s.time
  BY QueuedJob
<1>2. task[t].processing_time \in Nat /\ task[t].processing_time > 0
  BY <1>1 DEF TaskTypes
<1>3. s.time - s.job[t].arrival \in Nat
  BY <1>1
<1> QED
  BY <1>1, <1>2, <1>3, ThreadIds DEF Waited, Burst

LEMMA BeatsOrder ==
  ASSUME TaskTypes, NEW s, NEW c, Ready(s, c),
         NEW t \in ToSet(s.run), NEW u \in ToSet(s.run), NEW v \in ToSet(s.run)
  PROVE  /\ t # u => Beats(s, t, u) \/ Beats(s, u, t)
         /\ Beats(s, t, u) /\ Beats(s, u, v) => Beats(s, t, v)
<1>1. PICK a, b, e, d, g, f :
        a = Waited(s, t) /\ b = Burst(t) /\ e = Waited(s, u) /\ d = Burst(u)
        /\ g = Waited(s, v) /\ f = Burst(v)
  OBVIOUS
<1>2. /\ a \in Nat /\ b \in Nat /\ b > 0 /\ e \in Nat /\ d \in Nat /\ d > 0
      /\ g \in Nat /\ f \in Nat /\ f > 0 /\ t \in Nat /\ u \in Nat /\ v \in Nat
  BY <1>1, RatioTypes
<1>3. /\ a * d \in Nat /\ e * b \in Nat /\ e * f \in Nat /\ g * d \in Nat /\ a * f \in Nat /\ g * b \in Nat
  BY <1>2
<1>4. /\ Beats(s, t, u) <=> (a * d > e * b \/ (a * d = e * b /\ t < u))
      /\ Beats(s, u, t) <=> (e * b > a * d \/ (e * b = a * d /\ u < t))
      /\ Beats(s, u, v) <=> (e * f > g * d \/ (e * f = g * d /\ u < v))
      /\ Beats(s, t, v) <=> (a * f > g * b \/ (a * f = g * b /\ t < v))
  BY <1>1, BeatsIs
<1>5. t # u => Beats(s, t, u) \/ Beats(s, u, t)
  BY <1>2, <1>3, <1>4
<1>6. ASSUME Beats(s, t, u), Beats(s, u, v)
      PROVE  Beats(s, t, v)
  <2>1. a * d >= e * b /\ e * f >= g * d
    BY <1>3, <1>4, <1>6
  <2>2. /\ a * f >= g * b
        /\ a * d > e * b \/ e * f > g * d => a * f > g * b
    BY <1>2, <2>1, RatioTrans
  <2>3. CASE a * d > e * b \/ e * f > g * d
    BY <1>4, <2>2, <2>3
  <2>4. CASE ~(a * d > e * b \/ e * f > g * d)
    <3>1. t < u /\ u < v
      BY <1>4, <1>6, <2>4
    <3>2. t < v
      BY <1>2, <3>1
    <3>3. a * f > g * b \/ a * f = g * b
      BY <1>3, <2>2
    <3> QED
      BY <1>4, <3>2, <3>3
  <2> QED
    BY <2>3, <2>4
<1> QED
  BY <1>5, <1>6

\* Somebody's ratio is the greatest.
LEMMA BestQueued ==
  ASSUME TaskTypes, NEW s, NEW c, Ready(s, c),
         NEW q \in Seq(Thrd), ToSet(q) \subseteq ToSet(s.run), q # <<>>
  PROVE  \E t \in ToSet(q) : \A u \in ToSet(q) \ {t} : Beats(s, t, u)
<1> DEFINE L == Len(q)
           Lead(n, m) == \A k \in 1..n : q[k] # q[m] => Beats(s, q[m], q[k])
           Bad == {n \in 1..L : \A m \in 1..n : ~Lead(n, m)}
<1>1. q \in Seq(Thrd) /\ L \in Nat /\ L # 0
  OBVIOUS
<1>2. \A t : t \in ToSet(q) <=> \E i \in 1..L : q[i] = t
  BY <1>1, Members
<1> HIDE DEF L
<1>3. ASSUME Bad # {}
      PROVE  FALSE
  <2>1. Bad \in SUBSET Nat
    BY <1>1
  <2>2. PICK n \in Bad : \A y \in Bad : n <= y
    BY <1>3, <2>1, LeastNat
  <2>3. n \in 1..L /\ \A m \in 1..n : ~Lead(n, m)
    OBVIOUS
  <2>a. \A y \in 1..L : y \notin Bad => \E m \in 1..y : Lead(y, m)
    OBVIOUS
  <2> HIDE DEF Bad
  <2>b. 1..n = (1..n - 1) \cup {n} /\ 1..n \subseteq 1..L /\ n \in Nat
    <3>1. n \in 1..L
      BY <2>3
    <3> HIDE DEF Lead
    <3> QED
      BY <1>1, <3>1
  <2>4. n # 1
    <3>1. Lead(1, 1)
      OBVIOUS
    <3> QED
      BY <2>3, <3>1
  <2>5. n - 1 \in 1..L /\ n - 1 \notin Bad
    <3>1. n - 1 \in 1..L /\ ~(n <= n - 1)
      BY <1>1, <2>3, <2>4
    <3> QED
      BY <2>2, <3>1
  <2>6. PICK m \in 1..n - 1 : Lead(n - 1, m)
    BY <2>5, <2>a
  <2>7. m \in 1..L /\ m \in 1..n /\ n \in 1..n
    BY <2>b
  <2>8. q[m] \in ToSet(q) /\ q[n] \in ToSet(q)
    BY <1>2, <2>3, <2>7
  <2>9. CASE q[n] = q[m] \/ Beats(s, q[m], q[n])
    <3>1. Lead(n, m)
      BY <2>6, <2>b, <2>9
    <3> QED
      BY <2>3, <2>7, <3>1
  <2>10. CASE q[n] # q[m] /\ ~Beats(s, q[m], q[n])
    <3>1. Beats(s, q[n], q[m])
      BY <2>8, <2>10, BeatsOrder
    <3>2. ASSUME NEW k \in 1..n, q[k] # q[n]
          PROVE  Beats(s, q[n], q[k])
      <4>1. k \in 1..n - 1 /\ k \in 1..L
        BY <2>b, <3>2
      <4>2. q[k] \in ToSet(q)
        BY <1>2, <4>1
      <4>3. CASE q[k] = q[m]
        BY <3>1, <4>3
      <4>4. CASE q[k] # q[m]
        <5>1. Beats(s, q[m], q[k])
          BY <2>6, <4>1, <4>4
        <5>2. PICK x \in ToSet(s.run), y \in ToSet(s.run), z \in ToSet(s.run) :
                x = q[n] /\ y = q[m] /\ z = q[k]
          BY <2>8, <4>2
        <5>3. Beats(s, x, y) /\ Beats(s, y, z) => Beats(s, x, z)
          BY BeatsOrder
        <5> QED
          BY <3>1, <5>1, <5>2, <5>3
      <4> QED
        BY <4>3, <4>4
    <3>3. Lead(n, n)
      BY <3>2
    <3> QED
      BY <2>3, <2>7, <3>3
  <2> QED
    BY <2>9, <2>10
<1>4. PICK m \in 1..L : Lead(L, m)
  <2>1. L \in 1..L
    BY <1>1
  <2> QED
    BY <1>3, <2>1
<1>5. q[m] \in ToSet(q)
  BY <1>2
<1>6. ASSUME NEW u \in ToSet(q) \ {q[m]}
      PROVE  Beats(s, q[m], u)
  <2>1. PICK k \in 1..L : q[k] = u
    BY <1>2
  <2> QED
    BY <1>4, <2>1
<1> QED
  BY <1>5, <1>6

LEMMA HrrnScheduled ==
  ASSUME TaskTypes, NEW s, NEW c, Ready(s, c), NoneDue(s), sched = "HRRN"
  PROVE  Scheduled(s, schedule_hrrn(s))
<1>0. /\ Ordinary(s) = {t \in ToSet(s.run) : ~task[t].is_real_time}
      /\ ToSet(s.run) \subseteq Thrd
  BY OthersEligible
<1>1. CASE Ordinary(s) = {}
  <2>1. \A t \in ToSet(s.run) : ~Eligible(t)
    BY <1>0, <1>1 DEF Eligible
  <2> QED
    BY <1>1, <2>1, NoneScheduled DEF schedule_hrrn
<1>2. CASE Ordinary(s) # {}
  <2>1. PICK t : t = CHOOSE x \in Ordinary(s) : \A u \in Ordinary(s) \ {x} : Beats(s, x, u)
    OBVIOUS
  <2>2. PICK q : q = Keep(s.run, Ordinary(s))
    OBVIOUS
  <2>2a. q \in Seq(Thrd) /\ ToSet(q) = Ordinary(s)
    <3>1. s.run \in Seq(Thrd) /\ IsInjective(s.run)
      BY DEF Ready, LibTypes, OneQueue
    <3>2. q \in Seq(Thrd) /\ ToSet(q) = ToSet(s.run) \cap Ordinary(s)
      BY <2>2, <3>1, KeepFacts
    <3> QED
      BY <1>0, <3>2
  <2>2b. q # <<>>
    BY <1>2, <2>2a, Members
  <2>3. \E x \in Ordinary(s) : \A u \in Ordinary(s) \ {x} : Beats(s, x, u)
    BY <1>0, <2>2a, <2>2b, BestQueued
  <2>4. t \in Ordinary(s) /\ \A u \in Ordinary(s) \ {t} : Beats(s, t, u)
    BY <2>1, <2>3, Zenon
  <2>5. PICK d : d = Picks(s, t, s.job[t].remaining)
    OBVIOUS
  <2>6. d.current = t /\ d.allocated = s.job[t].remaining
    BY <2>5, PicksIs DEF Ready
  <2>7. Chooses(s, d)
    BY <1>0, <2>4, <2>6, QueuedJob DEF Chooses
  <2>8. SameJobs(s, d)
    BY <2>5, PicksSame
  <2>9. Best(s, d)
    BY <1>0, <2>4, <2>6 DEF Best, Eligible
  <2>10. schedule_hrrn(s) = d
    BY <1>2, <2>1, <2>5 DEF schedule_hrrn
  <2> QED
    BY <2>7, <2>8, <2>9, <2>10 DEF Scheduled
<1> QED
  BY <1>1, <1>2

\* Whichever policy the build has.
LEMMA ScheduleIs ==
  ASSUME TaskTypes, sched \in Scheduler, NEW s, Ready(s, NoThread), NoneDue(s)
  PROVE  Scheduled(s, __schedule(s))
<1>1. CASE sched = "DEFAULT"
  BY <1>1, DefaultScheduled DEF __schedule
<1>2. CASE sched = "HRRN"
  BY <1>2, HrrnScheduled DEF __schedule
<1>3. CASE sched = "PRIORITY_RR"
  BY <1>3, PriorityScheduled DEF __schedule
<1>4. CASE sched = "DM"
  BY <1>4, DmScheduled DEF __schedule
<1> QED
  BY <1>1, <1>2, <1>3, <1>4, RtAssumption

-----------------------------------------------------------------------------
(* The invariant: what holds from one step to the next *)

\* Who runs to the end of his cycle need not be behind the others.
ToEnd(s) == IF s.allocated = s.job[s.current].remaining THEN s.current ELSE NoThread

Between(s) ==
  /\ LibTypes(s) /\ OneQueue(s) /\ Whole(s)
  /\ s.current \in Thrd \cup {NoThread} /\ s.allocated \in Nat
  /\ s.at \in {"start", "running", "asleep", "missed", "done"}
  /\ s.at = "start" => Ready(s, NoThread)
  /\ s.at = "running" =>
       /\ Ready(s, ToEnd(s))
       /\ s.current \in ToSet(s.run) /\ s.since[s.current] = {}
       /\ s.allocated <= s.job[s.current].remaining
  /\ s.at = "asleep" =>
       /\ Ready(s, NoThread)
       /\ \A t \in ToSet(s.run) : ~Eligible(t)
       /\ s.run = <<>> => s.allocated > 0
       /\ \A t \in ToSet(s.release) : s.job[t].arrival >= s.time + s.allocated
  /\ s.at = "done" => s.run = <<>> /\ s.release = <<>>

\* The order of the schedulers, for the history before the dispatch.
ByRule(since, r) ==
  r.at = "running" =>
    /\ sched = "PRIORITY_RR" =>
         \A t \in ToSet(r.run) \ {r.current} :
           Eligible(t) /\ task[t].priority = task[r.current].priority =>
             r.current \notin since[t]
    /\ sched = "HRRN" => Best(r, r)

RtInductive ==
  /\ sched \in Scheduler /\ task \in [Thrd -> Tasks(sched)]
  /\ Between(lib)

\* The two lists still have each thread once.
LEMMA SameQueues ==
  ASSUME NEW s, NEW c, Ready(s, c), NEW d, SameJobs(s, d)
  PROVE  OneQueue(d) /\ (Whole(s) => Whole(d))
  BY DEF Ready, OneQueue, Whole, SameJobs

\* Nobody to run: the main thread sleeps or returns.
LEMMA IdleDispatched ==
  ASSUME NEW s, Ready(s, NoThread), Whole(s), NoneDue(s), NEW d, SameJobs(s, d), Idles(s, d)
  PROVE  Between(__dispatch(d)) /\ ByRule(s.since, __dispatch(d))
<1>1. PICK a : a = IF d.run = <<>> /\ d.release = <<>> THEN "done" ELSE "asleep"
  OBVIOUS
<1>2. PICK r : r = [d EXCEPT !.at = a]
  OBVIOUS
<1>3. /\ d.current = NoThread /\ d.run = s.run /\ d.allocated \in Nat /\ LibTypes(d)
      /\ OneQueue(d) /\ Whole(d)
  BY SameQueues DEF Idles, SameJobs
<1>4. /\ LibTypes(r) /\ r.time = d.time /\ r.run = d.run /\ r.release = d.release /\ r.job = d.job
      /\ r.since = d.since /\ r.current = d.current /\ r.allocated = d.allocated /\ r.at = a
      /\ r.freed = d.freed
  BY <1>2, <1>3 DEF LibTypes, LibFields
<1>5. __dispatch(d) = r
  BY <1>1, <1>2, <1>3 DEF __dispatch
<1>6. OneQueue(r) /\ Whole(r)
  BY <1>3, <1>4 DEF OneQueue, Whole
<1>7. CASE d.run = <<>> /\ d.release = <<>>
  <2>1. a = "done"
    BY <1>1, <1>7
  <2> QED
    BY <1>3, <1>4, <1>5, <1>6, <1>7, <2>1 DEF Between, ByRule
<1>8. CASE ~(d.run = <<>> /\ d.release = <<>>)
  <2>1. a = "asleep"
    BY <1>1, <1>8
  <2>2. r.release = s.release /\ r.job = s.job /\ r.time = s.time /\ r.since = s.since /\ r.run = s.run
    BY <1>3, <1>4 DEF SameJobs
  <2>3. Jobs(r) /\ Turns(r, NoThread) /\ \A t \in Thrd \ ToSet(r.run) : r.since[t] = {}
    BY <2>2 DEF Ready, Jobs, Turns
  <2>4. Ready(r, NoThread)
    BY <1>4, <1>6, <2>3 DEF Ready
  <2>5. /\ \A t \in ToSet(r.run) : ~Eligible(t)
        /\ r.run = <<>> => r.allocated > 0
        /\ \A t \in ToSet(r.release) : r.job[t].arrival >= r.time + r.allocated
    BY <1>3, <1>4, <1>8, <2>2 DEF Idles
  <2> QED
    BY <1>3, <1>4, <1>5, <1>6, <2>1, <2>4, <2>5 DEF Between, ByRule
<1> QED
  BY <1>7, <1>8

\* A deadline is missed: the program stops.
LEMMA Stops ==
  ASSUME NEW s, LibTypes(s), OneQueue(s), Whole(s), s.current \in Thrd \cup {NoThread}, s.allocated \in Nat, NEW since
  PROVE  Between(Misses(s)) /\ ByRule(since, Misses(s))
<1>1. PICK r : r = Misses(s)
  OBVIOUS
<1>2. /\ LibTypes(r) /\ r.run = s.run /\ r.release = s.release
      /\ r.current = s.current /\ r.allocated = s.allocated /\ r.at = "missed"
      /\ r.freed = s.freed
  BY <1>1 DEF Misses, LibTypes, LibFields
<1>3. OneQueue(r) /\ Whole(r)
  BY <1>2 DEF OneQueue, Whole
<1> QED
  BY <1>1, <1>2, <1>3 DEF Between, ByRule

LEMMA RunDispatched ==
  ASSUME TaskTypes, NEW s, Ready(s, NoThread), Whole(s), NEW d, Scheduled(s, d),
         Chooses(s, d), ~(task[d.current].is_real_time /\ d.allocated = 0)
  PROVE  Between(__dispatch(d)) /\ ByRule(s.since, __dispatch(d))
<1>1. PICK v : v = [t \in Thrd |-> IF t = d.current \/ ~Contains(d.run, t) THEN {}
                                  ELSE d.since[t] \union {d.current}]
  OBVIOUS
<1>2. PICK r : r = [d EXCEPT !.at = "running", !.since = v]
  OBVIOUS
<1>3. SameJobs(s, d) /\ LibTypes(d) /\ OneQueue(d) /\ Whole(d) /\ LibTypes(s)
  BY SameQueues DEF Scheduled, SameJobs, Ready
<1>4. /\ d.time = s.time /\ d.release = s.release /\ d.job = s.job /\ d.since = s.since
      /\ ToSet(d.run) = ToSet(s.run) /\ d.run \in Seq(Thrd)
  BY <1>3 DEF SameJobs, LibTypes
<1>5. /\ d.current \in ToSet(s.run) /\ d.current \in Thrd /\ d.current # NoThread
      /\ d.allocated \in Nat /\ d.allocated <= s.job[d.current].remaining
  BY <1>4, Members, ThreadIds DEF Chooses
<1>6. \A t \in Thrd : v[t] = IF t = d.current \/ t \notin ToSet(d.run) THEN {}
                             ELSE d.since[t] \cup {d.current}
  BY <1>1, <1>4, Members
<1>7. v \in [Thrd -> SUBSET Thrd]
  <2>1. \A t \in Thrd : d.since[t] \subseteq Thrd
    BY <1>3 DEF LibTypes
  <2> QED
    BY <1>1, <1>5, <2>1
<1>8. /\ LibTypes(r) /\ r.time = d.time /\ r.run = d.run /\ r.release = d.release /\ r.job = d.job
      /\ r.since = v /\ r.current = d.current /\ r.allocated = d.allocated /\ r.at = "running"
      /\ r.freed = d.freed
  BY <1>2, <1>3, <1>7 DEF LibTypes, LibFields
<1>9. __dispatch(d) = r
  BY <1>1, <1>2, <1>5 DEF __dispatch
<1>10. OneQueue(r) /\ Whole(r)
  BY <1>3, <1>8 DEF OneQueue, Whole
<1>11. Jobs(r)
  <2>1. Jobs(s)
    BY DEF Ready
  <2> QED
    BY <1>4, <1>8, <2>1 DEF Jobs
<1>12. \A t \in Thrd \ ToSet(r.run) : r.since[t] = {}
  BY <1>6, <1>8
<1>13. ToSet(s.run) \subseteq Thrd
  BY <1>3, Members DEF LibTypes
<1>14. ASSUME sched = "PRIORITY_RR"
       PROVE  InTurn(s, d)
  BY <1>14 DEF Scheduled
<1>15. Turns(r, ToEnd(r))
  <2>1. SUFFICES ASSUME sched = "PRIORITY_RR", NEW t \in ToSet(r.run), NEW u \in ToSet(r.run),
                        t # u, Eligible(t), task[t].priority = task[u].priority, u \in r.since[t]
                 PROVE  u = ToEnd(r) \/ Before(r.run, t, u)
    BY DEF Turns
  <2>2. t \in ToSet(s.run) /\ u \in ToSet(s.run) /\ t \in Thrd
    BY <1>4, <1>8, <1>13
  <2>3. t # d.current /\ u \in s.since[t] \cup {d.current}
    BY <1>4, <1>6, <1>8, <2>1, <2>2
  <2>4. CASE u = d.current
    <3>1. CASE d.allocated = s.job[d.current].remaining
      BY <1>4, <1>8, <2>4, <3>1 DEF ToEnd
    <3>2. CASE d.allocated # s.job[d.current].remaining
      <4>1. Before(d.run, t, d.current)
        BY <1>14, <2>1, <2>2, <2>3, <3>2 DEF InTurn
      <4> QED
        BY <1>8, <2>4, <4>1
    <3> QED
      BY <3>1, <3>2
  <2>5. CASE u # d.current
    <3>1. u \in s.since[t]
      BY <2>3, <2>5
    <3>2. u # NoThread
      BY <1>13, <2>2, ThreadIds
    <3>3. Turns(s, NoThread)
      BY DEF Ready
    <3>4. Before(s.run, t, u)
      BY <2>1, <2>2, <3>1, <3>2, <3>3 DEF Turns
    <3>5. Before(d.run, t, u)
      BY <1>14, <2>1, <2>2, <2>3, <2>5, <3>4 DEF InTurn
    <3> QED
      BY <1>8, <3>5
  <2> QED
    BY <2>4, <2>5
<1>16. Ready(r, ToEnd(r))
  BY <1>8, <1>10, <1>11, <1>12, <1>15 DEF Ready
<1>17. r.current \in ToSet(r.run) /\ r.since[r.current] = {}
  BY <1>4, <1>5, <1>6, <1>8
<1>18. Between(r)
  BY <1>4, <1>5, <1>8, <1>10, <1>16, <1>17 DEF Between
<1>19. ByRule(s.since, r)
  <2>1. ASSUME sched = "PRIORITY_RR", NEW t \in ToSet(r.run) \ {r.current}, Eligible(t),
               task[t].priority = task[r.current].priority
        PROVE  r.current \notin s.since[t]
    BY <1>4, <1>8, <1>14, <2>1 DEF InTurn
  <2>2. ASSUME sched = "HRRN"
        PROVE  Best(r, r)
    <3>1. Best(s, d)
      BY <2>2 DEF Scheduled
    <3>2. \A t, u : Beats(s, t, u) <=> Beats(r, t, u)
      BY <1>4, <1>8 DEF Beats
    <3> QED
      BY <1>4, <1>8, <3>1, <3>2 DEF Best
  <2> QED
    BY <2>1, <2>2 DEF ByRule
<1> QED
  BY <1>9, <1>18, <1>19

\* From a state in which nothing is left to release to the end of the step.
LEMMA DispatchIs ==
  ASSUME TaskTypes, sched \in Scheduler, NEW s, Ready(s, NoThread), Whole(s), NoneDue(s)
  PROVE  /\ Between(__dispatch(__schedule(s)))
         /\ ByRule(s.since, __dispatch(__schedule(s)))
<1>1. PICK d : d = __schedule(s)
  OBVIOUS
<1>2. Scheduled(s, d)
  BY <1>1, ScheduleIs
<1>3. SameJobs(s, d) /\ (Idles(s, d) \/ Chooses(s, d))
  BY <1>2 DEF Scheduled
<1>4. CASE Idles(s, d)
  BY <1>1, <1>3, <1>4, IdleDispatched
<1>5. CASE Chooses(s, d) /\ ~(task[d.current].is_real_time /\ d.allocated = 0)
  BY <1>1, <1>2, <1>5, RunDispatched
<1>6. CASE Chooses(s, d) /\ task[d.current].is_real_time /\ d.allocated = 0
  <2>1. d.allocated = 0 /\ d.allocated \in Nat /\ task[d.current].is_real_time
    BY <1>6 DEF Chooses
  <2>2. d.current \in Thrd /\ d.current # NoThread
    BY <1>6, Members, ThreadIds DEF Chooses, Ready, LibTypes
  <2>3. __dispatch(d) = Misses(d)
    BY <2>1, <2>2 DEF __dispatch
  <2>4. LibTypes(d) /\ OneQueue(d) /\ Whole(d)
    BY <1>3, SameQueues DEF SameJobs
  <2> QED
    BY <1>1, <2>1, <2>2, <2>3, <2>4, Stops
<1> QED
  BY <1>3, <1>4, <1>5, <1>6

-----------------------------------------------------------------------------
(* The steps *)

\* The rest of a step behind __release().
LEMMA SwitchesOnIs ==
  ASSUME TaskTypes, sched \in Scheduler, NEW s, Ready(s, NoThread), Whole(s)
  PROVE  Between(SwitchesOn(s)) /\ ByRule(s.since, SwitchesOn(s))
<1>1. PICK r : r = __release(s)
  OBVIOUS
<1>2. Ready(r, NoThread) /\ Whole(r) /\ NoneDue(r)
  BY <1>1, ReleaseReady
<1>3. r.since = s.since
  BY <1>1, ReleaseIs DEF Ready
<1>4. Between(__dispatch(__schedule(r))) /\ ByRule(r.since, __dispatch(__schedule(r)))
  BY <1>2, DispatchIs
<1> QED
  BY <1>1, <1>3, <1>4 DEF SwitchesOn

\* Time passes.
LEMMA Elapses ==
  ASSUME NEW s, NEW c, Ready(s, c), NEW k \in Nat, NEW r, r = [s EXCEPT !.time = @ + k]
  PROVE  /\ Ready(r, c)
         /\ r.time = s.time + k /\ r.run = s.run /\ r.job = s.job /\ r.since = s.since
         /\ r.current = s.current /\ r.allocated = s.allocated
         /\ Whole(s) => Whole(r)
<1>1. LibTypes(s) /\ s.time \in Nat
  BY DEF Ready, LibTypes
<1>2. PICK x \in Nat : x = s.time + k
  BY <1>1
<1>3. r = [s EXCEPT !.time = x]
  BY <1>2
<1>4. /\ LibTypes(r) /\ r.time = x /\ r.run = s.run /\ r.release = s.release /\ r.job = s.job
      /\ r.since = s.since /\ r.current = s.current /\ r.allocated = s.allocated
      /\ r.freed = s.freed
  BY <1>1, <1>3 DEF LibTypes, LibFields
<1>5. Jobs(r)
  <2>1. Jobs(s)
    BY DEF Ready
  <2>2. ASSUME NEW t \in ToSet(s.run)
        PROVE  s.job[t].arrival <= x
    <3>1. s.job[t].arrival \in Int /\ s.job[t].arrival <= s.time
      BY QueuedJob
    <3> QED
      BY <1>1, <1>2, <3>1
  <2> QED
    BY <1>4, <2>1, <2>2 DEF Jobs
<1>6. OneQueue(r) /\ Turns(r, c)
  BY <1>4 DEF Ready, OneQueue, Turns
<1>7. Whole(s) => Whole(r)
  BY <1>4 DEF Whole
<1> QED
  BY <1>2, <1>4, <1>5, <1>6, <1>7 DEF Ready

\* The thread that ran is taken out of the run queue.
LEMMA Removed ==
  ASSUME NEW s, NEW e, Ready(s, e), NEW c \in ToSet(s.run), e \in {c, NoThread},
         NEW r, LibTypes(r), r.run = Without(s.run, c), r.release = s.release,
         r.time = s.time, r.since = s.since, s.since[c] = {},
         \A u \in Thrd \ {c} : r.job[u] = s.job[u]
  PROVE  /\ Ready(r, NoThread) /\ c \notin ToSet(r.run) /\ c \notin ToSet(r.release)
         /\ ToSet(r.run) = ToSet(s.run) \ {c}
<1>1. LibTypes(s) /\ OneQueue(s) /\ Jobs(s) /\ Turns(s, e)
  BY DEF Ready
<1>2. s.run \in Seq(Thrd) /\ s.release \in Seq(Thrd) /\ IsInjective(s.run)
  BY <1>1 DEF LibTypes, OneQueue
<1>3. ToSet(s.run) \subseteq Thrd /\ ToSet(s.release) \subseteq Thrd
  BY <1>2, Members
<1>4. /\ ToSet(r.run) = ToSet(s.run) \ {c} /\ IsInjective(r.run)
      /\ \A x, y : x # c /\ y # c /\ Before(s.run, x, y) => Before(r.run, x, y)
  BY <1>2, WithoutFacts
<1>5. OneQueue(r) /\ c \notin ToSet(r.release)
  BY <1>1, <1>4 DEF OneQueue
<1>6. Jobs(r)
  <2>1. \A u \in ToSet(r.run) \cup ToSet(r.release) : u \in Thrd \ {c}
    BY <1>3, <1>4, <1>5
  <2>2. \A u \in ToSet(r.run) \cup ToSet(r.release) : r.job[u] = s.job[u]
    BY <2>1
  <2> QED
    BY <1>1, <1>4, <2>2 DEF Jobs
<1>7. \A t \in Thrd \ ToSet(r.run) : r.since[t] = {}
  BY <1>4 DEF Ready
<1>8. Turns(r, NoThread)
  <2>1. SUFFICES ASSUME sched = "PRIORITY_RR", NEW t \in ToSet(r.run), NEW u \in ToSet(r.run),
                        t # u, Eligible(t), task[t].priority = task[u].priority, u \in r.since[t]
                 PROVE  Before(r.run, t, u)
    BY DEF Turns
  <2>2. t \in ToSet(s.run) /\ u \in ToSet(s.run) /\ t # c /\ u # c
    BY <1>4
  <2>3. u # e
    BY <1>3, <2>2, ThreadIds
  <2>4. Before(s.run, t, u)
    BY <1>1, <2>1, <2>2, <2>3 DEF Turns
  <2> QED
    BY <1>4, <2>2, <2>4
<1> QED
  BY <1>4, <1>5, <1>6, <1>7, <1>8 DEF Ready

\* It waits for its next cycle.
LEMMA AddedAt ==
  ASSUME TaskTypes, NEW s, Ready(s, NoThread), NEW c \in Thrd, c \notin ToSet(s.run),
         c \notin ToSet(s.release), s.job[c].n > 0
  PROVE  /\ Ready(thread_add_at(s, c), NoThread) /\ thread_add_at(s, c).since = s.since
         /\ thread_add_at(s, c).freed = s.freed /\ thread_add_at(s, c).run = s.run
         /\ ToSet(thread_add_at(s, c).release) = ToSet(s.release) \cup {c}
<1>1. LibTypes(s) /\ OneQueue(s) /\ Jobs(s) /\ s.release \in Seq(Thrd) /\ s.job[c] \in Job
  BY DEF Ready, LibTypes
<1>2. PICK due : due = s.job[c].deadline
  OBVIOUS
<1>3. PICK dl : dl = IF task[c].is_real_time THEN due + task[c].period ELSE due
  OBVIOUS
<1>4. due \in Int /\ dl \in Int
  <2>1. task[c].period \in Int
    BY DEF TaskTypes
  <2>2. due \in Int
    BY <1>1, <1>2 DEF Job
  <2>3. due + task[c].period \in Int
    BY <2>1, <2>2
  <2> QED
    BY <1>3, <2>2, <2>3
<1>5. PICK j : j = [s.job[c] EXCEPT !.arrival = due, !.deadline = dl]
  OBVIOUS
<1>6. j \in Job /\ j.n = s.job[c].n
  BY <1>1, <1>4, <1>5 DEF Job
<1>7. PICK q : q = Append(s.release, c)
  OBVIOUS
<1>8. PICK r : r = thread_add_at(s, c)
  OBVIOUS
<1>9. /\ DOMAIN r = LibFields /\ r.time = s.time /\ r.run = s.run /\ r.release = q
      /\ r.since = s.since /\ r.freed = s.freed
  BY <1>1, <1>7, <1>8 DEF thread_add_at, LibTypes, LibFields
<1>10. r.job = [s.job EXCEPT ![c] = j]
  <2>1. DOMAIN s = LibFields /\ DOMAIN s.job = Thrd /\ DOMAIN s.job[c] = {"n", "remaining", "deadline", "arrival"}
    BY <1>1 DEF LibTypes, Job
  <2>2. r.job = [[s.job EXCEPT ![c].arrival = due]
                   EXCEPT ![c].deadline = IF task[c].is_real_time THEN due + task[c].period
                                            ELSE s.job[c].deadline]
    BY <1>2, <1>8, <2>1 DEF thread_add_at, LibFields
  <2>3. r.job = [[s.job EXCEPT ![c].arrival = due] EXCEPT ![c].deadline = dl]
    BY <1>2, <1>3, <2>2
  <2> QED
    BY <1>5, <2>1, <2>3
<1>11. /\ r.job \in [Thrd -> Job] /\ r.job[c] = j
       /\ \A u \in Thrd \ {c} : r.job[u] = s.job[u]
  BY <1>1, <1>6, <1>10 DEF LibTypes
<1>12. /\ q \in Seq(Thrd) /\ ToSet(q) = ToSet(s.release) \cup {c} /\ IsInjective(q)
  BY <1>1, <1>7, AppendFacts DEF OneQueue
<1>13. LibTypes(r)
  BY <1>1, <1>9, <1>11, <1>12 DEF LibTypes
<1>14. OneQueue(r)
  BY <1>1, <1>9, <1>12 DEF OneQueue
<1>15. Jobs(r)
  <2>1. ToSet(s.run) \subseteq Thrd \ {c} /\ ToSet(s.release) \subseteq Thrd \ {c}
    BY <1>1, Members DEF LibTypes
  <2>2. \A u \in ToSet(s.run) \cup ToSet(s.release) : r.job[u] = s.job[u]
    BY <1>11, <2>1
  <2>3. r.job[c].n > 0
    BY <1>6, <1>11
  <2> QED
    BY <1>1, <1>9, <1>12, <2>2, <2>3 DEF Jobs
<1>16. Turns(r, NoThread) /\ \A t \in Thrd \ ToSet(r.run) : r.since[t] = {}
  BY <1>9 DEF Ready, Turns
<1> QED
  BY <1>8, <1>9, <1>12, <1>13, <1>14, <1>15, <1>16 DEF Ready

\* What the running thread stands for: Ready, with itself in the run queue.
Runs(s, c, e) ==
  /\ Ready(s, e) /\ Whole(s) /\ NoneDue(s)
  /\ c \in ToSet(s.run) /\ e \in {c, NoThread} /\ s.since[c] = {}

\* thread_exit(), and the last cycle's end.
LEMMA ExitIs ==
  ASSUME TaskTypes, sched \in Scheduler, NEW s, NEW c, NEW e, Runs(s, c, e),
         NEW x, LibTypes(x), x.run = s.run, x.release = s.release, x.time = s.time,
         x.since = s.since, x.freed = s.freed, \A u \in Thrd \ {c} : x.job[u] = s.job[u]
  PROVE  Between(__thread_exit(x, c)) /\ ByRule(s.since, __thread_exit(x, c))
<1>1. PICK w : w = Without(s.run, c)
  OBVIOUS
<1>2. PICK f : f = s.freed \cup {c}
  OBVIOUS
<1>2a. PICK r : r = [x EXCEPT !.run = w, !.freed = f]
  OBVIOUS
<1>3. s.run \in Seq(Thrd) /\ w \in Seq(Thrd)
  BY <1>1, WithoutFacts DEF Runs, Ready, LibTypes
<1>4. /\ LibTypes(r) /\ r.run = w /\ r.release = x.release /\ r.time = x.time
      /\ r.since = x.since /\ r.job = x.job /\ r.freed = f
  BY <1>2a, <1>3 DEF LibTypes, LibFields
<1>5. Ready(r, NoThread) /\ c \notin ToSet(r.release) /\ ToSet(r.run) = ToSet(s.run) \ {c}
  BY <1>1, <1>4, Removed DEF Runs
<1>6. NoneDue(r)
  <2>1. ToSet(r.release) \subseteq Thrd \ {c}
    BY <1>4, <1>5, Members DEF LibTypes
  <2> QED
    BY <1>4, <2>1 DEF Runs, NoneDue
<1>6a. Whole(r)
  <2>1. Whole(s) /\ c \in Thrd
    BY <1>3, Members DEF Runs
  <2> QED
    BY <1>2, <1>4, <1>5, <2>1 DEF Whole
<1>7. Between(__dispatch(__schedule(r))) /\ ByRule(r.since, __dispatch(__schedule(r)))
  BY <1>5, <1>6, <1>6a, DispatchIs
<1>8. __thread_exit(x, c) = __dispatch(__schedule(r))
  BY <1>1, <1>2, <1>2a DEF __thread_exit
<1> QED
  BY <1>4, <1>7, <1>8

LEMMA NextCycleIs ==
  ASSUME TaskTypes, sched \in Scheduler, NEW s, NEW c, NEW e, Runs(s, c, e),
         NEW x, LibTypes(x), x.run = s.run, x.release = s.release, x.time = s.time,
         x.since = s.since, x.freed = s.freed, \A u \in Thrd \ {c} : x.job[u] = s.job[u],
         x.job[c].n > 0
  PROVE  Between(NextCycle(x, c)) /\ ByRule(s.since, NextCycle(x, c))
<1>1. PICK w : w = Without(s.run, c)
  OBVIOUS
<1>2. PICK r : r = [x EXCEPT !.run = w]
  OBVIOUS
<1>3. s.run \in Seq(Thrd) /\ w \in Seq(Thrd)
  BY <1>1, WithoutFacts DEF Runs, Ready, LibTypes
<1>4. /\ LibTypes(r) /\ r.run = w /\ r.release = x.release /\ r.time = x.time
      /\ r.since = x.since /\ r.job = x.job /\ r.freed = x.freed
  BY <1>2, <1>3 DEF LibTypes, LibFields
<1>5. /\ Ready(r, NoThread) /\ c \notin ToSet(r.run) /\ c \notin ToSet(r.release)
      /\ ToSet(r.run) = ToSet(s.run) \ {c}
  BY <1>1, <1>4, Removed DEF Runs
<1>6. PICK a : a = thread_add_at(r, c)
  OBVIOUS
<1>7. c \in Thrd
  BY <1>3, Members DEF Runs
<1>8. /\ Ready(a, NoThread) /\ a.since = r.since /\ a.freed = r.freed /\ a.run = r.run
      /\ ToSet(a.release) = ToSet(r.release) \cup {c}
  BY <1>4, <1>5, <1>6, <1>7, AddedAt
<1>8a. Whole(a)
  <2>1. Whole(s) /\ c \in ToSet(s.run)
    BY DEF Runs
  <2> QED
    BY <1>4, <1>5, <1>8, <2>1 DEF Whole
<1>9. Between(SwitchesOn(a)) /\ ByRule(a.since, SwitchesOn(a))
  BY <1>8, <1>8a, SwitchesOnIs
<1>10. NextCycle(x, c) = SwitchesOn(a)
  BY <1>1, <1>2, <1>6 DEF NextCycle
<1> QED
  BY <1>4, <1>8, <1>9, <1>10

\* A cycle ends.
LEMMA FinishIs ==
  ASSUME TaskTypes, sched \in Scheduler, NEW s, NEW c, NEW e, Runs(s, c, e),
         NEW x, LibTypes(x), x.run = s.run, x.release = s.release, x.time = s.time,
         x.since = s.since, x.freed = s.freed, \A u \in Thrd \ {c} : x.job[u] = s.job[u], x.job[c].n > 0
  PROVE  Between(FinishCurrent(x, c)) /\ ByRule(s.since, FinishCurrent(x, c))
<1>1. c \in Thrd
  BY Members DEF Runs, Ready, LibTypes
<1>2. PICK m : m = x.job[c].n - 1
  OBVIOUS
<1>3. x.job[c] \in Job /\ m \in Nat
  BY <1>1, <1>2 DEF LibTypes, Job
<1>4. PICK y : y = [x EXCEPT !.job[c].n = @ - 1]
  OBVIOUS
<1>5. PICK j : j = [x.job[c] EXCEPT !.n = m]
  OBVIOUS
<1>6. j \in Job /\ j.n = m
  BY <1>3, <1>5 DEF Job
<1>7. /\ DOMAIN y = LibFields /\ y.run = x.run /\ y.release = x.release /\ y.time = x.time
      /\ y.since = x.since /\ y.freed = x.freed
  BY <1>4 DEF LibTypes, LibFields
<1>8. y.job = [x.job EXCEPT ![c] = j]
  BY <1>1, <1>2, <1>3, <1>4, <1>5 DEF LibTypes, LibFields, Job
<1>9. /\ y.job \in [Thrd -> Job] /\ y.job[c].n = m
      /\ \A u \in Thrd \ {c} : y.job[u] = x.job[u]
  BY <1>1, <1>6, <1>8 DEF LibTypes
<1>10. LibTypes(y)
  BY <1>7, <1>9 DEF LibTypes
<1>11. \A u \in Thrd \ {c} : y.job[u] = s.job[u]
  BY <1>9
<1>12. FinishCurrent(x, c) = IF y.job[c].n > 0 THEN NextCycle(y, c) ELSE __thread_exit(y, c)
  BY <1>4 DEF FinishCurrent
<1>13. /\ y.run = s.run /\ y.release = s.release /\ y.time = s.time /\ y.since = s.since
       /\ y.freed = s.freed
  BY <1>7
<1>14. CASE m > 0
  <2>1. Between(NextCycle(y, c)) /\ ByRule(s.since, NextCycle(y, c))
    BY <1>9, <1>10, <1>11, <1>13, <1>14, NextCycleIs
  <2> QED
    BY <1>9, <1>12, <1>14, <2>1
<1>15. CASE ~(m > 0)
  <2>1. Between(__thread_exit(y, c)) /\ ByRule(s.since, __thread_exit(y, c))
    BY <1>10, <1>11, <1>13, ExitIs
  <2> QED
    BY <1>9, <1>12, <1>15, <2>1
<1> QED
  BY <1>14, <1>15

\* A thread whose time slice is over goes to the tail.
LEMMA RequeuedIs ==
  ASSUME TaskTypes, sched \in Scheduler, NEW s, NEW c, Runs(s, c, NoThread),
         NEW x, LibTypes(x), x.run = s.run, x.release = s.release, x.time = s.time,
         x.since = s.since, x.freed = s.freed, \A u \in Thrd \ {c} : x.job[u] = s.job[u],
         x.job[c].n = s.job[c].n, x.job[c].arrival = s.job[c].arrival, x.job[c].remaining > 0
  PROVE  Between(Requeued(x, c)) /\ ByRule(s.since, Requeued(x, c))
<1>1. LibTypes(s) /\ OneQueue(s) /\ Jobs(s) /\ Turns(s, NoThread) /\ s.run \in Seq(Thrd)
  BY DEF Runs, Ready, LibTypes
<1>2. PICK q : q = ToTail(s.run, c)
  OBVIOUS
<1>3. /\ q \in Seq(Thrd) /\ ToSet(q) = ToSet(s.run) /\ IsInjective(q)
      /\ \A t, u : t # c /\ u # c /\ Before(s.run, t, u) => Before(q, t, u)
      /\ \A t \in ToSet(s.run) \ {c} : Before(q, t, c)
  BY <1>1, <1>2, ToTailFacts DEF Runs, OneQueue
<1>4. PICK r : r = [x EXCEPT !.run = q]
  OBVIOUS
<1>5. /\ LibTypes(r) /\ r.run = q /\ r.release = x.release /\ r.time = x.time
      /\ r.since = x.since /\ r.job = x.job /\ r.freed = x.freed
  BY <1>3, <1>4 DEF LibTypes, LibFields
<1>6. OneQueue(r) /\ Whole(r)
  BY <1>1, <1>3, <1>5 DEF OneQueue, Whole, Runs
<1>7. Jobs(r)
  <2>1. c \in ToSet(s.run) /\ c \notin ToSet(s.release)
    BY <1>1 DEF Runs, OneQueue
  <2>2. ToSet(s.run) \subseteq Thrd /\ ToSet(s.release) \subseteq Thrd
    BY <1>1, Members DEF LibTypes
  <2>3. ASSUME NEW t \in ToSet(s.run)
        PROVE  x.job[t].n > 0 /\ x.job[t].remaining > 0 /\ x.job[t].arrival <= x.time
    <3>1. s.job[t].n > 0 /\ s.job[t].remaining > 0 /\ s.job[t].arrival <= s.time
      BY <1>1 DEF Jobs
    <3>2. CASE t = c
      BY <3>1, <3>2
    <3>3. CASE t # c
      BY <2>2, <3>1, <3>3
    <3> QED
      BY <3>2, <3>3
  <2>4. ASSUME NEW t \in ToSet(s.release)
        PROVE  x.job[t].n > 0
    BY <1>1, <2>1, <2>2 DEF Jobs
  <2> QED
    BY <1>3, <1>5, <2>3, <2>4 DEF Jobs
<1>8. \A t \in Thrd \ ToSet(r.run) : r.since[t] = {}
  BY <1>3, <1>5 DEF Runs, Ready
<1>9. Turns(r, NoThread)
  <2>1. SUFFICES ASSUME sched = "PRIORITY_RR", NEW t \in ToSet(r.run), NEW u \in ToSet(r.run),
                        t # u, Eligible(t), task[t].priority = task[u].priority, u \in r.since[t]
                 PROVE  Before(r.run, t, u)
    BY DEF Turns
  <2>2. t \in ToSet(s.run) /\ u \in ToSet(s.run) /\ u \in s.since[t]
    BY <1>3, <1>5, <2>1
  <2>3. t # c
    BY <2>2 DEF Runs
  <2>4. CASE u = c
    BY <1>3, <1>5, <2>2, <2>3, <2>4
  <2>5. CASE u # c
    <3>1. u # NoThread
      BY <1>1, <2>2, Members, ThreadIds
    <3>2. Before(s.run, t, u)
      BY <1>1, <2>1, <2>2, <3>1 DEF Turns
    <3> QED
      BY <1>3, <1>5, <2>3, <2>5, <3>2
  <2> QED
    BY <2>4, <2>5
<1>10. Ready(r, NoThread)
  BY <1>5, <1>6, <1>7, <1>8, <1>9 DEF Ready
<1>11. Between(SwitchesOn(r)) /\ ByRule(r.since, SwitchesOn(r))
  BY <1>6, <1>10, SwitchesOnIs
<1>12. Requeued(x, c) = SwitchesOn(r)
  BY <1>2, <1>4 DEF Requeued
<1> QED
  BY <1>5, <1>11, <1>12

\* The assumption, for the tasks of this build.
LEMMA TasksTyped ==
  ASSUME sched \in Scheduler, task \in [Thrd -> Tasks(sched)]
  PROVE  TaskTypes
<1>1. \A k \in Tasks(sched) :
        /\ k.is_real_time \in BOOLEAN
        /\ k.period \in Nat \cup {-1} /\ k.processing_time \in Nat \ {0}
        /\ k.n \in Nat \ {0} /\ k.arrival \in Nat /\ k.priority \in Nat
  BY RtAssumption
<1>2. ASSUME NEW t \in Thrd
      PROVE  /\ task[t].is_real_time \in BOOLEAN
             /\ task[t].period \in Int /\ task[t].period >= -1
             /\ task[t].processing_time \in Nat /\ task[t].processing_time > 0
             /\ task[t].n \in Nat /\ task[t].n > 0
             /\ task[t].arrival \in Nat /\ task[t].priority \in Nat
  <2>1. PICK k : k = task[t]
    OBVIOUS
  <2>2. k \in Tasks(sched)
    BY <2>1
  <2>3. /\ k.is_real_time \in BOOLEAN
        /\ k.period \in Nat \cup {-1} /\ k.processing_time \in Nat \ {0}
        /\ k.n \in Nat \ {0} /\ k.arrival \in Nat /\ k.priority \in Nat
    BY <1>1, <2>2
  <2> QED
    BY <2>1, <2>3
<1> QED
  BY <1>2 DEF TaskTypes

\* thread_create() puts each thread into the release queue once.
LEMMA RtStarts ==
  ASSUME RtInit
  PROVE  RtInductive
<1>1. TaskTypes
  BY TasksTyped DEF RtInit
<1> DEFINE dl(t) == IF task[t].is_real_time THEN task[t].arrival + task[t].period ELSE 0
           job(t) == [n |-> task[t].n, remaining |-> task[t].processing_time,
                      deadline |-> dl(t), arrival |-> task[t].arrival]
<1>2. ASSUME NEW t \in Thrd
      PROVE  job(t) \in Job /\ job(t).n > 0
  <2>1. /\ task[t].arrival \in Nat /\ task[t].period \in Int /\ task[t].n \in Nat /\ task[t].n > 0
        /\ task[t].processing_time \in Nat
    BY <1>1 DEF TaskTypes
  <2>2. dl(t) \in Int
    <3>1. task[t].arrival + task[t].period \in Int
      BY <2>1
    <3> QED
      BY <3>1
  <2> HIDE DEF dl
  <2> QED
    BY <2>1, <2>2 DEF Job
<1> HIDE DEF job
<1>3. PICK J : J = [t \in Thrd |-> job(t)]
  OBVIOUS
<1>4. J \in [Thrd -> Job] /\ \A t \in Thrd : J[t].n > 0
  BY <1>2, <1>3
<1>5. PICK q : q = [t \in Thrd |-> t]
  OBVIOUS
<1>6. q \in Seq(Thrd) /\ IsInjective(q) /\ ToSet(q) = Thrd
  <2>1. PICK m \in Nat : m = Cardinality(Thrd)
    BY RtAssumption, FS_CardinalityType
  <2>2. Thrd = 1..m
    BY <2>1, RtAssumption
  <2>3. q \in Seq(Thrd)
    BY <1>5, <2>2
  <2>4. IsInjective(q)
    BY <1>5 DEF IsInjective
  <2>5. ToSet(q) = Thrd
    BY <1>5 DEF ToSet
  <2> QED
    BY <2>3, <2>4, <2>5
<1>7. PICK e : e = [t \in Thrd |-> {}]
  OBVIOUS
<1>8. e \in [Thrd -> SUBSET Thrd] /\ \A t \in Thrd : e[t] = {}
  BY <1>7
<1>9. lib = [time |-> 0, run |-> <<>>, release |-> q, job |-> J, current |-> NoThread,
             allocated |-> 0, freed |-> {}, at |-> "start", since |-> e]
  BY <1>3, <1>5, <1>7 DEF RtInit, job
<1>10. /\ LibTypes(lib) /\ lib.run = <<>> /\ lib.release = q /\ lib.job = J /\ lib.since = e
       /\ lib.current = NoThread /\ lib.allocated = 0 /\ lib.at = "start"
       /\ lib.freed = {}
  BY <1>4, <1>6, <1>8, <1>9 DEF LibTypes, LibFields
<1>11. ToSet(lib.run) = {} /\ IsInjective(lib.run) /\ ToSet(lib.release) \subseteq Thrd
  <2>1. lib.run \in Seq(Thrd) /\ lib.release \in Seq(Thrd)
    BY <1>10 DEF LibTypes
  <2>2. IsInjective(lib.run)
    BY <1>10 DEF IsInjective
  <2> QED
    BY <1>10, <2>1, <2>2, Members
<1>12. OneQueue(lib) /\ Whole(lib) /\ Jobs(lib) /\ Turns(lib, NoThread)
  BY <1>4, <1>6, <1>10, <1>11 DEF OneQueue, Whole, Jobs, Turns
<1>13. Ready(lib, NoThread)
  BY <1>8, <1>10, <1>12 DEF Ready
<1>14. Between(lib)
  BY <1>10, <1>12, <1>13 DEF Between
<1> QED
  BY <1>14 DEF RtInductive, RtInit

\* What a step keeps and what its choice obeys.
StepIs == Between(lib') /\ ByRule(lib.since, lib')

LEMMA StartIs ==
  ASSUME RtInductive, Start
  PROVE  StepIs
<1>1. Ready(lib, NoThread) /\ Whole(lib) /\ TaskTypes /\ sched \in Scheduler
  BY TasksTyped DEF RtInductive, Start, Between
<1>2. lib' = SwitchesOn(lib)
  BY DEF Start, MainRound
<1> QED
  BY <1>1, <1>2, SwitchesOnIs DEF StepIs

LEMMA WakeIs ==
  ASSUME RtInductive, back_to_main_handler
  PROVE  StepIs
<1>1. /\ Ready(lib, NoThread) /\ Whole(lib) /\ TaskTypes /\ sched \in Scheduler
      /\ lib.allocated \in Nat
  BY TasksTyped DEF RtInductive, back_to_main_handler, Between
<1>2. PICK s : s = [lib EXCEPT !.time = @ + lib.allocated]
  OBVIOUS
<1>3. Ready(s, NoThread) /\ Whole(s) /\ s.since = lib.since
  BY <1>1, <1>2, Elapses
<1>4. lib' = SwitchesOn(s)
  BY <1>2 DEF back_to_main_handler, MainRound
<1>5. Between(SwitchesOn(s)) /\ ByRule(s.since, SwitchesOn(s))
  BY <1>1, <1>3, SwitchesOnIs
<1> QED
  BY <1>3, <1>4, <1>5 DEF StepIs

\* thread_exit() after k ticks, those that arrived meanwhile released.
LEMMA ExitRan ==
  ASSUME TaskTypes, sched \in Scheduler, NEW s, NEW c, NEW e, Ready(s, e), Whole(s),
         c \in ToSet(s.run), e \in {c, NoThread}, s.since[c] = {}, NEW k \in Nat
  PROVE  LET d == __thread_exit(__release([s EXCEPT !.time = @ + k]), c)
         IN  Between(d) /\ ByRule(s.since, d)
<1>1. PICK x : x = [s EXCEPT !.time = @ + k]
  OBVIOUS
<1>2. PICK r : r = __release(x)
  OBVIOUS
<1>3. Runs(r, c, e) /\ r.since = s.since
  <2>1. Ready(x, e) /\ Whole(x) /\ x.run = s.run /\ x.since = s.since
    BY <1>1, Elapses
  <2>2. Ready(r, e) /\ Whole(r) /\ NoneDue(r) /\ ToSet(x.run) \subseteq ToSet(r.run)
    BY <1>2, <2>1, ReleaseReady
  <2>3. r.since = x.since
    BY <1>2, <2>1, ReleaseIs DEF Ready
  <2> QED
    BY <2>1, <2>2, <2>3 DEF Runs
<1>4. LibTypes(r)
  BY <1>3 DEF Runs, Ready
<1>5. Between(__thread_exit(r, c)) /\ ByRule(r.since, __thread_exit(r, c))
  BY <1>3, <1>4, ExitIs
<1> QED
  BY <1>1, <1>2, <1>3, <1>5

LEMMA ExitStep ==
  ASSUME RtInductive, ThreadExits
  PROVE  StepIs
<1>1. /\ Ready(lib, ToEnd(lib)) /\ Whole(lib) /\ TaskTypes /\ sched \in Scheduler /\ lib.allocated \in Nat
      /\ lib.current \in ToSet(lib.run) /\ lib.since[lib.current] = {}
  BY TasksTyped DEF RtInductive, ThreadExits, Between
<1>2. ToEnd(lib) \in {lib.current, NoThread}
  BY DEF ToEnd
<1>3. PICK k \in {0} \cup 0..lib.allocated - 1 :
        lib' = __thread_exit(__release([lib EXCEPT !.time = @ + k]), lib.current)
  BY DEF ThreadExits
<1>4. k \in Nat
  BY <1>1
<1>5. PICK d : d = __thread_exit(__release([lib EXCEPT !.time = @ + k]), lib.current)
  OBVIOUS
<1>6. Between(d) /\ ByRule(lib.since, d)
  BY <1>1, <1>2, <1>4, <1>5, ExitRan
<1> QED
  BY <1>3, <1>5, <1>6 DEF StepIs

LEMMA SwitchStep ==
  ASSUME RtInductive, switch_handler
  PROVE  StepIs
<1>1. PICK c, a, e : c = lib.current /\ a = lib.allocated /\ e = ToEnd(lib)
  OBVIOUS
<1>2. /\ Ready(lib, e) /\ Whole(lib) /\ TaskTypes /\ sched \in Scheduler /\ a \in Nat /\ a > 0
      /\ c \in ToSet(lib.run) /\ lib.since[c] = {} /\ a <= lib.job[c].remaining
  BY <1>1, TasksTyped DEF RtInductive, switch_handler, Between
<1>3. e \in {c, NoThread} /\ (a # lib.job[c].remaining => e = NoThread)
  BY <1>1 DEF ToEnd
<1>4. PICK x : x = [lib EXCEPT !.time = @ + lib.allocated]
  OBVIOUS
<1>5. PICK r : r = __release(x)
  OBVIOUS
<1>a. x = [lib EXCEPT !.time = @ + a]
  BY <1>1, <1>4
<1>6. /\ Runs(r, c, e) /\ r.since = lib.since /\ r.job[c] = lib.job[c]
      /\ r.current = c /\ r.allocated = a
  <2>1. /\ Ready(x, e) /\ Whole(x) /\ x.run = lib.run /\ x.since = lib.since /\ x.job = lib.job
        /\ x.current = lib.current /\ x.allocated = lib.allocated
    BY <1>2, <1>a, Elapses
  <2>2. /\ Ready(r, e) /\ Whole(r) /\ NoneDue(r) /\ ToSet(x.run) \subseteq ToSet(r.run)
        /\ \A t \in ToSet(x.run) : r.job[t] = x.job[t]
    BY <1>2, <1>5, <2>1, ReleaseReady
  <2>3. r.since = x.since /\ r.current = x.current /\ r.allocated = x.allocated
    BY <1>2, <1>5, <2>1, ReleaseIs DEF Ready
  <2> QED
    BY <1>1, <1>2, <1>3, <2>1, <2>2, <2>3 DEF Runs
<1>7. PICK m : m = r.job[c].remaining - a
  OBVIOUS
<1>8. c \in Thrd /\ r.job[c] \in Job /\ m \in Nat /\ LibTypes(r) /\ OneQueue(r)
  <2>1. LibTypes(r) /\ OneQueue(r) /\ c \in ToSet(r.run)
    BY <1>6 DEF Runs, Ready
  <2>2. c \in Thrd
    BY <2>1, Members DEF LibTypes
  <2>3. r.job[c] \in Job
    BY <2>1, <2>2 DEF LibTypes
  <2>4. r.job[c].remaining \in Nat
    BY <2>3 DEF Job
  <2> QED
    BY <1>2, <1>6, <1>7, <2>1, <2>2, <2>3, <2>4
<1>9. r.job[c].n > 0
  BY <1>6 DEF Runs, Ready, Jobs
<1>10. PICK j : j = [r.job[c] EXCEPT !.remaining = m]
  OBVIOUS
<1>11. j \in Job /\ j.remaining = m /\ j.n = r.job[c].n /\ j.arrival = r.job[c].arrival
  BY <1>8, <1>10 DEF Job
<1>12. PICK s : s = [r EXCEPT !.job[c].remaining = @ - lib.allocated]
  OBVIOUS
<1>13. /\ DOMAIN s = LibFields /\ s.run = r.run /\ s.release = r.release /\ s.time = r.time
       /\ s.since = r.since /\ s.current = r.current /\ s.allocated = r.allocated
       /\ s.freed = r.freed
  BY <1>8, <1>12 DEF LibTypes, LibFields
<1>14. s.job = [r.job EXCEPT ![c] = j]
  <2>1. s = [r EXCEPT !.job[c].remaining = @ - a]
    BY <1>1, <1>12
  <2> QED
    BY <1>7, <1>8, <1>10, <2>1 DEF LibTypes, LibFields, Job
<1>15. /\ s.job \in [Thrd -> Job] /\ s.job[c] = j
       /\ \A u \in Thrd \ {c} : s.job[u] = r.job[u]
  BY <1>8, <1>11, <1>14 DEF LibTypes
<1>16. LibTypes(s) /\ OneQueue(s) /\ Whole(s)
  BY <1>6, <1>8, <1>13, <1>15 DEF LibTypes, OneQueue, Whole, Runs
<1>17. lib' = IF TooLate(s, c) THEN Misses(s)
              ELSE IF s.job[c].remaining <= 0 THEN FinishCurrent(s, c)
              ELSE Requeued(s, c)
  BY <1>1, <1>4, <1>5, <1>12 DEF switch_handler
<1>18. Between(Misses(s)) /\ ByRule(lib.since, Misses(s))
  BY <1>1, <1>2, <1>6, <1>8, <1>13, <1>16, Stops
<1>19. Between(FinishCurrent(s, c)) /\ ByRule(r.since, FinishCurrent(s, c))
  <2>1. s.job[c].n > 0
    BY <1>9, <1>11, <1>15
  <2>2. /\ s.run = r.run /\ s.release = r.release /\ s.time = r.time /\ s.since = r.since
        /\ s.freed = r.freed
    BY <1>13
  <2> QED
    BY <1>2, <1>6, <1>15, <1>16, <2>1, <2>2, FinishIs
<1>20. ASSUME ~(s.job[c].remaining <= 0)
       PROVE  Between(Requeued(s, c)) /\ ByRule(r.since, Requeued(s, c))
  <2>1. m > 0
    BY <1>8, <1>11, <1>15, <1>20
  <2>2. e = NoThread
    <3>1. r.job[c].remaining \in Nat
      BY <1>8 DEF Job
    <3> QED
      BY <1>2, <1>3, <1>6, <1>7, <2>1, <3>1
  <2>3. Runs(r, c, NoThread)
    BY <1>6, <2>2
  <2>4. /\ s.job[c].n = r.job[c].n /\ s.job[c].arrival = r.job[c].arrival /\ s.job[c].remaining > 0
        /\ s.run = r.run /\ s.release = r.release /\ s.time = r.time /\ s.since = r.since
        /\ s.freed = r.freed
    BY <1>11, <1>13, <1>15, <2>1
  <2> QED
    BY <1>2, <1>15, <1>16, <2>3, <2>4, RequeuedIs
<1> QED
  BY <1>6, <1>17, <1>18, <1>19, <1>20 DEF StepIs

LEMMA RtSteps ==
  ASSUME RtInductive, RtNext
  PROVE  StepIs /\ RtInductive'
<1>1. StepIs
  BY StartIs, WakeIs, ExitStep, SwitchStep DEF RtNext
<1>2. UNCHANGED <<sched, task>>
  BY DEF RtNext, Start, switch_handler, ThreadExits, back_to_main_handler
<1>3. Between(lib')
  BY <1>1 DEF StepIs
<1>4. Between(lib)'
  BY <1>2, <1>3 DEF Between, Ready, Turns, LibTypes, OneQueue, Whole, Jobs, ToEnd, Eligible
<1> QED
  BY <1>1, <1>2, <1>4 DEF RtInductive

\* The invariant holds in every reachable state.
THEOREM RtInvariant == RtSpec => []RtInductive
<1>1. RtInductive /\ UNCHANGED rt_vars => RtInductive'
  <2> SUFFICES ASSUME RtInductive, UNCHANGED rt_vars
               PROVE  RtInductive'
    OBVIOUS
  <2>1. sched' = sched /\ task' = task /\ lib' = lib
    BY DEF rt_vars
  <2>2. Between(lib)'
    BY <2>1 DEF RtInductive, Between, Ready, Turns, LibTypes, OneQueue, Whole, Jobs, ToEnd, Eligible
  <2> QED
    BY <2>1, <2>2 DEF RtInductive
<1>2. RtInductive /\ [RtNext]_rt_vars => RtInductive'
  BY <1>1, RtSteps
<1> QED
  BY <1>2, RtStarts, PTL DEF RtSpec

\* Each thread that is not freed is in one of the two lists, once, and whoever runs is
\* in the run queue, whatever ends, arrives, is interrupted or calls thread_exit();
\* the processor is idle only while nobody whom the scheduler may choose could run, and
\* not beyond the next release.
THEOREM ThreadsQueued == RtSpec => []QueuesExact
<1>1. ASSUME RtInductive
      PROVE  QueuesExact
  <2>1. Between(lib) /\ LibTypes(lib) /\ OneQueue(lib) /\ Whole(lib)
    BY <1>1 DEF RtInductive, Between
  <2>2. lib.run \in Seq(Thrd) /\ lib.release \in Seq(Thrd)
    BY <2>1 DEF LibTypes
  <2>3. RtTypeOK
    BY <2>1 DEF RtTypeOK, Between, LibTypes, Whole, Job
  <2>4. IsInjective(lib.run \o lib.release)
    BY <2>1, <2>2, ConcatFacts DEF OneQueue
  <2>5. lib.at = "running" => Contains(lib.run, lib.current) /\ lib.job[lib.current].n > 0
    BY <2>1, <2>2, Members DEF Between, Ready, Jobs
  <2>6. ToSet(lib.run \o lib.release) = Thrd \ lib.freed
    BY <2>1, <2>2, ConcatFacts DEF Whole
  <2>7. lib.at = "done" => lib.freed = Thrd
    <3>1. ASSUME lib.at = "done"
          PROVE  ToSet(lib.run) = {} /\ ToSet(lib.release) = {}
      BY <2>1, <2>2, <3>1, Members DEF Between
    <3> QED
      BY <2>1, <3>1 DEF Whole
  <2> QED
    BY <2>1, <2>3, <2>4, <2>5, <2>6, <2>7 DEF QueuesExact, Between
<1> QED
  BY <1>1, RtInvariant, PTL

\* P-RR: nobody has two turns while another thread of his priority waits for one that
\* the scheduler may give it; HRRN:
\* nobody runs before a thread that has waited longer for less.
THEOREM RulesObeyed == RtSpec => NotOvertaken
<1> DEFINE A == lib'.at = "running" =>
                  /\ sched = "PRIORITY_RR" => RoundRobin(lib'.current)
                  /\ sched = "HRRN" => ShorterAndEarlierFirst(lib'.current)
<1>1. ASSUME RtInductive, RtNext
      PROVE  A
  <2>1. PICK r : r = lib'
    OBVIOUS
  <2>2. ByRule(lib.since, r) /\ Between(r) /\ TaskTypes
    BY <1>1, <2>1, RtSteps, TasksTyped DEF StepIs, RtInductive
  <2>3. SUFFICES ASSUME r.at = "running"
                 PROVE  /\ sched = "PRIORITY_RR" => RoundRobin(r.current)
                        /\ sched = "HRRN" => ShorterAndEarlierFirst(r.current)
    BY <2>1
  <2>4. PICK u, e : u = r.current /\ e = ToEnd(r)
    OBVIOUS
  <2>5. Ready(r, e) /\ u \in ToSet(r.run) /\ r.run \in Seq(Thrd)
    BY <2>2, <2>3, <2>4 DEF Between, LibTypes
  <2>6. ASSUME NEW t \in Thrd
        PROVE  Waits(lib', t, u) <=> t \in ToSet(r.run) \ {u} /\ Eligible(t)
    BY <2>1, <2>5, Members DEF Waits
  <2>7. ASSUME sched = "PRIORITY_RR"
        PROVE  RoundRobin(u)
    BY <2>2, <2>3, <2>4, <2>6, <2>7 DEF ByRule, RoundRobin
  <2>8. ASSUME sched = "HRRN"
        PROVE  ShorterAndEarlierFirst(u)
    <3>1. SUFFICES ASSUME NEW t \in Thrd, Waits(lib', t, u),
                          r.job[t].arrival < r.job[u].arrival,
                          task[t].processing_time <= task[u].processing_time
                   PROVE  FALSE
      BY <2>1 DEF ShorterAndEarlierFirst
    <3>2. t \in ToSet(r.run) /\ t # u /\ Eligible(t)
      BY <2>6, <3>1
    <3>3. Beats(r, u, t)
      BY <2>2, <2>3, <2>4, <2>8, <3>2 DEF ByRule, Best
    <3>4. PICK a, b, g, h : a = Waited(r, u) /\ b = Burst(u) /\ g = Waited(r, t) /\ h = Burst(t)
      OBVIOUS
    <3>5. a \in Nat /\ b \in Nat /\ b > 0 /\ g \in Nat /\ h \in Nat /\ h > 0
      BY <2>2, <2>5, <3>2, <3>4, RatioTypes
    <3>6. a * h >= g * b
      <4>1. a * h \in Nat /\ g * b \in Nat
        BY <3>5
      <4>2. a * h > g * b \/ a * h = g * b
        BY <3>3, <3>4, BeatsIs
      <4> QED
        BY <4>1, <4>2
    <3>7. PICK x \in Nat, y \in Nat : x = r.time - r.job[u].arrival /\ y = r.time - r.job[t].arrival
      <4>1. /\ r.job[u].arrival \in Int /\ r.time \in Nat /\ r.job[u].arrival <= r.time
            /\ r.job[t].arrival \in Int /\ r.job[t].arrival <= r.time
        BY <2>5, <3>2, QueuedJob
      <4> QED
        BY <4>1
    <3>8. a = x + b /\ g = y + h /\ h <= b
      BY <3>1, <3>4, <3>7 DEF Waited, Burst
    <3>9. y > x
      <4>1. r.job[u].arrival \in Int /\ r.time \in Nat /\ r.job[t].arrival \in Int
        BY <2>5, <3>2, QueuedJob
      <4> QED
        BY <3>1, <3>7, <4>1
    <3>10. /\ (x + b) * h = x * h + b * h /\ (y + h) * b = y * b + h * b /\ b * h = h * b
           /\ x * h \in Nat /\ y * b \in Nat /\ b * h \in Nat /\ x * b \in Nat
      BY <3>5, <3>7
    <3>11. b * x >= h * x /\ x * b = b * x /\ x * h = h * x
      <4>1. CASE x = 0
        BY <3>5, <4>1
      <4>2. CASE x > 0
        BY <3>5, <3>7, <3>8, <4>2, TimesMono
      <4> QED
        BY <3>7, <4>1, <4>2
    <3>12. y * b > x * b
      BY <3>5, <3>7, <3>9, TimesMono
    <3> QED
      BY <3>6, <3>8, <3>10, <3>11, <3>12
  <2> QED
    BY <2>4, <2>7, <2>8
<1>2. RtInductive /\ [RtNext]_rt_vars => [A]_rt_vars
  BY <1>1
<1>3. RtSpec => [][A]_rt_vars
  BY <1>2, RtInvariant, PTL DEF RtSpec
<1> QED
  BY <1>3 DEF NotOvertaken
=============================================================================
