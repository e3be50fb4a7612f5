---------------------------- MODULE AtomicStore ----------------------------
(***************************************************************************)
(* What the xv6 log promises (mp4/kernel/log.c): a set of blocks that      *)
(* system calls write in memory and that reach the disk only in whole      *)
(* groups of finished system calls.  A crash falls back to the last group  *)
(* that was committed.                                                     *)
(***************************************************************************)

CONSTANTS Proc,   \* processes that run file-system calls
          Block,  \* home blocks of the file system
          Value   \* what a block can hold

VARIABLES store,  \* what survives a crash
          memory, \* what a reader sees now
          open    \* processes inside begin_op() .. end_op()

vars == <<store, memory, open>>

Init ==
  /\ store \in [Block -> Value]
  /\ memory = store
  /\ open = {}

Begin(p) ==
  /\ p \notin open
  /\ open' = open \cup {p}
  /\ UNCHANGED <<store, memory>>

Write(p, b, v) ==
  /\ p \in open
  /\ memory' = [memory EXCEPT ![b] = v]
  /\ UNCHANGED <<store, open>>

End(p) ==
  /\ p \in open
  /\ open' = open \ {p}
  /\ UNCHANGED <<store, memory>>

\* All that has been written becomes durable at once, and only when no
\* system call is half done.
Commit ==
  /\ open = {}
  /\ store' = memory
  /\ UNCHANGED <<memory, open>>

Crash ==
  /\ memory' = store
  /\ open' = {}
  /\ UNCHANGED store

Next ==
  \/ \E p \in Proc : Begin(p) \/ End(p)
  \/ \E p \in Proc, b \in Block, v \in Value : Write(p, b, v)
  \/ Commit
  \/ Crash

Spec == Init /\ [][Next]_vars

=============================================================================
