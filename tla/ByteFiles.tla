------------------------------ MODULE ByteFiles ------------------------------
(***************************************************************************)
(* What writei() and itrunc() promise: a file is a sequence of bytes; a    *)
(* write puts a run of one byte somewhere in it or across its end, a file  *)
(* is emptied as a whole, and no other file notices.  What a write has put *)
(* there stays; only a write that fails leaves bytes that do not, less     *)
(* than BSIZE of them.                                                     *)
(***************************************************************************)
EXTENDS Sequences, Naturals

CONSTANTS File, Byte, BSIZE

VARIABLES
  content,   \* what a read finds
  kept,      \* what stays of it
  failed     \* the last write failed

vars == <<content, kept, failed>>

Init ==
  /\ content = [f \in File |-> <<>>] /\ kept = content
  /\ failed = FALSE

\* The bytes of s from position at + 1 to end become c.
Overwritten(s, at, end, c) ==
  [k \in 1..(IF end > Len(s) THEN end ELSE Len(s)) |-> IF k \in at + 1..end THEN c ELSE s[k]]

\* s is t, with bytes of old at some places outside at + 1..end.
Mixed(s, t, old, at, end) ==
  /\ Len(s) = Len(t)
  /\ \A k \in 1..Len(t) :
       s[k] = t[k] \/ (k \notin at + 1..end /\ k <= Len(old) /\ s[k] = old[k])

\* The bytes s of a file become t; those that stay were u and become v.
Write(s, t, u, v) ==
  \E at \in 0..Len(s) : \E end \in at..Len(t), c \in Byte :
    /\ t = Overwritten(s, at, end, c)
    /\ \E done \in at..end :
         Mixed(v, t, u, at, done) /\ end - done < BSIZE /\ (done = end \/ failed')

Truncate(t, v) == t = <<>> /\ v = <<>> /\ failed' = failed

\* What failed writes have left behind goes, all or part of it.
Revert(s, t, u, v) == Mixed(t, u, s, 0, 0) /\ v = u /\ failed' = failed

\* One file changes: c and u become d and v.
Step(c, d, u, v) ==
  \E f \in File :
    /\ d = [c EXCEPT ![f] = d[f]] /\ v = [u EXCEPT ![f] = v[f]]
    /\ \/ Write(c[f], d[f], u[f], v[f])
       \/ Truncate(d[f], v[f])
       \/ Revert(c[f], d[f], u[f], v[f])

Next == Step(content, content', kept, kept')

Spec == Init /\ [][Next]_vars
=============================================================================
