----------------------------- MODULE BoundedFifo -----------------------------
(***************************************************************************)
(* What a pipe promises: bytes come out in the order they went in, each    *)
(* once, and never more than Capacity of them wait.                        *)
(***************************************************************************)
EXTENDS Sequences, Naturals

CONSTANTS Byte, Capacity

VARIABLE queue

Init == queue = <<>>

Put == Len(queue) < Capacity /\ \E c \in Byte : queue' = Append(queue, c)
Get == queue # <<>> /\ queue' = Tail(queue)

Spec == Init /\ [][Put \/ Get]_queue
=============================================================================
