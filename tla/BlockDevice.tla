----------------------------- MODULE BlockDevice -----------------------------
(***************************************************************************)
(* What virtio_disk_rw() promises its caller: between the call and the     *)
(* return the transfer takes place once, as a whole, on the block the      *)
(* buffer names.  VirtioDisk implements this; the buffer cache relies on   *)
(* it (MirrorLog and BufCache take one transfer for one step).             *)
(***************************************************************************)
CONSTANTS Buf, Block, Value

VARIABLES
  store,   \* the blocks of the disk
  data,    \* the contents of each buffer
  call,    \* per buffer: the request its owner is waiting for, {} when none
  done     \* the buffers whose request has taken place

vars == <<store, data, call, done>>

Request == [write : BOOLEAN, block : Block]

Init ==
  /\ store \in [Block -> Value] /\ data \in [Buf -> Value]
  /\ call = [b \in Buf |-> {}] /\ done = {}

\* The owner of the buffer may have changed its contents before it calls.
Call(b) ==
  /\ call[b] = {}
  /\ \E r \in Request : call' = [call EXCEPT ![b] = {r}]
  /\ \E v \in Value : data' = [data EXCEPT ![b] = v]
  /\ UNCHANGED <<store, done>>

Transfer(b) ==
  /\ b \notin done
  /\ \E r \in call[b] :
       IF r.write
       THEN store' = [store EXCEPT ![r.block] = data[b]] /\ UNCHANGED data
       ELSE data' = [data EXCEPT ![b] = store[r.block]] /\ UNCHANGED store
  /\ done' = done \union {b}
  /\ UNCHANGED call

Return(b) ==
  /\ b \in done
  /\ call' = [call EXCEPT ![b] = {}] /\ done' = done \ {b}
  /\ UNCHANGED <<store, data>>

Next == \E b \in Buf : Call(b) \/ Transfer(b) \/ Return(b)

Spec == Init /\ [][Next]_vars
=============================================================================
