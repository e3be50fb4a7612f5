----------------------------- MODULE VirtioDisk ------------------------------
(***************************************************************************)
(* The driver of the virtio disk (mp4/kernel/virtio_disk.c) and the device *)
(* it drives: a table of descriptors, three of which make a request, a     *)
(* ring of requests to be done and a ring of requests that are done.       *)
(*                                                                         *)
(* vdisk_lock makes each stretch of virtio_disk_rw() between two sleeps    *)
(* one step.  The device needs no lock, so virtio_disk_intr() is a step    *)
(* for each look at the rings.  A buffer's owner makes one call at a time: *)
(* it holds the buffer's sleep lock (BufCache).  sleep() lets vdisk_lock   *)
(* go and sleeps in one step: Pipe shows why that is right.                *)
(***************************************************************************)
EXTENDS Integers, FiniteSets

CONSTANTS
  Buf, Block, Value,   \* the buffers, the disk's blocks and their contents
  NoBuf,
  NUM,                 \* descriptors, and slots of each ring
  U16                  \* bound: ring counters run modulo U16, not 2^16

ASSUME VirtioAssumption ==
  /\ NoBuf \notin Buf
  /\ NUM \in Nat /\ NUM >= 3
  /\ U16 \in Nat \ {0} /\ U16 % NUM = 0

Desc   == 0..NUM - 1
NoDesc == NUM             \* no VRING_DESC_F_NEXT
Null   == <<"null", NoBuf>>

VARIABLES
  free, addr, next,        \* the descriptors
  info,                    \* info[].b
  avail, avail_idx,        \* avail[2...] and avail[1]
  used, used_id, used_idx, \* used->elems, used->id and how far we looked
  disk,                    \* buffers with b->disk = 1
  intr,                    \* where virtio_disk_intr() is
  data, request,           \* per buffer: b->data and what the owner asks for
  pc, chan,                \* per buffer: where its owner is, what it sleeps on
  head,                    \* per buffer: idx[0] of its owner
  store, taken, working, isr  \* the device: blocks, requests it has looked at
                           \* and works on, interrupt status

table  == <<free, addr, next, info>>
rings  == <<avail, avail_idx, used, used_id>>
caller == <<request, pc, chan, head>>
device == <<store, taken, working, isr>>
vars   == <<table, rings, used_idx, disk, intr, data, caller, device>>

BD == INSTANCE BlockDevice WITH
  call <- request,
  done <- {b \in Buf : /\ pc[b] = "wait" /\ head[b] \notin working
                       /\ \A i \in Desc : avail[i] # head[b]}

Init ==
  /\ free = [i \in Desc |-> TRUE]
  /\ addr = [i \in Desc |-> Null] /\ next = [i \in Desc |-> NoDesc]
  /\ info = [i \in Desc |-> NoBuf]
  /\ avail = [i \in Desc |-> NoDesc] /\ avail_idx = 0
  /\ used = [i \in Desc |-> NoDesc] /\ used_id = 0 /\ used_idx = 0
  /\ disk = {} /\ intr = "idle"
  /\ store \in [Block -> Value] /\ data \in [Buf -> Value]
  /\ request = [b \in Buf |-> {}]
  /\ pc = [b \in Buf |-> "idle"] /\ chan = [b \in Buf |-> "none"]
  /\ head = [b \in Buf |-> NoDesc]
  /\ taken = 0 /\ working = {} /\ isr = FALSE

-----------------------------------------------------------------------------
(* virtio_disk_rw() *)

FreeDescs == {i \in Desc : free[i]}

\* alloc_desc() takes the first free descriptor, alloc3_desc() three of them.
Lowest(S) == CHOOSE i \in S : \A j \in S : i <= j
FirstThree ==
  LET i == Lowest(FreeDescs)
      j == Lowest(FreeDescs \ {i})
  IN <<i, j, Lowest(FreeDescs \ {i, j})>>

EnoughFree == Cardinality(FreeDescs) >= 3

Wakeup(c, sleeps) == [b \in Buf |-> IF sleeps[b] = c THEN "none" ELSE sleeps[b]]

Call(b) ==
  /\ pc[b] = "idle"
  /\ pc' = [pc EXCEPT ![b] = "alloc"]
  /\ \E r \in BD!Request : request' = [request EXCEPT ![b] = {r}]
  /\ \E v \in Value : data' = [data EXCEPT ![b] = v]
  /\ UNCHANGED <<table, rings, used_idx, disk, intr, chan, head, device>>

Runs(b) == chan[b] = "none" /\ intr = "idle"

\* Too few are free: those that were taken are freed again, with a wakeup each.
AllocFails(b) ==
  /\ pc[b] = "alloc" /\ Runs(b) /\ ~EnoughFree
  /\ chan' = [(IF FreeDescs = {} THEN chan ELSE Wakeup("free0", chan))
                EXCEPT ![b] = "free0"]
  /\ UNCHANGED <<table, rings, used_idx, disk, intr, data, request, pc, head, device>>

AvailSlot == avail_idx % NUM

Submit(b) ==
  /\ pc[b] = "alloc" /\ Runs(b) /\ EnoughFree
  /\ LET idx == FirstThree IN
     /\ free' = [i \in Desc |-> free[i] /\ i \notin {idx[1], idx[2], idx[3]}]
     /\ addr' = [addr EXCEPT ![idx[1]] = <<"header", b>>, ![idx[2]] = <<"data", b>>,
                             ![idx[3]] = <<"status", b>>]
     /\ next' = [next EXCEPT ![idx[1]] = idx[2], ![idx[2]] = idx[3], ![idx[3]] = NoDesc]
     /\ info' = [info EXCEPT ![idx[1]] = b]
     /\ avail' = [avail EXCEPT ![AvailSlot] = idx[1]]
     /\ head' = [head EXCEPT ![b] = idx[1]]
  /\ avail_idx' = (avail_idx + 1) % U16
  /\ disk' = disk \union {b}
  /\ pc' = [pc EXCEPT ![b] = "wait"] /\ chan' = [chan EXCEPT ![b] = "buf"]
  /\ UNCHANGED <<used, used_id, used_idx, intr, data, request, device>>

\* Mutant: the last descriptor of a chain is not freed.
ChainButLast(i) == {i, next[i]} \ {NoDesc}

\* The descriptors free_chain() meets, from i on.
Chain(i) ==
  {i} \union (IF next[i] = NoDesc THEN {}
              ELSE {next[i]} \union ({next[next[i]]} \ {NoDesc}))

StillBusy(b) == b \in disk

SleepAgain(b) ==
  /\ pc[b] = "wait" /\ Runs(b) /\ StillBusy(b)
  /\ chan' = [chan EXCEPT ![b] = "buf"]
  /\ UNCHANGED <<table, rings, used_idx, disk, intr, data, request, pc, head, device>>

Finish(b) ==
  /\ pc[b] = "wait" /\ Runs(b) /\ ~StillBusy(b)
  /\ info' = [info EXCEPT ![head[b]] = NoBuf]
  /\ free' = [i \in Desc |-> free[i] \/ i \in Chain(head[b])]
  /\ addr' = [i \in Desc |-> IF i \in Chain(head[b]) THEN Null ELSE addr[i]]
  /\ chan' = Wakeup("free0", chan)
  /\ pc' = [pc EXCEPT ![b] = "idle"]
  /\ request' = [request EXCEPT ![b] = {}]
  /\ head' = [head EXCEPT ![b] = NoDesc]
  /\ UNCHANGED <<next, rings, used_idx, disk, intr, data, device>>

\* kill() makes a sleeping process runnable, whatever it sleeps on.
Kill(b) ==
  /\ chan[b] # "none"
  /\ chan' = [chan EXCEPT ![b] = "none"]
  /\ UNCHANGED <<table, rings, used_idx, disk, intr, data, request, pc, head, device>>

-----------------------------------------------------------------------------
(* virtio_disk_intr() *)

IntrEnter ==
  /\ isr /\ intr = "idle"
  /\ intr' = "loop"
  /\ UNCHANGED <<table, rings, used_idx, disk, data, caller, device>>

MoreUsed == used_idx % NUM # used_id % NUM

UsedNext == (used_idx + 1) % NUM

\* Mutant: nobody is woken.
OwnerAsleep(b) == chan

OwnerWoken(b) == [chan EXCEPT ![b] = IF @ = "buf" THEN "none" ELSE @]

\* A used slot is not read again before it is written again.
IntrLook ==
  /\ intr = "loop" /\ MoreUsed
  /\ LET b == info[used[used_idx]] IN
     /\ disk' = disk \ {b}
     /\ chan' = OwnerWoken(b)
  /\ used' = [used EXCEPT ![used_idx] = NoDesc]
  /\ used_idx' = UsedNext
  /\ UNCHANGED <<table, avail, avail_idx, used_id, intr, data, request, pc, head, device>>

IntrLeave ==
  /\ intr = "loop" /\ ~MoreUsed
  /\ intr' = "ack"
  /\ UNCHANGED <<table, rings, used_idx, disk, data, caller, device>>

\* The acknowledgement also covers what the device finished after the last look.
IntrAck ==
  /\ intr = "ack"
  /\ intr' = "idle" /\ isr' = FALSE
  /\ UNCHANGED <<table, rings, used_idx, disk, data, caller, store, taken, working>>

-----------------------------------------------------------------------------
(* The device: takes requests in the ring's order, ends them in any order *)

DeviceTakes ==
  /\ taken # avail_idx
  /\ working' = working \union {avail[taken % NUM]}
  /\ avail' = [avail EXCEPT ![taken % NUM] = NoDesc]
  /\ taken' = (taken + 1) % U16
  /\ UNCHANGED <<table, avail_idx, used, used_id, used_idx, disk, intr, data, caller, store, isr>>

\* Mutant: buf0 is one static header, which the call with the highest descriptor
\* has filled last.
HeaderOwnerStatic(h) ==
  CHOOSE b \in Buf :
    pc[b] = "wait" /\ \A c \in Buf : pc[c] = "wait" => head[c] <= head[b]

\* The header buf0 is on the stack of the caller its descriptor points to.
HeaderOwner(h) == addr[h][2]

DeviceTransfers(h) ==
  LET b == addr[next[h]][2] IN
  \E r \in request[HeaderOwner(h)] :
    IF r.write
    THEN store' = [store EXCEPT ![r.block] = data[b]] /\ UNCHANGED data
    ELSE data' = [data EXCEPT ![b] = store[r.block]] /\ UNCHANGED store

DeviceEnds(h) ==
  /\ h \in working
  /\ DeviceTransfers(h)
  /\ working' = working \ {h}
  /\ used' = [used EXCEPT ![used_id % NUM] = h]
  /\ used_id' = (used_id + 1) % U16
  /\ isr' = TRUE
  /\ UNCHANGED <<table, avail, avail_idx, used_idx, disk, intr, caller, taken>>

-----------------------------------------------------------------------------
Driver(b) == AllocFails(b) \/ Submit(b) \/ SleepAgain(b) \/ Finish(b)
Interrupt == IntrEnter \/ IntrLook \/ IntrLeave \/ IntrAck

Next ==
  \/ \E b \in Buf : Call(b) \/ Driver(b) \/ Kill(b)
  \/ Interrupt
  \/ DeviceTakes \/ \E h \in Desc : DeviceEnds(h)

Spec == Init /\ [][Next]_vars

\* A process that can run goes on, an interrupt that is raised is taken, and
\* the device ends what it was asked for.  Nobody is bound to make a call, and
\* a process that wants descriptors may lose each race for them.
FairSpec ==
  /\ Spec
  /\ WF_vars(Interrupt) /\ WF_vars(DeviceTakes)
  /\ \A b \in Buf : WF_vars(DeviceEnds(head[b])) /\ SF_vars(Finish(b))

-----------------------------------------------------------------------------
(* Properties *)

Outstanding == {b \in Buf : pc[b] = "wait"}

TypeOK ==
  /\ free \in [Desc -> BOOLEAN] /\ next \in [Desc -> 0..NUM]
  /\ addr \in [Desc -> {"null", "header", "data", "status"} \X (Buf \union {NoBuf})]
  /\ info \in [Desc -> Buf \union {NoBuf}]
  /\ avail \in [Desc -> 0..NUM] /\ used \in [Desc -> 0..NUM]
  /\ avail_idx \in 0..U16 - 1 /\ used_id \in 0..U16 - 1 /\ taken \in 0..U16 - 1
  /\ used_idx \in Desc
  /\ disk \subseteq Buf /\ working \subseteq Desc
  /\ isr \in BOOLEAN /\ intr \in {"idle", "loop", "ack"}
  /\ data \in [Buf -> Value] /\ store \in [Block -> Value]
  /\ request \in [Buf -> SUBSET BD!Request]
  /\ pc \in [Buf -> {"idle", "alloc", "wait"}]
  /\ chan \in [Buf -> {"none", "free0", "buf"}]
  /\ head \in [Buf -> 0..NUM]

\* Every descriptor is free or in the chain of one outstanding request, and the
\* chains are whole: header, data and status of the request's own buffer.  What
\* is freed by one request is at once taken by the next while the device is
\* still at work on a third.
ChainsDisjoint ==
  /\ \A b \in Outstanding :
       LET i == head[b]  j == next[i]  k == next[j] IN
       /\ Cardinality({i, j, k}) = 3 /\ {i, j, k} \subseteq Desc \ FreeDescs
       /\ next[k] = NoDesc /\ info[i] = b
       /\ addr[i] = <<"header", b>> /\ addr[j] = <<"data", b>> /\ addr[k] = <<"status", b>>
  /\ Cardinality(FreeDescs) + 3 * Cardinality(Outstanding) = NUM

\* A request is in one place: waiting in the avail ring, with the device, in
\* the used ring, or finished; the counters of the rings say which.
InFlight(ring, from, to) ==
  {ring[i % NUM] : i \in {j \in 0..2 * U16 : from <= j /\ j < (IF to < from THEN to + U16 ELSE to)}}
InUsed == {used[i] : i \in Desc} \ {NoDesc}
OnePlace ==
  LET waiting == {avail[i] : i \in Desc} \ {NoDesc} IN
  /\ waiting = InFlight(avail, taken, avail_idx)
  /\ {waiting, working, InUsed} \subseteq SUBSET {head[b] : b \in disk}
  /\ Cardinality(waiting) + Cardinality(working) + Cardinality(InUsed) = Cardinality(disk)

\* No request gets mixed up with another, however their submissions, completions
\* and wakeups fall together.
RequestsWhole == TypeOK /\ ChainsDisjoint /\ OnePlace

\* The device may end a request after the last look of virtio_disk_intr() and
\* before its acknowledgement: no interrupt is left to tell of it.
Swallowed == MoreUsed /\ ~isr /\ intr = "idle"

\* Every request that was submitted is finished, unless its completion is
\* acknowledged unseen: virtio_disk_intr() acknowledges after its loop.
RequestEnds == \A b \in Buf : pc[b] = "wait" ~> pc[b] = "idle" \/ Swallowed

\* A caller that returns has had its transfer, once, on its own block and buffer,
\* whatever the order in which the device works.
TransfersOnce == BD!Spec
=============================================================================
