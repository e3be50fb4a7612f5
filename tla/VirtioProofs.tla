---------------------------- MODULE VirtioProofs -----------------------------
(***************************************************************************)
(* Theorems of VirtioDisk about its table of descriptors, for any number   *)
(* of descriptors, buffers and blocks.                                     *)
(***************************************************************************)
EXTENDS VirtioDisk, FiniteSetTheorems, WellFoundedInduction, TLAPS

(* The indices of the rings: counters that wrap around. *)

LEMMA DivMod ==
  ASSUME NEW m \in Nat \ {0}, NEW x \in Int
  PROVE  x % m \in 0..m - 1 /\ x \div m \in Int /\ x = (m * (x \div m)) + (x % m)
  OBVIOUS

\* A number has one remainder.
LEMMA ModUnique ==
  ASSUME NEW m \in Nat \ {0}, NEW q \in Int, NEW p \in Int,
         NEW r \in 0..m - 1, NEW s \in 0..m - 1, m * q + r = m * p + s
  PROVE  r = s
<1>1. m * (q - p) = s - r /\ s - r < m /\ s - r > -m
  OBVIOUS
<1>2. CASE q - p >= 1
  <2>1. m * (q - p) >= m
    BY <1>2
  <2> QED
    BY <1>1, <2>1
<1>3. CASE q - p <= -1
  <2>1. m * (q - p) <= -m
    BY <1>3
  <2> QED
    BY <1>1, <2>1
<1>4. CASE q - p = 0
  BY <1>1, <1>4
<1> QED
  BY <1>2, <1>3, <1>4

\* A counter below m is its own remainder.
LEMMA ModBelow ==
  ASSUME NEW m \in Nat \ {0}, NEW x \in 0..m - 1
  PROVE  x % m = x
<1>1. m * (x \div m) + (x % m) = m * 0 + x /\ x % m \in 0..m - 1 /\ x \div m \in Int
  BY DivMod
<1> QED
  BY <1>1, ModUnique

\* A counter that is moved by less than m wraps around at most once.
LEMMA ModPlus ==
  ASSUME NEW m \in Nat \ {0}, NEW x \in Nat, NEW d \in 0..m - 1
  PROVE  (x + d) % m = IF (x % m) + d < m THEN (x % m) + d ELSE (x % m) + d - m
<1> DEFINE q == x \div m
           r == x % m
           p == (x + d) \div m
           s == (x + d) % m
<1>1. r \in 0..m - 1 /\ q \in Int /\ x = m * q + r
  BY DivMod
<1>2. s \in 0..m - 1 /\ p \in Int /\ x + d = m * p + s
  <2>1. x + d \in Int
    OBVIOUS
  <2> QED
    BY <2>1, DivMod
<1> HIDE DEF q, r, p, s
<1>3. CASE r + d < m
  <2>1. r + d \in 0..m - 1 /\ m * q + (r + d) = m * p + s
    BY <1>1, <1>2, <1>3
  <2>2. r + d = s
    BY <1>1, <1>2, <2>1, ModUnique
  <2> QED
    BY <1>3, <2>2 DEF r, s
<1>4. CASE r + d >= m
  <2>1. r + d - m \in 0..m - 1 /\ q + 1 \in Int
    BY <1>1, <1>4
  <2>2. m * (q + 1) + (r + d - m) = m * p + s
    BY <1>1, <1>2
  <2>3. r + d - m = s
    BY <1>2, <2>1, <2>2, ModUnique
  <2> QED
    BY <1>1, <1>4, <2>3 DEF r, s
<1> QED
  BY <1>1, <1>3, <1>4

\* A counter that runs modulo a multiple of m may be taken modulo m.
Wraps(m, w) == m \in Nat \ {0} /\ w \in Nat \ {0} /\ w % m = 0
Ticks(c, d, w) == c \in 0..w - 1 /\ d = (c + 1) % w

LEMMA ModNext ==
  ASSUME NEW m \in Nat \ {0}, NEW x \in Nat
  PROVE  (x + 1) % m = IF (x % m) + 1 = m THEN 0 ELSE (x % m) + 1
<1>1. x % m \in 0..m - 1
  BY DivMod
<1>2. CASE m = 1
  <2>1. x % 1 \in 0..0 /\ (x + 1) % 1 \in 0..0
    BY DivMod
  <2> QED
    BY <1>2, <2>1
<1>3. CASE m > 1
  <2>1. 1 \in 0..m - 1
    BY <1>3
  <2>2. (x + 1) % m = IF (x % m) + 1 < m THEN (x % m) + 1 ELSE (x % m) + 1 - m
    BY <2>1, ModPlus
  <2> QED
    BY <1>1, <2>2
<1> QED
  BY <1>2, <1>3

LEMMA CounterNext ==
  ASSUME NEW m, NEW w, NEW c, NEW d, Wraps(m, w), Ticks(c, d, w)
  PROVE  /\ m <= w /\ c % m \in 0..m - 1 /\ d \in 0..w - 1 /\ d % m \in 0..m - 1
         /\ (c + 1 = w => d = 0) /\ (c + 1 # w => d = c + 1)
         /\ ((c % m) + 1 = m => d % m = 0)
         /\ ((c % m) + 1 # m => d % m = (c % m) + 1)
<1> USE DEF Wraps, Ticks
<1>1. m <= w
  <2>1. CASE w < m
    <3>1. w \in 0..m - 1
      BY <2>1
    <3> QED
      BY <3>1, ModBelow
  <2> QED
    BY <2>1
<1>2. c % m \in 0..m - 1 /\ (c + 1) % m = IF (c % m) + 1 = m THEN 0 ELSE (c % m) + 1
  <2>1. m \in Nat \ {0} /\ c \in Nat
    OBVIOUS
  <2>2. c % m \in 0..m - 1
    BY <2>1, DivMod
  <2>3. (c + 1) % m = IF (c % m) + 1 = m THEN 0 ELSE (c % m) + 1
    BY <2>1, ModNext, Zenon
  <2> QED
    BY <2>2, <2>3
<1>3. d = IF c + 1 = w THEN 0 ELSE c + 1
  <2>1. w \in Nat \ {0} /\ c \in Nat /\ c % w = c
    BY ModBelow
  <2>2. (c + 1) % w = IF (c % w) + 1 = w THEN 0 ELSE (c % w) + 1
    BY <2>1, ModNext, Zenon
  <2> QED
    BY <2>1, <2>2
<1>4. 0 % m = 0
  <2>1. 0 \in 0..m - 1
    OBVIOUS
  <2> QED
    BY <2>1, ModBelow
<1>5. CASE c + 1 = w
  BY <1>1, <1>2, <1>3, <1>4, <1>5
<1>6. CASE c + 1 # w
  BY <1>1, <1>2, <1>3, <1>6
<1> QED
  BY <1>5, <1>6
-----------------------------------------------------------------------------
Tagged(S) == {"null", "header", "data", "status"} \X S

TableType ==
  /\ free \in [Desc -> BOOLEAN] /\ next \in [Desc -> 0..NUM]
  /\ addr \in [Desc -> Tagged(Buf \union {NoBuf})]
  /\ info \in [Desc -> Buf \union {NoBuf}]
  /\ head \in [Buf -> 0..NUM] /\ pc \in [Buf -> {"idle", "alloc", "wait"}]

\* The three descriptors of b's request, in use and labelled with b, so that
\* no other request can have one of them.
ChainOf(b, i, j, k) ==
  /\ {i, j, k} \subseteq Desc \ FreeDescs /\ i # j /\ i # k /\ j # k
  /\ next[i] = j /\ next[j] = k /\ next[k] = NoDesc /\ info[i] = b
  /\ addr[i] = <<"header", b>> /\ addr[j] = <<"data", b>> /\ addr[k] = <<"status", b>>

Chains == \A b \in Outstanding : ChainOf(b, head[b], next[head[b]], next[next[head[b]]])

\* No descriptor is lost: what is not free is in a chain.
Counted ==
  /\ IsFiniteSet(Outstanding)
  /\ Cardinality(FreeDescs) + 3 * Cardinality(Outstanding) = NUM

IInv == TableType /\ Chains /\ Counted

-----------------------------------------------------------------------------
(* alloc3_desc() *)

LEMMA DescIsFinite ==
  ASSUME VirtioAssumption
  PROVE  /\ IsFiniteSet(Desc) /\ Cardinality(Desc) = NUM
         /\ IsFiniteSet(FreeDescs) /\ Cardinality(FreeDescs) \in Nat
<1>1. IsFiniteSet(Desc) /\ Cardinality(Desc) = NUM
  BY FS_Interval DEF Desc, VirtioAssumption
<1>2. FreeDescs \in SUBSET Desc
  BY DEF FreeDescs
<1> QED
  BY <1>1, <1>2, FS_Subset, FS_CardinalityType

\* alloc_desc() finds a descriptor when there is one.
LEMMA LowestIn ==
  ASSUME VirtioAssumption, NEW S \in SUBSET Desc, S # {}
  PROVE  Lowest(S) \in S
<1>1. S \subseteq Nat
  BY DEF Desc, VirtioAssumption
<1>2. PICK i \in S : \A j \in S : ~ <<j, i>> \in OpToRel(<, Nat)
  BY <1>1, NatLessThanWellFounded, WFMin, Zenon
<1>3. \A j \in S : ~ (j < i)
  BY <1>1, <1>2 DEF OpToRel
<1>4. \A j \in S : i <= j
  BY <1>1, <1>3
<1> QED
  BY <1>4 DEF Lowest

\* What alloc3_desc() takes are three free descriptors.
LEMMA ThreeTaken ==
  ASSUME VirtioAssumption, EnoughFree, NEW i, NEW j, NEW k, <<i, j, k>> = FirstThree
  PROVE  /\ {i, j, k} \subseteq FreeDescs /\ i # j /\ i # k /\ j # k
         /\ Cardinality(FreeDescs \ {i, j, k}) = Cardinality(FreeDescs) - 3
<1> DEFINE F0 == FreeDescs
           F1 == F0 \ {i}
           F2 == F1 \ {j}
<1>1. F0 \subseteq Desc /\ IsFiniteSet(F0) /\ Cardinality(F0) \in Nat /\ Cardinality(F0) >= 3
  BY DescIsFinite DEF EnoughFree, FreeDescs
<1>2. i = Lowest(F0) /\ j = Lowest(F0 \ {i}) /\ k = Lowest(F0 \ {i, j})
  BY DEF FirstThree
<1>3. F0 \ {i, j} = F2 /\ F0 \ {i, j, k} = F2 \ {k}
  OBVIOUS
<1> HIDE DEF F0
<1>4. i \in F0
  <2>1. F0 # {}
    BY <1>1, FS_EmptySet
  <2> QED
    BY <1>1, <1>2, <2>1, LowestIn
<1>5. IsFiniteSet(F1) /\ Cardinality(F1) = Cardinality(F0) - 1
  BY <1>1, <1>4, FS_RemoveElement
<1> HIDE DEF F1
<1>6. F1 \subseteq Desc /\ F1 = F0 \ {i}
  BY <1>1 DEF F1
<1>7. j \in F1
  <2>1. F1 # {}
    BY <1>1, <1>5, FS_EmptySet
  <2> QED
    BY <1>2, <1>6, <2>1, LowestIn
<1>8. IsFiniteSet(F2) /\ Cardinality(F2) = Cardinality(F0) - 2
  BY <1>1, <1>5, <1>7, FS_RemoveElement
<1> HIDE DEF F2
<1>9. F2 \subseteq Desc /\ F2 = F1 \ {j}
  BY <1>6 DEF F2
<1>10. k \in F2
  <2>1. F2 # {}
    BY <1>1, <1>8, FS_EmptySet
  <2> QED
    BY <1>2, <1>3, <1>9, <2>1, LowestIn
<1>11. Cardinality(F2 \ {k}) = Cardinality(F2) - 1
  BY <1>8, <1>10, FS_RemoveElement
<1>12. Cardinality(F2 \ {k}) = Cardinality(F0) - 3
  BY <1>1, <1>8, <1>11
<1> QED
  BY <1>3, <1>4, <1>6, <1>7, <1>9, <1>10, <1>12 DEF F0

\* Three different descriptors that were not free are three more.
LEMMA ThreeGiven ==
  ASSUME NEW S, IsFiniteSet(S), NEW i, NEW j, NEW k,
         i \notin S, j \notin S, k \notin S, i # j, i # k, j # k
  PROVE  Cardinality(S \union {i, j, k}) = Cardinality(S) + 3
<1> DEFINE S1 == S \union {i}
           S2 == S1 \union {j}
<1>1. IsFiniteSet(S1) /\ Cardinality(S1) = Cardinality(S) + 1
  BY FS_AddElement
<1>2. j \notin S1 /\ k \notin S2 /\ S \union {i, j, k} = S2 \union {k}
  OBVIOUS
<1> HIDE DEF S1
<1>3. IsFiniteSet(S2) /\ Cardinality(S2) = Cardinality(S1) + 1
  BY <1>1, <1>2, FS_AddElement
<1> HIDE DEF S2
<1>4. Cardinality(S2 \union {k}) = Cardinality(S2) + 1
  BY <1>2, <1>3, FS_AddElement
<1>5. Cardinality(S) \in Nat
  BY FS_CardinalityType
<1> QED
  BY <1>1, <1>2, <1>3, <1>4, <1>5

LEMMA ThreeAre ==
  ASSUME NEW i, NEW j, NEW k, i # j, i # k, j # k
  PROVE  Cardinality({i, j, k}) = 3
<1> DEFINE S == {}
<1>1. /\ IsFiniteSet(S) /\ Cardinality(S) = 0 /\ S \union {i, j, k} = {i, j, k}
      /\ i \notin S /\ j \notin S /\ k \notin S
  BY FS_EmptySet
<1> HIDE DEF S
<1> QED
  BY <1>1, ThreeGiven

-----------------------------------------------------------------------------
(* The invariant *)

\* All descriptors are free and nobody has asked for anything.
LEMMA InitInv ==
  ASSUME VirtioAssumption, Init
  PROVE  IInv
<1>1. TableType
  <2>1. NoDesc \in 0..NUM
    BY DEF NoDesc, VirtioAssumption
  <2>2. Null \in Tagged(Buf \union {NoBuf})
    BY DEF Null, Tagged
  <2> QED
    BY <2>1, <2>2 DEF Init, TableType
<1>2. Outstanding = {} /\ FreeDescs = Desc
  BY DEF Init, Outstanding, FreeDescs
<1>3. Chains
  BY <1>2 DEF Chains
<1>4. Counted
  BY <1>2, DescIsFinite, FS_EmptySet DEF Counted, VirtioAssumption
<1> QED
  BY <1>1, <1>3, <1>4 DEF IInv

\* virtio_disk_rw() takes its descriptors from nobody.
LEMMA SubmitInv ==
  ASSUME VirtioAssumption, IInv, NEW b \in Buf, Submit(b)
  PROVE  IInv'
<1> USE DEF IInv
<1> DEFINE i == FirstThree[1]
           j == FirstThree[2]
           k == FirstThree[3]
<1>1. /\ pc[b] = "alloc" /\ EnoughFree
      /\ free' = [d \in Desc |-> free[d] /\ d \notin {i, j, k}]
      /\ addr' = [addr EXCEPT ![i] = <<"header", b>>, ![j] = <<"data", b>>, ![k] = <<"status", b>>]
      /\ next' = [next EXCEPT ![i] = j, ![j] = k, ![k] = NoDesc]
      /\ info' = [info EXCEPT ![i] = b]
      /\ head' = [head EXCEPT ![b] = i] /\ pc' = [pc EXCEPT ![b] = "wait"]
  BY DEF Submit
<1>2. <<i, j, k>> = FirstThree
  BY DEF FirstThree
<1> HIDE DEF i, j, k
<1>3. /\ {i, j, k} \subseteq FreeDescs /\ i # j /\ i # k /\ j # k
      /\ Cardinality(FreeDescs \ {i, j, k}) = Cardinality(FreeDescs) - 3
  BY <1>1, <1>2, ThreeTaken
<1>4. {i, j, k} \subseteq Desc /\ Desc \subseteq 0..NUM /\ NoDesc \in 0..NUM
  BY <1>3 DEF FreeDescs, Desc, NoDesc, VirtioAssumption
<1>5. FreeDescs' = FreeDescs \ {i, j, k}
  BY <1>1, <1>3 DEF FreeDescs
<1>6. Outstanding' = Outstanding \union {b} /\ b \notin Outstanding
  BY <1>1 DEF Outstanding, TableType
<1>7. TableType'
  <2>1. {<<"header", b>>, <<"data", b>>, <<"status", b>>} \subseteq Tagged(Buf \union {NoBuf})
    BY DEF Tagged
  <2>2. free' \in [Desc -> BOOLEAN]
    BY <1>1 DEF TableType
  <2>3. next' \in [Desc -> 0..NUM] /\ head' \in [Buf -> 0..NUM]
    BY <1>1, <1>4 DEF TableType
  <2>4. addr' \in [Desc -> Tagged(Buf \union {NoBuf})]
    BY <1>1, <2>1 DEF TableType
  <2> QED
    BY <1>1, <2>2, <2>3, <2>4 DEF TableType
<1>8. Chains'
  <2>1. ASSUME NEW c \in Outstanding
        PROVE  ChainOf(c, head[c], next[head[c]], next[next[head[c]]])'
    <3>1. PICK x, y, z : /\ x = head[c] /\ y = next[x] /\ z = next[y]
                         /\ ChainOf(c, x, y, z) /\ c \in Buf /\ c # b
      BY <1>6 DEF Chains, Outstanding
    <3>2. {x, y, z} \subseteq Desc /\ {x, y, z} \intersect {i, j, k} = {}
      BY <1>3, <3>1 DEF ChainOf
    <3>3. head'[c] = x
      BY <1>1, <3>1 DEF TableType
    <3>4. \A d \in {x, y, z} : next'[d] = next[d] /\ addr'[d] = addr[d] /\ info'[d] = info[d]
      BY <1>1, <3>2 DEF TableType
    <3>5. ChainOf(c, x, y, z)'
      BY <1>5, <3>1, <3>2, <3>4 DEF ChainOf
    <3> QED
      BY <3>1, <3>3, <3>4, <3>5
  <2>2. head'[b] = i /\ next'[i] = j /\ next'[j] = k /\ next'[k] = NoDesc
    BY <1>1, <1>3, <1>4 DEF TableType
  <2>3. /\ addr'[i] = <<"header", b>> /\ addr'[j] = <<"data", b>>
        /\ addr'[k] = <<"status", b>> /\ info'[i] = b
    BY <1>1, <1>3, <1>4 DEF TableType
  <2>4. {i, j, k} \subseteq Desc \ FreeDescs'
    BY <1>4, <1>5
  <2>5. ChainOf(b, head[b], next[head[b]], next[next[head[b]]])'
    BY <1>3, <2>2, <2>3, <2>4 DEF ChainOf
  <2> QED
    BY <1>6, <2>1, <2>5 DEF Chains
<1>9. Counted'
  <2>1. /\ IsFiniteSet(Outstanding \union {b})
        /\ Cardinality(Outstanding \union {b}) = Cardinality(Outstanding) + 1
    BY <1>6, FS_AddElement DEF Counted
  <2>2. Cardinality(Outstanding) \in Nat /\ Cardinality(FreeDescs) \in Nat
    BY DescIsFinite, FS_CardinalityType DEF Counted
  <2> QED
    BY <1>3, <1>5, <1>6, <2>1, <2>2 DEF Counted, VirtioAssumption
<1> QED
  BY <1>7, <1>8, <1>9

\* free_chain() frees the request's own descriptors, all three, and nothing else.
LEMMA FinishInv ==
  ASSUME VirtioAssumption, IInv, NEW b \in Buf, Finish(b)
  PROVE  IInv'
<1> USE DEF IInv
<1> DEFINE i == head[b]
           j == next[i]
           k == next[j]
<1>1. /\ pc[b] = "wait"
      /\ info' = [info EXCEPT ![i] = NoBuf]
      /\ free' = [d \in Desc |-> free[d] \/ d \in Chain(i)]
      /\ addr' = [d \in Desc |-> IF d \in Chain(i) THEN Null ELSE addr[d]]
      /\ head' = [head EXCEPT ![b] = NoDesc] /\ pc' = [pc EXCEPT ![b] = "idle"]
      /\ next' = next
  BY DEF Finish
<1>2. b \in Outstanding /\ Outstanding' = Outstanding \ {b}
  BY <1>1 DEF Outstanding, TableType
<1>3. ChainOf(b, i, j, k)
  BY <1>2 DEF Chains
<1>4. Chain(i) = {i, j, k}
  <2>1. j # NoDesc /\ k # NoDesc
    BY <1>3 DEF ChainOf, Desc, NoDesc, VirtioAssumption
  <2> QED
    BY <2>1 DEF Chain
<1>5. FreeDescs' = FreeDescs \union {i, j, k} /\ {i, j, k} \subseteq Desc \ FreeDescs
  BY <1>1, <1>3, <1>4 DEF FreeDescs, ChainOf
<1>6. TableType'
  <2>1. NoDesc \in 0..NUM
    BY DEF NoDesc, VirtioAssumption
  <2>2. Null \in Tagged(Buf \union {NoBuf})
    BY DEF Null, Tagged
  <2>3. free' \in [Desc -> BOOLEAN]
    BY <1>1 DEF TableType
  <2>4. addr' \in [Desc -> Tagged(Buf \union {NoBuf})]
    BY <1>1, <2>2 DEF TableType
  <2> QED
    BY <1>1, <2>1, <2>3, <2>4 DEF TableType
<1>7. Chains'
  <2>1. SUFFICES ASSUME NEW c \in Outstanding, c # b
                 PROVE  ChainOf(c, head[c], next[head[c]], next[next[head[c]]])'
    BY <1>2 DEF Chains
  <2> DEFINE x == head[c]  y == next[x]  z == next[y]
  <2>2. ChainOf(c, x, y, z) /\ c \in Buf
    BY DEF Chains, Outstanding
  <2>3. {x, y, z} \subseteq Desc /\ {x, y, z} \intersect {i, j, k} = {}
    <3>1. \A d \in {i, j, k} : addr[d][2] = b
      BY <1>3 DEF ChainOf
    <3>2. \A d \in {x, y, z} : addr[d][2] = c
      BY <2>2 DEF ChainOf
    <3> QED
      BY <2>1, <2>2, <3>1, <3>2 DEF ChainOf
  <2>4. head'[c] = x
    BY <1>1, <2>1, <2>2 DEF TableType
  <2>5. ChainOf(c, x, y, z)'
    BY <1>1, <1>4, <1>5, <2>2, <2>3 DEF ChainOf, TableType
  <2> QED
    BY <1>1, <2>4, <2>5
<1>8. Counted'
  <2>1. /\ IsFiniteSet(Outstanding \ {b})
        /\ Cardinality(Outstanding \ {b}) = Cardinality(Outstanding) - 1
    BY <1>2, FS_RemoveElement DEF Counted
  <2>2. Cardinality(FreeDescs \union {i, j, k}) = Cardinality(FreeDescs) + 3
    BY <1>3, DescIsFinite, ThreeGiven DEF ChainOf
  <2>3. Cardinality(Outstanding) \in Nat /\ Cardinality(FreeDescs) \in Nat
    BY DescIsFinite, FS_CardinalityType DEF Counted
  <2> QED
    BY <1>2, <1>5, <2>1, <2>2, <2>3 DEF Counted, VirtioAssumption
<1> QED
  BY <1>6, <1>7, <1>8

\* Nothing else touches the table, or begins or ends a request.
LEMMA TableKept ==
  ASSUME IInv, UNCHANGED <<table, head>>, pc' \in [Buf -> {"idle", "alloc", "wait"}],
         Outstanding' = Outstanding
  PROVE  IInv'
<1>1. FreeDescs' = FreeDescs /\ UNCHANGED <<free, addr, next, info, head>>
  BY DEF FreeDescs, table
<1>2. TableType'
  BY <1>1 DEF IInv, TableType
<1>3. Chains'
  BY <1>1 DEF IInv, Chains, ChainOf
<1>4. Counted'
  BY <1>1 DEF IInv, Counted
<1> QED
  BY <1>2, <1>3, <1>4 DEF IInv

LEMMA CallInv ==
  ASSUME IInv, NEW b \in Buf, Call(b)
  PROVE  IInv'
<1>1. pc[b] = "idle" /\ pc' = [pc EXCEPT ![b] = "alloc"] /\ UNCHANGED <<table, head>>
  BY DEF Call
<1>2. pc \in [Buf -> {"idle", "alloc", "wait"}]
  BY DEF IInv, TableType
<1>3. pc' \in [Buf -> {"idle", "alloc", "wait"}] /\ Outstanding' = Outstanding
  BY <1>1, <1>2 DEF Outstanding
<1> QED
  BY <1>1, <1>3, TableKept

LEMMA NextInv ==
  ASSUME VirtioAssumption, IInv, [Next]_vars
  PROVE  IInv'
<1>1. ASSUME UNCHANGED <<table, head, pc>> PROVE IInv'
  <2>1. pc' \in [Buf -> {"idle", "alloc", "wait"}] /\ Outstanding' = Outstanding
    BY <1>1 DEF IInv, TableType, Outstanding
  <2> QED
    BY <1>1, <2>1, TableKept
<1>2. ASSUME NEW b \in Buf, Call(b) PROVE IInv'
  BY <1>2, CallInv
<1>3. ASSUME NEW b \in Buf, Submit(b) PROVE IInv'
  BY <1>3, SubmitInv
<1>4. ASSUME NEW b \in Buf, Finish(b) PROVE IInv'
  BY <1>4, FinishInv
<1>5. ASSUME NEW b \in Buf, AllocFails(b) \/ SleepAgain(b) \/ Kill(b) PROVE IInv'
  <2>1. UNCHANGED <<table, head, pc>>
    BY <1>5 DEF AllocFails, SleepAgain, Kill
  <2> QED
    BY <1>1, <2>1
<1>6. ASSUME Interrupt PROVE IInv'
  <2>1. UNCHANGED <<table, head, pc>>
    BY <1>6 DEF Interrupt, IntrEnter, IntrLook, IntrLeave, IntrAck, caller
  <2> QED
    BY <1>1, <2>1
<1>7. ASSUME DeviceTakes \/ \E h \in Desc : DeviceEnds(h) PROVE IInv'
  <2>1. UNCHANGED <<table, head, pc>>
    BY <1>7 DEF DeviceTakes, DeviceEnds, caller
  <2> QED
    BY <1>1, <2>1
<1>8. ASSUME UNCHANGED vars PROVE IInv'
  BY <1>1, <1>8 DEF vars, caller
<1> QED
  BY <1>2, <1>3, <1>4, <1>5, <1>6, <1>7, <1>8 DEF Next, Driver

-----------------------------------------------------------------------------
(* Who waits for descriptors *)

SleepersHeard ==
  /\ chan \in [Buf -> {"none", "free0", "buf"}]
  /\ \A b \in Buf : chan[b] = "free0" => Outstanding # {}

\* What is not free is three descriptors for each request that is out.
LEMMA BusyWhenFew ==
  ASSUME VirtioAssumption, IInv, ~EnoughFree
  PROVE  Outstanding # {}
<1> SUFFICES ASSUME Outstanding = {} PROVE EnoughFree
  OBVIOUS
<1>1. Cardinality(Outstanding) = 0
  BY FS_EmptySet
<1> QED
  BY <1>1, DescIsFinite DEF IInv, Counted, EnoughFree, VirtioAssumption

LEMMA SleepersNext ==
  ASSUME VirtioAssumption, IInv, SleepersHeard, [Next]_vars
  PROVE  SleepersHeard'
<1> USE DEF SleepersHeard
<1>1. pc \in [Buf -> {"idle", "alloc", "wait"}]
  BY DEF IInv, TableType
\* No new sleeper, and no request ends.
<1>2. ASSUME chan' \in [Buf -> {"none", "free0", "buf"}],
             \A c \in Buf : chan'[c] = "free0" => chan[c] = "free0",
             Outstanding \subseteq Outstanding'
      PROVE  SleepersHeard'
  BY <1>2
<1>3. ASSUME NEW b \in Buf, Call(b) PROVE SleepersHeard'
  <2>1. Outstanding \subseteq Outstanding' /\ chan' = chan
    BY <1>1, <1>3 DEF Call, Outstanding
  <2> QED
    BY <1>2, <2>1
<1>4. ASSUME NEW b \in Buf, AllocFails(b) PROVE SleepersHeard'
  <2>1. Outstanding # {} /\ Outstanding' = Outstanding
    BY <1>4, BusyWhenFew DEF AllocFails, Outstanding
  <2>2. chan' \in [Buf -> {"none", "free0", "buf"}]
    BY <1>4 DEF AllocFails, Wakeup
  <2> QED
    BY <2>1, <2>2
<1>5. ASSUME NEW b \in Buf, Submit(b) PROVE SleepersHeard'
  <2>1. Outstanding \subseteq Outstanding' /\ chan' = [chan EXCEPT ![b] = "buf"]
    BY <1>1, <1>5 DEF Submit, Outstanding
  <2> QED
    BY <1>2, <2>1
<1>6. ASSUME NEW b \in Buf, SleepAgain(b) \/ Kill(b) PROVE SleepersHeard'
  <2>1. /\ Outstanding' = Outstanding
        /\ chan' = [chan EXCEPT ![b] = "buf"] \/ chan' = [chan EXCEPT ![b] = "none"]
    BY <1>6 DEF SleepAgain, Kill, Outstanding
  <2> QED
    BY <1>2, <2>1
\* free_chain() wakes all of them.
<1>7. ASSUME NEW b \in Buf, Finish(b) PROVE SleepersHeard'
  <2>1. chan' = Wakeup("free0", chan)
    BY <1>7 DEF Finish
  <2>2. chan' \in [Buf -> {"none", "free0", "buf"}] /\ \A c \in Buf : chan'[c] # "free0"
    BY <2>1 DEF Wakeup
  <2> QED
    BY <2>2
<1>8. ASSUME Interrupt PROVE SleepersHeard'
  <2>1. UNCHANGED pc /\ (UNCHANGED chan \/ IntrLook)
    BY <1>8 DEF Interrupt, IntrEnter, IntrLook, IntrLeave, IntrAck, caller
  <2>2. ASSUME NEW b, chan' = OwnerWoken(b) PROVE SleepersHeard'
    <3>1. /\ chan' \in [Buf -> {"none", "free0", "buf"}]
          /\ \A c \in Buf : chan'[c] = "free0" => chan[c] = "free0"
      BY <2>2 DEF OwnerWoken
    <3> QED
      BY <1>2, <2>1, <3>1 DEF Outstanding
  <2>3. CASE UNCHANGED chan
    BY <1>2, <2>1, <2>3 DEF Outstanding
  <2>4. CASE IntrLook
    BY <2>2, <2>4 DEF IntrLook
  <2> QED
    BY <2>1, <2>3, <2>4
<1>9. ASSUME DeviceTakes \/ \E h \in Desc : DeviceEnds(h) PROVE SleepersHeard'
  <2>1. UNCHANGED <<pc, chan>>
    BY <1>9 DEF DeviceTakes, DeviceEnds, caller
  <2> QED
    BY <1>2, <2>1 DEF Outstanding
<1>10. ASSUME UNCHANGED vars PROVE SleepersHeard'
  BY <1>2, <1>10 DEF vars, caller, Outstanding
<1> QED
  BY <1>3, <1>4, <1>5, <1>6, <1>7, <1>8, <1>9, <1>10 DEF Next, Driver

-----------------------------------------------------------------------------
(* The rings *)

\* The requests in a ring; d slots after slot s; how far slot s is past slot t.
Held(ring) == {ring[s] : s \in Desc} \ {NoDesc}
After(s, d) == IF s + d < NUM THEN s + d ELSE s + d - NUM
Past(s, t) == IF s >= t THEN s - t ELSE s - t + NUM

Slot(ring, s, h) == [ring EXCEPT ![s] = h]

\* The c slots from slot t on, and no others, hold a request each, all different.
RingOf(ring, t, c) ==
  /\ ring \in [Desc -> 0..NUM] /\ t \in Desc /\ c \in 0..NUM
  /\ \A s \in Desc : ring[s] # NoDesc <=> Past(s, t) < c
  /\ \A r, s \in Desc : ring[r] = ring[s] /\ ring[s] # NoDesc => r = s
  /\ IsFiniteSet(Held(ring)) /\ Cardinality(Held(ring)) = c

\* A request is put into the slot after the last.
LEMMA RingPut ==
  ASSUME VirtioAssumption, NEW ring, NEW t, NEW c, RingOf(ring, t, c), c < NUM,
         NEW h \in Desc, h \notin Held(ring)
  PROVE  /\ RingOf(Slot(ring, After(t, c), h), t, c + 1)
         /\ Held(Slot(ring, After(t, c), h)) = Held(ring) \union {h}
<1> DEFINE s == After(t, c)
           new == Slot(ring, s, h)
<1>1. /\ NUM \in Nat /\ NUM >= 3 /\ t \in 0..NUM - 1 /\ c \in 0..NUM - 1 /\ Desc = 0..NUM - 1
      /\ NoDesc = NUM /\ h \in 0..NUM - 1
  BY DEF VirtioAssumption, Desc, NoDesc, RingOf
<1>2. s \in Desc /\ Past(s, t) = c
  BY <1>1 DEF After, Past, s
<1>3. ring[s] = NoDesc
  BY <1>1, <1>2 DEF RingOf
<1> HIDE DEF s
<1>4. new \in [Desc -> 0..NUM] /\ new[s] = h /\ \A r \in Desc \ {s} : new[r] = ring[r]
  BY <1>1, <1>2 DEF RingOf, Slot
<1> HIDE DEF new
<1>5. Held(new) = Held(ring) \union {h}
  <2>1. h # NoDesc /\ s \in Desc
    BY <1>1, <1>2
  <2>2. \A r \in Desc : ring[r] # NoDesc => r # s
    BY <1>3
  <2>3. Held(ring) \subseteq Held(new) /\ h \in Held(new)
    BY <1>4, <2>1, <2>2 DEF Held
  <2>4. Held(new) \subseteq Held(ring) \union {h}
    BY <1>4 DEF Held
  <2> QED
    BY <2>3, <2>4
<1>6. \A r \in Desc : new[r] # NoDesc <=> Past(r, t) < c + 1
  <2> SUFFICES ASSUME NEW r \in Desc, r # s PROVE ring[r] # NoDesc <=> Past(r, t) < c + 1
    BY <1>1, <1>2, <1>4
  <2>1. Past(r, t) # c /\ Past(r, t) \in Int
    BY <1>1 DEF After, Past, s
  <2> QED
    BY <1>1, <2>1 DEF RingOf
<1>7. \A q, r \in Desc : new[q] = new[r] /\ new[r] # NoDesc => q = r
  <2>1. \A r \in Desc : ring[r] # h
    BY <1>1 DEF Held
  <2> QED
    BY <1>2, <1>4, <2>1 DEF RingOf
<1>8. IsFiniteSet(Held(new)) /\ Cardinality(Held(new)) = c + 1
  <2> DEFINE H == Held(ring)
  <2>1. IsFiniteSet(H) /\ Cardinality(H) = c /\ h \notin H
    BY DEF RingOf
  <2> HIDE DEF H
  <2>2. IsFiniteSet(H \union {h}) /\ Cardinality(H \union {h}) = c + 1
    BY <2>1, FS_AddElement
  <2> QED
    BY <1>5, <2>2 DEF H
<1>9. c + 1 \in 0..NUM
  BY <1>1
<1>10. RingOf(new, t, c + 1)
  BY <1>1, <1>4, <1>6, <1>7, <1>8, <1>9 DEF RingOf
<1> QED
  BY <1>5, <1>10 DEF new, s

\* A request is taken from the first slot.
LEMMA RingTake ==
  ASSUME VirtioAssumption, NEW ring, NEW t, NEW c, RingOf(ring, t, c), c > 0
  PROVE  /\ ring[t] \in Held(ring) /\ ring[t] \in Desc
         /\ RingOf(Slot(ring, t, NoDesc), After(t, 1), c - 1)
         /\ Held(Slot(ring, t, NoDesc)) = Held(ring) \ {ring[t]}
<1> DEFINE new == Slot(ring, t, NoDesc)
<1>1. /\ NUM \in Nat /\ NUM >= 3 /\ t \in 0..NUM - 1 /\ c \in 1..NUM /\ Desc = 0..NUM - 1
      /\ NoDesc = NUM /\ t \in Desc
  BY DEF VirtioAssumption, Desc, NoDesc, RingOf
<1>2. Past(t, t) = 0
  BY <1>1 DEF Past
<1>3. ring[t] # NoDesc
  BY <1>1, <1>2 DEF RingOf
<1>4. ring[t] \in Held(ring) /\ ring[t] \in Desc
  BY <1>1, <1>3 DEF Held, RingOf
<1>5. new \in [Desc -> 0..NUM] /\ new[t] = NoDesc /\ \A r \in Desc \ {t} : new[r] = ring[r]
  BY <1>1 DEF RingOf, Slot
<1> HIDE DEF new
<1>6. Held(new) = Held(ring) \ {ring[t]}
  <2>1. \A r \in Desc \ {t} : ring[r] # ring[t]
    BY <1>1, <1>3 DEF RingOf
  <2> QED
    BY <1>1, <1>5, <2>1 DEF Held
<1>7. \A r \in Desc : new[r] # NoDesc <=> Past(r, After(t, 1)) < c - 1
  <2>1. Past(t, After(t, 1)) = NUM - 1
    BY <1>1 DEF After, Past
  <2>2. \A r \in Desc \ {t} : Past(r, After(t, 1)) = Past(r, t) - 1 /\ Past(r, t) \in Int
    BY <1>1 DEF After, Past
  <2>3. ~(NUM - 1 < c - 1)
    BY <1>1
  <2>4. \A r \in Desc \ {t} : ring[r] # NoDesc <=> Past(r, After(t, 1)) < c - 1
    BY <1>1, <2>2 DEF RingOf
  <2> QED
    BY <1>5, <2>1, <2>3, <2>4
<1>8. \A q, r \in Desc : new[q] = new[r] /\ new[r] # NoDesc => q = r
  BY <1>5 DEF RingOf
<1>9. IsFiniteSet(Held(new)) /\ Cardinality(Held(new)) = c - 1
  <2> DEFINE H == Held(ring)
             h == ring[t]
  <2>1. IsFiniteSet(H) /\ Cardinality(H) = c /\ h \in H
    BY <1>4 DEF RingOf
  <2> HIDE DEF H, h
  <2>2. IsFiniteSet(H \ {h}) /\ Cardinality(H \ {h}) = c - 1
    BY <2>1, FS_RemoveElement
  <2> QED
    BY <1>6, <2>2 DEF H, h
<1>10. After(t, 1) \in Desc /\ c - 1 \in 0..NUM
  BY <1>1 DEF After
<1>11. RingOf(new, After(t, 1), c - 1)
  BY <1>5, <1>7, <1>8, <1>9, <1>10 DEF RingOf
<1> QED
  BY <1>4, <1>6, <1>11 DEF new

\* All slots are empty.
LEMMA RingEmpty ==
  ASSUME VirtioAssumption
  PROVE  RingOf([s \in Desc |-> NoDesc], 0, 0) /\ Held([s \in Desc |-> NoDesc]) = {}
<1>1. NUM \in Nat /\ NUM >= 3 /\ Desc = 0..NUM - 1 /\ NoDesc = NUM
  BY DEF VirtioAssumption, Desc, NoDesc
<1>2. Held([s \in Desc |-> NoDesc]) = {}
  BY DEF Held
<1>3. \A s \in Desc : ~(Past(s, 0) < 0)
  BY <1>1 DEF Past
<1>4. [s \in Desc |-> NoDesc] \in [Desc -> 0..NUM] /\ 0 \in Desc /\ 0 \in 0..NUM
  BY <1>1
<1> QED
  BY <1>2, <1>3, <1>4, FS_EmptySet DEF RingOf

-----------------------------------------------------------------------------
(* Where a request is *)

OtherTypes ==
  /\ avail_idx \in 0..U16 - 1 /\ used_id \in 0..U16 - 1 /\ taken \in 0..U16 - 1
  /\ used_idx \in Desc
  /\ disk \subseteq Buf /\ working \subseteq Desc
  /\ isr \in BOOLEAN /\ intr \in {"idle", "loop", "ack"}
  /\ data \in [Buf -> Value] /\ store \in [Block -> Value]
  /\ request \in [Buf -> SUBSET BD!Request]
  /\ \A b \in Buf : pc[b] = "idle" => request[b] = {}
  /\ chan \in [Buf -> {"none", "free0", "buf"}]

\* How many requests the device has not looked at, and the driver.
WaitCount == IF avail_idx < taken THEN avail_idx + U16 - taken ELSE avail_idx - taken
UsedCount == Past(used_id % NUM, used_idx)

Rings ==
  /\ RingOf(avail, taken % NUM, WaitCount)
  /\ avail_idx % NUM = After(taken % NUM, WaitCount)
  /\ RingOf(used, used_idx, UsedCount)

Heads == {head[b] : b \in disk}

\* Each request that is not finished is in one place, and nothing else is there.
Places ==
  /\ disk \subseteq Outstanding
  /\ Heads = Held(avail) \union working \union Held(used)
  /\ Held(avail) \intersect working = {} /\ Held(avail) \intersect Held(used) = {}
  /\ working \intersect Held(used) = {}
  /\ Cardinality(Held(avail)) + Cardinality(working) + Cardinality(Held(used)) = Cardinality(disk)

RInv == OtherTypes /\ Rings /\ Places

\* The owner of a request that is out has its head descriptor in use and to
\* itself; so few are out that no ring is ever full.
LEMMA HeadsKnown ==
  ASSUME VirtioAssumption, IInv, RInv
  PROVE  /\ \A b \in disk : /\ b \in Buf /\ pc[b] = "wait" /\ head[b] \in Desc
                            /\ head[b] \notin FreeDescs /\ info[head[b]] = b
                            /\ addr[head[b]][2] = b /\ addr[next[head[b]]][2] = b
         /\ Heads \subseteq Desc \ FreeDescs
         /\ IsFiniteSet(disk) /\ Cardinality(disk) \in Nat
         /\ Cardinality(FreeDescs) \in Nat
         /\ 3 * Cardinality(disk) + Cardinality(FreeDescs) <= NUM
<1>1. disk \in SUBSET Outstanding
  BY DEF RInv, Places
<1>2. ASSUME NEW b \in disk
      PROVE  /\ b \in Buf /\ pc[b] = "wait" /\ head[b] \in Desc
             /\ head[b] \notin FreeDescs /\ info[head[b]] = b
             /\ addr[head[b]][2] = b /\ addr[next[head[b]]][2] = b
  <2>1. b \in Outstanding /\ ChainOf(b, head[b], next[head[b]], next[next[head[b]]])
    BY <1>1 DEF IInv, Chains
  <2> QED
    BY <2>1 DEF ChainOf, Outstanding
<1>3. Heads \subseteq Desc \ FreeDescs
  BY <1>2 DEF Heads
<1>4. /\ IsFiniteSet(disk) /\ Cardinality(disk) \in Nat /\ Cardinality(Outstanding) \in Nat
      /\ Cardinality(disk) <= Cardinality(Outstanding)
  BY <1>1, FS_Subset, FS_CardinalityType DEF IInv, Counted
<1>5. 3 * Cardinality(disk) + Cardinality(FreeDescs) <= NUM
  BY <1>4, DescIsFinite DEF IInv, Counted, VirtioAssumption
<1> QED
  BY <1>2, <1>3, <1>4, <1>5, DescIsFinite

\* How full the rings are.
LEMMA RingCounts ==
  ASSUME VirtioAssumption, IInv, RInv
  PROVE  /\ WaitCount \in Nat /\ UsedCount \in Nat /\ Cardinality(working) \in Nat
         /\ IsFiniteSet(working)
         /\ WaitCount + Cardinality(working) + UsedCount = Cardinality(disk)
<1>1. /\ Cardinality(Held(avail)) = WaitCount /\ Cardinality(Held(used)) = UsedCount
      /\ IsFiniteSet(Held(avail)) /\ IsFiniteSet(Held(used)) /\ working \in SUBSET Desc
  BY DEF RInv, Rings, RingOf, OtherTypes
<1>2. IsFiniteSet(working)
  BY <1>1, DescIsFinite, FS_Subset
<1> QED
  BY <1>1, <1>2, FS_CardinalityType DEF RInv, Places

\* avail_idx, used->id and the device's own counter.
LEMMA CounterOn ==
  ASSUME VirtioAssumption, NEW c \in 0..U16 - 1, NEW d, d = (c + 1) % U16
  PROVE  /\ NUM <= U16 /\ c % NUM \in Desc /\ d % NUM \in Desc /\ d \in 0..U16 - 1
         /\ d = IF c + 1 = U16 THEN 0 ELSE c + 1
         /\ d % NUM = After(c % NUM, 1)
<1>1. NUM \in Nat /\ Wraps(NUM, U16) /\ Ticks(c, d, U16)
  BY DEF VirtioAssumption, Wraps, Ticks
<1> DEFINE s == c % NUM
           r == d % NUM
<1>2. /\ NUM <= U16 /\ s \in 0..NUM - 1 /\ d \in 0..U16 - 1 /\ r \in 0..NUM - 1
      /\ (c + 1 = U16 => d = 0) /\ (c + 1 # U16 => d = c + 1)
      /\ (s + 1 = NUM => r = 0) /\ (s + 1 # NUM => r = s + 1)
  BY <1>1, CounterNext
<1> HIDE DEF s, r
<1>3. r = After(s, 1)
  BY <1>1, <1>2 DEF After
<1> QED
  BY <1>2, <1>3 DEF Desc, s, r

LEMMA InitR ==
  ASSUME VirtioAssumption, Init
  PROVE  RInv
<1>1. NUM \in Nat /\ NUM >= 3 /\ U16 \in Nat \ {0} /\ 0 \in Desc /\ 0 % NUM = 0
  <2>1. NUM \in Nat \ {0} /\ 0 \in 0..NUM - 1
    BY DEF VirtioAssumption
  <2> QED
    BY <2>1, ModBelow DEF VirtioAssumption, Desc
<1>2. OtherTypes
  <2>1. 0 \in 0..U16 - 1
    BY <1>1
  <2>2. request \in [Buf -> SUBSET BD!Request] /\ chan \in [Buf -> {"none", "free0", "buf"}]
    BY DEF Init
  <2> QED
    BY <1>1, <2>1, <2>2 DEF Init, OtherTypes
<1>3. WaitCount = 0 /\ UsedCount = 0 /\ taken % NUM = 0 /\ avail_idx % NUM = 0 /\ used_idx = 0
  BY <1>1 DEF Init, WaitCount, UsedCount, Past
<1>4. Rings
  <2>1. RingOf(avail, 0, 0) /\ RingOf(used, 0, 0)
    BY RingEmpty DEF Init
  <2>2. After(0, 0) = 0
    BY <1>1 DEF After
  <2> QED
    BY <1>3, <2>1, <2>2 DEF Rings
<1>5. Places
  <2>1. Held(avail) = {} /\ Held(used) = {} /\ disk = {} /\ working = {} /\ Heads = {}
    BY RingEmpty DEF Init, Heads
  <2> QED
    BY <2>1, FS_EmptySet DEF Places
<1> QED
  BY <1>2, <1>4, <1>5 DEF RInv

\* virtio_disk_rw() puts its request into an empty slot.
LEMMA SubmitR ==
  ASSUME VirtioAssumption, IInv, RInv, NEW b \in Buf, Submit(b)
  PROVE  /\ RInv' /\ Held(avail)' = Held(avail) \union {head'[b]}
         /\ head'[b] \in Desc /\ head'[b] \notin working
<1>1. PICK i : i = FirstThree[1]
  OBVIOUS
<1>2. /\ pc[b] = "alloc" /\ EnoughFree
      /\ avail' = [avail EXCEPT ![avail_idx % NUM] = i]
      /\ head' = [head EXCEPT ![b] = i] /\ avail_idx' = (avail_idx + 1) % U16
      /\ disk' = disk \union {b}
      /\ pc' = [pc EXCEPT ![b] = "wait"] /\ chan' = [chan EXCEPT ![b] = "buf"]
      /\ UNCHANGED <<used, used_id, used_idx, intr, data, request, store, taken, working, isr>>
  BY <1>1 DEF Submit, AvailSlot, device
<1>3. i \in FreeDescs /\ i \in Desc
  <2>1. <<i, FirstThree[2], FirstThree[3]>> = FirstThree
    BY <1>1 DEF FirstThree
  <2> QED
    BY <1>2, <2>1, ThreeTaken DEF FreeDescs
<1>4. /\ WaitCount \in Nat /\ WaitCount + 1 < NUM /\ NUM \in Nat /\ NUM >= 3
  <2>1. Cardinality(FreeDescs) >= 3
    BY <1>2 DEF EnoughFree
  <2> QED
    BY <2>1, HeadsKnown, RingCounts DEF VirtioAssumption
<1>5. i \notin Heads /\ b \notin disk /\ head[b] \in 0..NUM
  BY <1>2, <1>3, HeadsKnown DEF IInv, TableType
<1>6. i \notin Held(avail) /\ i \notin working /\ i \notin Held(used)
  BY <1>5 DEF RInv, Places
<1>7. /\ RingOf(avail', taken % NUM, WaitCount + 1)
      /\ Held(avail') = Held(avail) \union {i}
  <2>1. /\ RingOf(avail, taken % NUM, WaitCount) /\ WaitCount < NUM
        /\ avail_idx % NUM = After(taken % NUM, WaitCount)
    BY <1>4 DEF RInv, Rings
  <2>2. avail' = Slot(avail, After(taken % NUM, WaitCount), i)
    BY <1>2, <2>1 DEF Slot
  <2> QED
    BY <1>3, <1>6, <2>1, <2>2, RingPut
<1>8. avail_idx \in 0..U16 - 1 /\ taken \in 0..U16 - 1 /\ U16 \in Nat
  BY DEF RInv, OtherTypes, VirtioAssumption
<1>9. WaitCount' = WaitCount + 1
  <2>1. avail_idx' = (IF avail_idx + 1 = U16 THEN 0 ELSE avail_idx + 1) /\ taken' = taken
    BY <1>2, <1>8, CounterOn
  <2>2. WaitCount + 1 < U16
    BY <1>4, <1>8, CounterOn
  <2> QED
    BY <1>8, <2>1, <2>2 DEF WaitCount
<1>10. avail_idx' % NUM = After(taken % NUM, WaitCount + 1)
  <2>1. avail_idx' % NUM = After(avail_idx % NUM, 1) /\ taken % NUM \in Desc
    BY <1>2, <1>8, CounterOn
  <2>2. avail_idx % NUM = After(taken % NUM, WaitCount)
    BY DEF RInv, Rings
  <2> DEFINE t == taken % NUM
  <2>3. t \in 0..NUM - 1
    BY <2>1 DEF Desc
  <2> HIDE DEF t
  <2>4. After(After(t, WaitCount), 1) = After(t, WaitCount + 1)
    BY <1>4, <2>3 DEF After
  <2> QED
    BY <2>1, <2>2, <2>4 DEF t
<1>11. OtherTypes'
  <2>1. avail_idx' \in 0..U16 - 1
    BY <1>2, <1>8, CounterOn
  <2>2. \A c \in Buf : pc'[c] = "idle" => request'[c] = {}
    BY <1>2 DEF RInv, OtherTypes, IInv, TableType
  <2> QED
    BY <1>2, <2>1, <2>2 DEF RInv, OtherTypes
<1>12. Rings'
  <2>1. RingOf(used, used_idx, UsedCount) /\ UsedCount' = UsedCount
    BY <1>2 DEF RInv, Rings, UsedCount
  <2> QED
    BY <1>2, <1>7, <1>9, <1>10, <2>1 DEF Rings
<1>13. Heads' = Heads \union {i}
  BY <1>2, <1>5 DEF Heads, IInv, TableType, RInv, OtherTypes
<1>14. Places'
  <2>1. disk' \subseteq Outstanding'
    BY <1>2 DEF RInv, Places, Outstanding, IInv, TableType
  <2>2. Cardinality(Held(avail')) = Cardinality(Held(avail)) + 1
    BY <1>7, <1>4 DEF RInv, Rings, RingOf
  <2>3. Cardinality(disk') = Cardinality(disk) + 1
    BY <1>2, <1>5, HeadsKnown, FS_AddElement
  <2>4. Cardinality(Held(avail)) + Cardinality(working) + Cardinality(Held(used)) = Cardinality(disk)
    BY DEF RInv, Places
  <2>5. /\ Cardinality(Held(avail)) \in Nat /\ Cardinality(working) \in Nat
        /\ Cardinality(Held(used)) \in Nat /\ Cardinality(disk) \in Nat
    BY RingCounts, HeadsKnown DEF RInv, Rings, RingOf
  <2>6. Cardinality(Held(avail')) + Cardinality(working) + Cardinality(Held(used)) = Cardinality(disk')
    BY <2>2, <2>3, <2>4, <2>5
  <2>7. /\ Heads' = Held(avail') \union working \union Held(used)
        /\ Held(avail') \intersect working = {} /\ Held(avail') \intersect Held(used) = {}
        /\ working \intersect Held(used) = {}
    BY <1>6, <1>7, <1>13 DEF RInv, Places
  <2> QED
    BY <1>2, <2>1, <2>6, <2>7 DEF Places
<1>15. head'[b] = i
  BY <1>2 DEF IInv, TableType
<1> QED
  BY <1>3, <1>6, <1>7, <1>11, <1>12, <1>14, <1>15 DEF RInv

\* The device looks at the next request.
LEMMA TakesR ==
  ASSUME VirtioAssumption, IInv, RInv, DeviceTakes
  PROVE  /\ RInv' /\ Held(avail)' \union working' = Held(avail) \union working
<1>1. PICK h, t : h = avail[taken % NUM] /\ t = taken % NUM
  OBVIOUS
<1>2. /\ taken # avail_idx /\ working' = working \union {h}
      /\ avail' = Slot(avail, t, NoDesc) /\ taken' = (taken + 1) % U16
      /\ UNCHANGED <<table, avail_idx, used, used_id, used_idx, disk, intr, data, request,
                     pc, chan, head, store, isr>>
  BY <1>1 DEF DeviceTakes, Slot, caller
<1>3. avail_idx \in 0..U16 - 1 /\ taken \in 0..U16 - 1 /\ U16 \in Nat
  BY DEF RInv, OtherTypes, VirtioAssumption
<1>4. NUM \in Nat /\ NUM >= 3 /\ WaitCount \in Nat /\ WaitCount > 0 /\ WaitCount <= NUM
  <2>1. WaitCount > 0
    BY <1>2, <1>3 DEF WaitCount
  <2> QED
    BY <2>1 DEF RInv, Rings, RingOf, VirtioAssumption
<1>5. /\ h \in Held(avail) /\ h \in Desc
      /\ RingOf(avail', After(t, 1), WaitCount - 1)
      /\ Held(avail') = Held(avail) \ {h}
  <2>1. RingOf(avail, t, WaitCount)
    BY <1>1 DEF RInv, Rings
  <2> QED
    BY <1>1, <1>2, <1>4, <2>1, RingTake
<1>6. taken' = (IF taken + 1 = U16 THEN 0 ELSE taken + 1) /\ t \in Desc /\ taken' % NUM = After(t, 1)
      /\ taken' \in 0..U16 - 1
  BY <1>1, <1>2, <1>3, CounterOn
<1>7. WaitCount' = WaitCount - 1
  BY <1>2, <1>3, <1>6 DEF WaitCount
<1>8. avail_idx' % NUM = After(After(t, 1), WaitCount - 1)
  <2>1. avail_idx' % NUM = After(t, WaitCount)
    BY <1>1, <1>2 DEF RInv, Rings
  <2>2. t \in 0..NUM - 1
    BY <1>6 DEF Desc
  <2>3. After(t, WaitCount) = After(After(t, 1), WaitCount - 1)
    BY <1>4, <2>2 DEF After
  <2> QED
    BY <2>1, <2>3
<1>9. OtherTypes'
  BY <1>2, <1>5, <1>6 DEF RInv, OtherTypes
<1>10. Rings'
  <2>1. RingOf(used, used_idx, UsedCount) /\ UsedCount' = UsedCount
    BY <1>2 DEF RInv, Rings, UsedCount
  <2> QED
    BY <1>2, <1>5, <1>6, <1>7, <1>8, <2>1 DEF Rings
<1>11. Places'
  <2>1. h \notin working /\ h \notin Held(used)
    BY <1>5 DEF RInv, Places
  <2>2. Cardinality(Held(avail')) = Cardinality(Held(avail)) - 1
    BY <1>4, <1>5 DEF RInv, Rings, RingOf
  <2>3. Cardinality(working') = Cardinality(working) + 1
    BY <1>2, <2>1, RingCounts, FS_AddElement
  <2>4. Cardinality(Held(avail)) + Cardinality(working) + Cardinality(Held(used)) = Cardinality(disk)
    BY DEF RInv, Places
  <2>5. /\ Cardinality(Held(avail)) \in Nat /\ Cardinality(working) \in Nat
        /\ Cardinality(Held(used)) \in Nat /\ Cardinality(disk) \in Nat
    BY RingCounts, HeadsKnown DEF RInv, Rings, RingOf
  <2>6. Cardinality(Held(avail')) + Cardinality(working') + Cardinality(Held(used)) = Cardinality(disk)
    BY <2>2, <2>3, <2>4, <2>5
  <2>7. /\ Heads = Held(avail') \union working' \union Held(used)
        /\ Held(avail') \intersect working' = {} /\ Held(avail') \intersect Held(used) = {}
        /\ working' \intersect Held(used) = {}
    BY <1>2, <1>5, <2>1 DEF RInv, Places
  <2>8. Heads' = Heads /\ disk' = disk /\ Outstanding' = Outstanding /\ used' = used
    BY <1>2 DEF Heads, Outstanding
  <2> QED
    BY <2>6, <2>7, <2>8 DEF RInv, Places
<1> QED
  BY <1>2, <1>5, <1>9, <1>10, <1>11 DEF RInv

\* The device ends one of the requests it works on: that of one buffer.
LEMMA EndsR ==
  ASSUME VirtioAssumption, IInv, RInv, NEW h \in Desc, DeviceEnds(h)
  PROVE  RInv'
<1>1. /\ h \in working /\ DeviceTransfers(h) /\ working' = working \ {h}
      /\ used' = Slot(used, used_id % NUM, h) /\ used_id' = (used_id + 1) % U16
      /\ isr' = TRUE
      /\ UNCHANGED <<table, avail, avail_idx, used_idx, disk, intr, request, pc, chan, head, taken>>
  BY DEF DeviceEnds, Slot, caller
<1>2. PICK b \in disk : h = head[b]
  BY <1>1 DEF RInv, Places, Heads
<1>3. used_id \in 0..U16 - 1 /\ used_idx \in Desc
  BY DEF RInv, OtherTypes
<1>4. /\ NUM \in Nat /\ NUM >= 3 /\ UsedCount \in Nat /\ UsedCount + 1 < NUM
      /\ IsFiniteSet(working) /\ Cardinality(working \ {h}) = Cardinality(working) - 1
      /\ Cardinality(working) \in Nat
  <2>1. IsFiniteSet(working) /\ Cardinality(working \ {h}) = Cardinality(working) - 1
    BY <1>1, RingCounts, FS_RemoveElement
  <2>2. Cardinality(working \ {h}) \in Nat
    BY <1>1, <2>1, FS_RemoveElement, FS_CardinalityType
  <2> QED
    BY <2>1, <2>2, RingCounts, HeadsKnown DEF VirtioAssumption
<1>5. h \notin Held(used) /\ h \notin Held(avail)
  BY <1>1 DEF RInv, Places
<1>6. PICK u : u = used_id % NUM
  OBVIOUS
<1>7. used_id' \in 0..U16 - 1 /\ u \in Desc /\ used_id' % NUM = After(u, 1)
  BY <1>1, <1>3, <1>6, CounterOn
<1>8. u \in 0..NUM - 1 /\ used_idx \in 0..NUM - 1
  BY <1>3, <1>7 DEF Desc
<1>9. u = After(used_idx, UsedCount) /\ UsedCount' = UsedCount + 1
  <2>1. UsedCount = Past(u, used_idx) /\ UsedCount' = Past(After(u, 1), used_idx)
    BY <1>1, <1>6, <1>7 DEF UsedCount
  <2> QED
    BY <1>4, <1>8, <2>1 DEF Past, After
<1>10. RingOf(used', used_idx, UsedCount + 1) /\ Held(used') = Held(used) \union {h}
  <2>1. RingOf(used, used_idx, UsedCount) /\ UsedCount < NUM
    BY <1>4 DEF RInv, Rings
  <2>2. used' = Slot(used, After(used_idx, UsedCount), h)
    BY <1>1, <1>6, <1>9
  <2> QED
    BY <1>5, <2>1, <2>2, RingPut
<1>11. OtherTypes'
  <2>1. data' \in [Buf -> Value] /\ store' \in [Block -> Value]
    <3>1. addr[h][2] = b /\ addr[next[h]][2] = b /\ b \in Buf
      BY <1>2, HeadsKnown
    <3>2. PICK r \in request[b] :
            IF r.write
            THEN store' = [store EXCEPT ![r.block] = data[b]] /\ UNCHANGED data
            ELSE data' = [data EXCEPT ![b] = store[r.block]] /\ UNCHANGED store
      BY <1>1, <3>1 DEF DeviceTransfers, HeaderOwner
    <3>3. r.block \in Block
      BY <3>1, <3>2 DEF RInv, OtherTypes, BD!Request
    <3> QED
      BY <3>1, <3>2, <3>3 DEF RInv, OtherTypes
  <2> QED
    BY <1>1, <1>7, <2>1 DEF RInv, OtherTypes
<1>12. Rings'
  <2>1. WaitCount' = WaitCount
    BY <1>1 DEF WaitCount
  <2> QED
    BY <1>1, <1>9, <1>10, <2>1 DEF RInv, Rings
<1>13. Places'
  <2>1. Cardinality(Held(used')) = Cardinality(Held(used)) + 1
    BY <1>4, <1>10 DEF RInv, Rings, RingOf
  <2>2. Cardinality(Held(avail)) + Cardinality(working) + Cardinality(Held(used)) = Cardinality(disk)
    BY DEF RInv, Places
  <2>3. /\ Cardinality(Held(avail)) \in Nat /\ Cardinality(Held(used)) \in Nat
        /\ Cardinality(disk) \in Nat
    BY RingCounts, HeadsKnown DEF RInv, Rings, RingOf
  <2>4. Cardinality(Held(avail)) + Cardinality(working') + Cardinality(Held(used')) = Cardinality(disk)
    BY <1>1, <1>4, <2>1, <2>2, <2>3
  <2>5. /\ Heads = Held(avail) \union working' \union Held(used')
        /\ Held(avail) \intersect working' = {} /\ Held(avail) \intersect Held(used') = {}
        /\ working' \intersect Held(used') = {}
    BY <1>1, <1>5, <1>10 DEF RInv, Places
  <2>6. Heads' = Heads /\ disk' = disk /\ Outstanding' = Outstanding /\ avail' = avail
    BY <1>1 DEF Heads, Outstanding
  <2> QED
    BY <2>4, <2>5, <2>6 DEF RInv, Places
<1> QED
  BY <1>11, <1>12, <1>13 DEF RInv

\* virtio_disk_intr() looks at one completion: b->disk = 0 for its buffer.
LEMMA LookR ==
  ASSUME VirtioAssumption, IInv, RInv, IntrLook
  PROVE  RInv'
<1>1. PICK h : h = used[used_idx]
  OBVIOUS
<1>2. /\ MoreUsed /\ disk' = disk \ {info[h]} /\ chan' = OwnerWoken(info[h])
      /\ used' = Slot(used, used_idx, NoDesc) /\ used_idx' = UsedNext
      /\ UNCHANGED <<table, avail, avail_idx, used_id, intr, data, request, pc, head,
                     store, taken, working, isr>>
  BY <1>1 DEF IntrLook, Slot, device
<1>3. /\ NUM \in Nat /\ NUM >= 3 /\ used_idx \in 0..NUM - 1 /\ used_id \in 0..U16 - 1
      /\ NUM \in Nat \ {0}
  BY DEF RInv, OtherTypes, Desc, VirtioAssumption
<1>4. PICK u : u = used_id % NUM /\ u \in 0..NUM - 1 /\ used_idx % NUM = used_idx
  <2>1. used_idx % NUM = used_idx
    BY <1>3, ModBelow
  <2>2. used_id % NUM \in Desc
    BY <1>3, CounterOn
  <2> QED
    BY <2>1, <2>2 DEF Desc
<1>5. UsedCount = Past(u, used_idx) /\ UsedCount > 0 /\ UsedCount \in Nat /\ UsedCount <= NUM
  <2>1. UsedCount = Past(u, used_idx)
    BY <1>4 DEF UsedCount
  <2>2. u # used_idx
    BY <1>2, <1>4 DEF MoreUsed
  <2> QED
    BY <1>3, <1>4, <2>1, <2>2 DEF Past
<1>6. used_idx' = After(used_idx, 1) /\ used_idx' \in Desc
  <2>1. used_idx \in Nat /\ 1 \in 0..NUM - 1
    BY <1>3
  <2>2. (used_idx + 1) % NUM = IF (used_idx % NUM) + 1 < NUM THEN (used_idx % NUM) + 1
                               ELSE (used_idx % NUM) + 1 - NUM
    BY <1>3, <2>1, ModPlus
  <2>3. used_idx' = IF used_idx + 1 < NUM THEN used_idx + 1 ELSE used_idx + 1 - NUM
    BY <1>2, <1>4, <2>2 DEF UsedNext
  <2>4. used_idx' \in 0..NUM - 1
    BY <1>3, <2>3
  <2> QED
    BY <2>3, <2>4 DEF After, Desc
<1>7. UsedCount' = UsedCount - 1
  <2>1. UsedCount' = Past(u, After(used_idx, 1))
    BY <1>2, <1>4, <1>6 DEF UsedCount
  <2> QED
    BY <1>3, <1>4, <1>5, <2>1 DEF Past, After
<1>8. /\ h \in Held(used) /\ h \in Desc
      /\ RingOf(used', After(used_idx, 1), UsedCount - 1)
      /\ Held(used') = Held(used) \ {h}
  <2>1. RingOf(used, used_idx, UsedCount)
    BY DEF RInv, Rings
  <2> QED
    BY <1>1, <1>2, <1>5, <2>1, RingTake
<1>9. PICK b \in disk : h = head[b] /\ b \in Buf /\ info[h] = b
  <2>1. PICK b \in disk : h = head[b]
    BY <1>8 DEF RInv, Places, Heads
  <2> QED
    BY <2>1, HeadsKnown
<1>10. OtherTypes'
  <2>1. chan' \in [Buf -> {"none", "free0", "buf"}]
    BY <1>2, <1>9 DEF OwnerWoken, RInv, OtherTypes
  <2> QED
    BY <1>2, <1>6, <2>1 DEF RInv, OtherTypes
<1>11. Rings'
  <2>1. WaitCount' = WaitCount
    BY <1>2 DEF WaitCount
  <2> QED
    BY <1>2, <1>6, <1>7, <1>8, <2>1 DEF RInv, Rings
<1>12. Places'
  <2>1. Cardinality(Held(used')) = Cardinality(Held(used)) - 1
    BY <1>5, <1>8 DEF RInv, Rings, RingOf
  <2>2. Cardinality(disk') = Cardinality(disk) - 1
    BY <1>2, <1>9, HeadsKnown, FS_RemoveElement
  <2>3. Cardinality(Held(avail)) + Cardinality(working) + Cardinality(Held(used)) = Cardinality(disk)
    BY DEF RInv, Places
  <2>4. /\ Cardinality(Held(avail)) \in Nat /\ Cardinality(working) \in Nat
        /\ Cardinality(Held(used)) \in Nat /\ Cardinality(disk) \in Nat
    BY RingCounts, HeadsKnown DEF RInv, Rings, RingOf
  <2>5. Cardinality(Held(avail)) + Cardinality(working) + Cardinality(Held(used')) = Cardinality(disk')
    BY <2>1, <2>2, <2>3, <2>4
  <2>6. Heads' = Heads \ {h}
    <3>1. \A c \in disk : c # b => head[c] # h
      BY <1>9, HeadsKnown
    <3> QED
      BY <1>2, <1>9, <3>1 DEF Heads
  <2>7. /\ Heads' = Held(avail) \union working \union Held(used')
        /\ Held(avail) \intersect working = {} /\ Held(avail) \intersect Held(used') = {}
        /\ working \intersect Held(used') = {}
    BY <1>8, <2>6 DEF RInv, Places
  <2>8. disk' \subseteq Outstanding' /\ avail' = avail /\ working' = working
    BY <1>2 DEF RInv, Places, Outstanding
  <2> QED
    BY <2>5, <2>7, <2>8 DEF Places
<1> QED
  BY <1>10, <1>11, <1>12 DEF RInv

\* The other steps move no request.
LEMMA PlacesKept ==
  ASSUME RInv, UNCHANGED <<rings, used_idx, disk, taken, working>>, OtherTypes',
         \A b \in disk : head'[b] = head[b], disk \subseteq Outstanding'
  PROVE  RInv'
<1>1. WaitCount' = WaitCount /\ UsedCount' = UsedCount
  BY DEF WaitCount, UsedCount, rings
<1>2. Rings'
  BY <1>1 DEF RInv, Rings, rings
<1>3. Places'
  BY DEF RInv, Places, Heads, rings
<1> QED
  BY <1>2, <1>3 DEF RInv

LEMMA CallR ==
  ASSUME VirtioAssumption, IInv, RInv, NEW b \in Buf, Call(b)
  PROVE  RInv'
<1>1. PICK r \in BD!Request, v \in Value :
        /\ pc' = [pc EXCEPT ![b] = "alloc"] /\ pc[b] = "idle"
        /\ request' = [request EXCEPT ![b] = {r}] /\ data' = [data EXCEPT ![b] = v]
        /\ UNCHANGED <<rings, used_idx, disk, intr, chan, head, store, taken, working, isr>>
  BY DEF Call, device
<1>2. pc \in [Buf -> {"idle", "alloc", "wait"}]
  BY DEF IInv, TableType
<1>3. OtherTypes'
  <2>1. /\ data' \in [Buf -> Value] /\ request' \in [Buf -> SUBSET BD!Request]
        /\ \A c \in Buf : pc'[c] = "idle" => request'[c] = {}
    BY <1>1, <1>2 DEF RInv, OtherTypes
  <2> QED
    BY <1>1, <2>1 DEF RInv, OtherTypes, rings
<1>4. disk \subseteq Outstanding'
  BY <1>1, <1>2 DEF RInv, Places, Outstanding
<1> QED
  BY <1>1, <1>3, <1>4, PlacesKept

LEMMA FinishR ==
  ASSUME VirtioAssumption, IInv, RInv, NEW b \in Buf, Finish(b)
  PROVE  RInv'
<1>1. /\ pc' = [pc EXCEPT ![b] = "idle"] /\ b \notin disk
      /\ request' = [request EXCEPT ![b] = {}] /\ chan' = Wakeup("free0", chan)
      /\ head' = [head EXCEPT ![b] = NoDesc]
      /\ UNCHANGED <<rings, used_idx, disk, intr, data, store, taken, working, isr>>
  BY DEF Finish, StillBusy, device
<1>2. pc \in [Buf -> {"idle", "alloc", "wait"}] /\ head \in [Buf -> 0..NUM]
  BY DEF IInv, TableType
<1>3. OtherTypes'
  <2>1. /\ request' \in [Buf -> SUBSET BD!Request] /\ chan' \in [Buf -> {"none", "free0", "buf"}]
        /\ \A c \in Buf : pc'[c] = "idle" => request'[c] = {}
    BY <1>1, <1>2 DEF RInv, OtherTypes, Wakeup
  <2> QED
    BY <1>1, <2>1 DEF RInv, OtherTypes, rings
<1>4. disk \subseteq Outstanding' /\ \A c \in disk : head'[c] = head[c]
  BY <1>1, <1>2 DEF RInv, Places, Outstanding
<1> QED
  BY <1>1, <1>3, <1>4, PlacesKept

LEMMA NextR ==
  ASSUME VirtioAssumption, IInv, RInv, [Next]_vars
  PROVE  RInv'
\* Only who sleeps, or how far the interrupt is.
<1>1. ASSUME UNCHANGED <<rings, used_idx, disk, taken, working, data, store, request, pc, head>>,
             chan' \in [Buf -> {"none", "free0", "buf"}], isr' \in BOOLEAN,
             intr' \in {"idle", "loop", "ack"}
      PROVE  RInv'
  <2>1. OtherTypes'
    BY <1>1 DEF RInv, OtherTypes, rings
  <2>2. disk \subseteq Outstanding'
    BY <1>1 DEF RInv, Places, Outstanding
  <2> QED
    BY <1>1, <2>1, <2>2, PlacesKept
<1>2. ASSUME NEW b \in Buf, AllocFails(b) \/ SleepAgain(b) \/ Kill(b) PROVE RInv'
  <2>1. UNCHANGED <<rings, used_idx, disk, intr, data, request, pc, head, store, taken, working, isr>>
    BY <1>2 DEF AllocFails, SleepAgain, Kill, device
  <2>2. chan' \in [Buf -> {"none", "free0", "buf"}]
    BY <1>2 DEF AllocFails, SleepAgain, Kill, Wakeup, RInv, OtherTypes
  <2> QED
    BY <1>1, <2>1, <2>2 DEF RInv, OtherTypes
<1>3. ASSUME IntrEnter \/ IntrLeave \/ IntrAck PROVE RInv'
  <2>1. /\ UNCHANGED <<rings, used_idx, disk, data, request, pc, chan, head, store, taken, working>>
        /\ isr' \in BOOLEAN /\ intr' \in {"idle", "loop", "ack"}
    BY <1>3 DEF IntrEnter, IntrLeave, IntrAck, caller, device, RInv, OtherTypes
  <2> QED
    BY <1>1, <2>1 DEF RInv, OtherTypes
<1>4. CASE UNCHANGED vars
  BY <1>1, <1>4 DEF vars, caller, device, RInv, OtherTypes
<1> QED
  BY <1>2, <1>3, <1>4, CallR, SubmitR, FinishR, LookR, TakesR, EndsR DEF Next, Driver, Interrupt

-----------------------------------------------------------------------------
(* Theorems *)

LEMMA InvAlways ==
  ASSUME VirtioAssumption
  PROVE  Spec => []IInv
<1>1. Init => IInv
  BY InitInv
<1>2. IInv /\ [Next]_vars => IInv'
  BY NextInv
<1> QED
  BY <1>1, <1>2, PTL DEF Spec

\* No two requests share a descriptor and no descriptor is lost, however many
\* there are of both and in whatever order they are submitted and completed:
\* alloc3_desc() and free_chain() of virtio_disk.c.
THEOREM DescriptorsKept ==
  ASSUME VirtioAssumption
  PROVE  Spec => []ChainsDisjoint
<1>1. IInv => ChainsDisjoint
  <2> SUFFICES ASSUME IInv PROVE ChainsDisjoint
    OBVIOUS
  <2>1. ASSUME NEW b \in Outstanding
        PROVE  LET i == head[b]  j == next[i]  k == next[j] IN
               /\ Cardinality({i, j, k}) = 3 /\ {i, j, k} \subseteq Desc \ FreeDescs
               /\ next[k] = NoDesc /\ info[i] = b
               /\ addr[i] = <<"header", b>> /\ addr[j] = <<"data", b>>
               /\ addr[k] = <<"status", b>>
    <3> DEFINE i == head[b]  j == next[i]  k == next[j]
    <3>1. ChainOf(b, i, j, k)
      BY DEF IInv, Chains
    <3> HIDE DEF i, j, k
    <3>2. Cardinality({i, j, k}) = 3
      <4>1. i # j /\ i # k /\ j # k
        BY <3>1 DEF ChainOf
      <4> QED
        BY <4>1, ThreeAre, Zenon
    <3>3. /\ {i, j, k} \subseteq Desc \ FreeDescs /\ next[k] = NoDesc /\ info[i] = b
          /\ addr[i] = <<"header", b>> /\ addr[j] = <<"data", b>> /\ addr[k] = <<"status", b>>
      BY <3>1 DEF ChainOf
    <3> QED
      BY <3>2, <3>3 DEF i, j, k
  <2>2. Cardinality(FreeDescs) + 3 * Cardinality(Outstanding) = NUM
    BY DEF IInv, Counted
  <2> QED
    BY <2>1, <2>2, Zenon DEF ChainsDisjoint
<1> QED
  BY <1>1, InvAlways, PTL

\* Whoever sleeps for descriptors in virtio_disk_rw() sleeps while a request is
\* out: free_desc() will wake it when that request is finished.
THEOREM DescSleeperWoken ==
  ASSUME VirtioAssumption
  PROVE  Spec => []SleepersHeard
<1>1. Init => SleepersHeard
  BY DEF Init, SleepersHeard
<1>2. IInv /\ SleepersHeard /\ [Next]_vars => SleepersHeard'
  BY SleepersNext
<1> QED
  BY <1>1, <1>2, InvAlways, PTL DEF Spec

LEMMA RInvAlways ==
  ASSUME VirtioAssumption
  PROVE  Spec => []RInv
<1>1. Init => RInv
  BY InitR
<1>2. IInv /\ RInv /\ [Next]_vars => RInv'
  BY NextR
<1> QED
  BY <1>1, <1>2, InvAlways, PTL DEF Spec

\* The slots between the counters are the slots in use.
LEMMA WaitingInFlight ==
  ASSUME VirtioAssumption, IInv, RInv
  PROVE  Held(avail) = InFlight(avail, taken, avail_idx)
<1>1. /\ NUM \in Nat /\ NUM >= 3 /\ U16 \in Nat /\ avail_idx \in 0..U16 - 1 /\ taken \in 0..U16 - 1
      /\ NUM \in Nat \ {0} /\ NUM <= U16 /\ Desc = 0..NUM - 1
  BY CounterOn DEF RInv, OtherTypes, VirtioAssumption, Desc
<1>2. PICK t : t = taken % NUM /\ t \in 0..NUM - 1
  <2>1. taken % NUM \in Desc
    BY <1>1, CounterOn
  <2> QED
    BY <2>1 DEF Desc
<1>3. WaitCount \in 0..NUM - 1 /\ RingOf(avail, t, WaitCount)
  BY <1>1, <1>2, RingCounts, HeadsKnown DEF RInv, Rings
<1>4. \A d \in 0..NUM - 1 : (taken + d) % NUM = After(t, d)
  <2> SUFFICES ASSUME NEW d \in 0..NUM - 1 PROVE (taken + d) % NUM = After(t, d)
    OBVIOUS
  <2>1. taken \in Nat
    BY <1>1
  <2>2. (taken + d) % NUM = IF (taken % NUM) + d < NUM THEN (taken % NUM) + d
                            ELSE (taken % NUM) + d - NUM
    BY <1>1, <2>1, ModPlus
  <2> QED
    BY <1>2, <2>2 DEF After
<1>5. WaitCount = (IF avail_idx < taken THEN avail_idx + U16 ELSE avail_idx) - taken
  BY <1>1 DEF WaitCount
<1> DEFINE between == {j \in 0..2 * U16 :
                          taken <= j /\ j < (IF avail_idx < taken THEN avail_idx + U16 ELSE avail_idx)}
<1>6. between = {taken + d : d \in 0..WaitCount - 1}
  <2>1. ASSUME NEW j \in between PROVE j \in {taken + d : d \in 0..WaitCount - 1}
    <3>1. j - taken \in 0..WaitCount - 1 /\ j = taken + (j - taken)
      BY <1>1, <1>3, <1>5
    <3> QED
      BY <3>1
  <2>2. ASSUME NEW d \in 0..WaitCount - 1 PROVE taken + d \in between
    <3>1. taken + d \in 0..2 * U16
      BY <1>1, <1>3
    <3>2. taken <= taken + d
      BY <1>1, <1>3
    <3>3. taken + d < (IF avail_idx < taken THEN avail_idx + U16 ELSE avail_idx)
      BY <1>1, <1>3, <1>5
    <3> QED
      BY <3>1, <3>2, <3>3
  <2> QED
    BY <2>1, <2>2
<1>7. InFlight(avail, taken, avail_idx) = {avail[j % NUM] : j \in between}
  BY DEF InFlight
<1> HIDE DEF between
<1>8. InFlight(avail, taken, avail_idx) = {avail[After(t, d)] : d \in 0..WaitCount - 1}
  BY <1>3, <1>4, <1>6, <1>7
<1>9. \A d \in 0..WaitCount - 1 : After(t, d) \in Desc /\ Past(After(t, d), t) = d
  BY <1>1, <1>2, <1>3 DEF After, Past
<1>10. \A s \in Desc : Past(s, t) \in Nat /\ After(t, Past(s, t)) = s
  BY <1>1, <1>2 DEF After, Past
<1>11. ASSUME NEW h \in Held(avail) PROVE h \in InFlight(avail, taken, avail_idx)
  <2>1. PICK s \in Desc : h = avail[s] /\ avail[s] # NoDesc
    BY DEF Held
  <2>2. Past(s, t) < WaitCount /\ Past(s, t) \in Nat /\ After(t, Past(s, t)) = s
    BY <1>3, <1>10, <2>1 DEF RingOf
  <2>3. Past(s, t) \in 0..WaitCount - 1
    BY <1>3, <2>2
  <2> QED
    BY <1>8, <2>1, <2>2, <2>3
<1>12. ASSUME NEW d \in 0..WaitCount - 1 PROVE avail[After(t, d)] \in Held(avail)
  <2>1. Past(After(t, d), t) < WaitCount /\ After(t, d) \in Desc
    BY <1>3, <1>9
  <2> QED
    BY <1>3, <2>1 DEF RingOf, Held
<1> QED
  BY <1>8, <1>11, <1>12

\* No request gets mixed up with another, however the submissions of
\* virtio_disk_rw(), the completions and the wakeups of virtio_disk_intr() fall
\* together: each is whole, and in one place.
THEOREM RequestsKeptWhole ==
  ASSUME VirtioAssumption
  PROVE  Spec => []RequestsWhole
<1>1. ASSUME IInv, RInv, ChainsDisjoint PROVE RequestsWhole
  <2>1. TypeOK
    BY <1>1 DEF IInv, TableType, Tagged, RInv, OtherTypes, Rings, RingOf, TypeOK
  <2>2. OnePlace
    <3>1. Held(avail) = InFlight(avail, taken, avail_idx)
      BY <1>1, WaitingInFlight
    <3>2. /\ {Held(avail), working, Held(used)} \subseteq SUBSET Heads
          /\ Cardinality(Held(avail)) + Cardinality(working) + Cardinality(Held(used))
               = Cardinality(disk)
      BY <1>1 DEF RInv, Places
    <3> QED
      BY <3>1, <3>2 DEF OnePlace, InUsed, Held, Heads
  <2> QED
    BY <1>1, <2>1, <2>2 DEF RequestsWhole
<1> QED
  BY <1>1, InvAlways, RInvAlways, DescriptorsKept, PTL

-----------------------------------------------------------------------------
(* The driver and the device implement BlockDevice *)

\* The requests that have taken place and whose callers have not yet returned.
Done == {b \in Buf : /\ pc[b] = "wait" /\ head[b] \notin working
                     /\ \A i \in Desc : avail[i] # head[b]}

\* The head of a request that is out tells whose it is.
LEMMA DoneIs ==
  ASSUME VirtioAssumption, IInv
  PROVE  /\ Done = {b \in Outstanding : head[b] \notin working \union Held(avail)}
         /\ \A b \in Outstanding : /\ head[b] \in Desc /\ head[b] \notin FreeDescs
                                   /\ info[head[b]] = b
<1>1. ASSUME NEW b \in Outstanding
      PROVE  head[b] \in Desc /\ head[b] \notin FreeDescs /\ info[head[b]] = b
  BY DEF IInv, Chains, ChainOf
<1>2. NoDesc \notin Desc
  BY DEF Desc, NoDesc, VirtioAssumption
<1> QED
  BY <1>1, <1>2 DEF Done, Outstanding, Held

LEMMA HeldNot ==
  ASSUME VirtioAssumption, NEW ring, NEW h \in Desc
  PROVE  h \notin Held(ring) <=> \A i \in Desc : ring[i] # h
BY DEF Held, Desc, NoDesc, VirtioAssumption

\* What a step that leaves the requests alone leaves alone.
LEMMA DoneKept ==
  ASSUME UNCHANGED <<avail, working, pc, head>>
  PROVE  Done' = Done
BY DEF Done

LEMMA CallStep ==
  ASSUME VirtioAssumption, IInv, RInv, NEW b \in Buf, Call(b)
  PROVE  request[b] = {} /\ Done' = Done
<1>1. /\ pc[b] = "idle" /\ pc' = [pc EXCEPT ![b] = "alloc"]
      /\ UNCHANGED <<avail, working, head>>
  BY DEF Call, rings, device
<1>2. request[b] = {}
  BY <1>1 DEF RInv, OtherTypes
<1>3. Done' = Done
  BY <1>1 DEF Done, IInv, TableType
<1> QED
  BY <1>2, <1>3

LEMMA SubmitStep ==
  ASSUME VirtioAssumption, IInv, RInv, NEW b \in Buf, Submit(b)
  PROVE  Done' = Done
<1>1. PICK i : i = head'[b] /\ Held(avail)' = Held(avail) \union {i} /\ i \in Desc
  BY SubmitR
<1>2. /\ head' = [head EXCEPT ![b] = i] /\ pc' = [pc EXCEPT ![b] = "wait"] /\ pc[b] = "alloc"
      /\ working' = working /\ i = FirstThree[1] /\ EnoughFree
  BY <1>1 DEF Submit, device, IInv, TableType
<1>3. i \in FreeDescs
  <2>1. <<i, FirstThree[2], FirstThree[3]>> = FirstThree
    BY <1>2 DEF FirstThree
  <2> QED
    BY <1>2, <2>1, ThreeTaken
<1>4. Outstanding' = Outstanding \union {b} /\ b \notin Outstanding
  BY <1>2 DEF Outstanding, IInv, TableType
<1>5. \A c \in Outstanding : head'[c] = head[c] /\ head[c] # i
  BY <1>2, <1>3, <1>4, DoneIs DEF Outstanding, IInv, TableType
<1>6. Done' = {c \in Outstanding' : head'[c] \notin working \union Held(avail)'}
  <2>1. \A c \in Outstanding' : head'[c] \in Desc
    BY <1>1, <1>2, <1>4, <1>5, DoneIs
  <2>2. \A c \in Outstanding' : head'[c] \notin Held(avail)' <=> \A d \in Desc : avail'[d] # head'[c]
    BY <2>1, HeldNot
  <2> QED
    BY <1>2, <2>2 DEF Done, Outstanding
<1>7. Done = {c \in Outstanding : head[c] \notin working \union Held(avail)}
  BY DoneIs
<1> QED
  BY <1>1, <1>4, <1>5, <1>6, <1>7

\* A caller returns only when its request has taken place.
LEMMA FinishStep ==
  ASSUME VirtioAssumption, IInv, RInv, NEW b \in Buf, Finish(b)
  PROVE  b \in Done /\ Done' = Done \ {b}
<1>1. /\ pc[b] = "wait" /\ b \notin disk /\ pc' = [pc EXCEPT ![b] = "idle"]
      /\ head' = [head EXCEPT ![b] = NoDesc] /\ UNCHANGED <<avail, working>>
  BY DEF Finish, StillBusy, rings, device
<1>2. b \in Outstanding
  BY <1>1 DEF Outstanding
<1>3. head[b] \notin Heads
  <2>1. \A c \in disk : info[head[c]] = c
    BY HeadsKnown
  <2> QED
    BY <1>1, <1>2, <2>1, DoneIs DEF Heads
<1>4. b \in Done
  BY <1>2, <1>3, DoneIs DEF RInv, Places
<1>5. Done' = Done \ {b}
  BY <1>1 DEF Done, IInv, TableType
<1> QED
  BY <1>4, <1>5

LEMMA TakesStep ==
  ASSUME VirtioAssumption, IInv, RInv, DeviceTakes
  PROVE  Done' = Done
<1>1. UNCHANGED <<pc, head>>
  BY DEF DeviceTakes, caller
<1>2. Outstanding' = Outstanding /\ Held(avail)' \union working' = Held(avail) \union working
  BY <1>1, TakesR DEF Outstanding
<1>3. Done' = {c \in Outstanding : head[c] \notin working' \union Held(avail)'}
  <2>1. \A c \in Outstanding : head[c] \notin Held(avail)' <=> \A d \in Desc : avail'[d] # head[c]
    BY DoneIs, HeldNot
  <2> QED
    BY <1>1, <2>1 DEF Done, Outstanding
<1>4. Done = {c \in Outstanding : head[c] \notin working \union Held(avail)}
  BY DoneIs
<1> QED
  BY <1>1, <1>2, <1>3, <1>4

\* The device does what the owner of the buffer asks for, and only once.
LEMMA EndsStep ==
  ASSUME VirtioAssumption, IInv, RInv, NEW h \in Desc, DeviceEnds(h)
  PROVE  \E b \in Buf : /\ b \notin Done /\ Done' = Done \union {b}
                        /\ \E r \in request[b] :
                             IF r.write
                             THEN store' = [store EXCEPT ![r.block] = data[b]] /\ UNCHANGED data
                             ELSE data' = [data EXCEPT ![b] = store[r.block]] /\ UNCHANGED store
<1>1. /\ h \in working /\ DeviceTransfers(h) /\ working' = working \ {h}
      /\ UNCHANGED <<avail, pc, head>>
  BY DEF DeviceEnds, caller
<1>2. PICK b \in disk : h = head[b]
  BY <1>1 DEF RInv, Places, Heads
<1>3. /\ b \in Buf /\ pc[b] = "wait" /\ addr[h][2] = b /\ addr[next[h]][2] = b
  BY <1>2, HeadsKnown
<1>4. \A c \in Outstanding : head[c] = h => c = b
  BY <1>2, DoneIs, HeadsKnown
<1>5. h \notin Held(avail)
  BY <1>1 DEF RInv, Places
<1>6. b \notin Done
  BY <1>1, <1>2 DEF Done
<1>7. Done' = Done \union {b}
  <2>1. \A i \in Desc : avail[i] # h
    BY <1>5 DEF Held, Desc, NoDesc, VirtioAssumption
  <2> QED
    BY <1>1, <1>2, <1>3, <1>4, <2>1 DEF Done, Outstanding
<1>8. \E r \in request[b] :
        IF r.write
        THEN store' = [store EXCEPT ![r.block] = data[b]] /\ UNCHANGED data
        ELSE data' = [data EXCEPT ![b] = store[r.block]] /\ UNCHANGED store
  BY <1>1, <1>3 DEF DeviceTransfers, HeaderOwner
<1> QED
  BY <1>3, <1>6, <1>7, <1>8

\* Each step of the driver or the device is a step of BlockDevice, or none of
\* its variables changes.
LEMMA StepImplements ==
  ASSUME VirtioAssumption, IInv, RInv, [Next]_vars
  PROVE  [BD!Next]_(BD!vars)
<1> USE DEF BD!Next, BD!vars, Done
<1>1. ASSUME UNCHANGED <<store, data, request>>, Done' = Done PROVE UNCHANGED BD!vars
  BY <1>1
<1>2. ASSUME NEW b \in Buf, Call(b) PROVE BD!Call(b)
  <2>1. request[b] = {} /\ Done' = Done
    BY <1>2, CallStep
  <2> QED
    BY <1>2, <2>1 DEF Call, BD!Call, device
<1>3. ASSUME NEW b \in Buf, Submit(b) PROVE UNCHANGED BD!vars
  <2>1. UNCHANGED <<store, data, request>>
    BY <1>3 DEF Submit, device
  <2> QED
    BY <1>1, <1>3, <2>1, SubmitStep
<1>4. ASSUME NEW b \in Buf, Finish(b) PROVE BD!Return(b)
  <2>1. b \in Done /\ Done' = Done \ {b}
    BY <1>4, FinishStep
  <2> QED
    BY <1>4, <2>1 DEF Finish, BD!Return, device
<1>5. ASSUME NEW b \in Buf, AllocFails(b) \/ SleepAgain(b) \/ Kill(b) PROVE UNCHANGED BD!vars
  <2>1. UNCHANGED <<store, data, request, avail, working, pc, head>>
    BY <1>5 DEF AllocFails, SleepAgain, Kill, rings, device
  <2> QED
    BY <1>1, <2>1, DoneKept
<1>6. ASSUME Interrupt PROVE UNCHANGED BD!vars
  <2>1. UNCHANGED <<store, data, request, avail, working, pc, head>>
    BY <1>6 DEF Interrupt, IntrEnter, IntrLook, IntrLeave, IntrAck, rings, caller, device
  <2> QED
    BY <1>1, <2>1, DoneKept
<1>7. ASSUME DeviceTakes PROVE UNCHANGED BD!vars
  <2>1. UNCHANGED <<store, data, request>>
    BY <1>7 DEF DeviceTakes, caller
  <2> QED
    BY <1>1, <1>7, <2>1, TakesStep
<1>8. ASSUME NEW h \in Desc, DeviceEnds(h) PROVE \E b \in Buf : BD!Transfer(b)
  <2>1. request' = request
    BY <1>8 DEF DeviceEnds, caller
  <2> QED
    BY <1>8, <2>1, EndsStep DEF BD!Transfer
<1>9. ASSUME UNCHANGED vars PROVE UNCHANGED BD!vars
  <2>1. UNCHANGED <<store, data, request, avail, working, pc, head>>
    BY <1>9 DEF vars, rings, caller, device
  <2> QED
    BY <1>1, <2>1, DoneKept
<1> QED
  BY <1>2, <1>3, <1>4, <1>5, <1>6, <1>7, <1>8, <1>9 DEF Next, Driver

\* A caller of virtio_disk_rw() that returns has had its transfer, once, on its
\* own block and buffer: the driver and the device implement BlockDevice, for
\* any number of buffers, blocks and descriptors.
THEOREM DriverImplementsBlockDevice ==
  ASSUME VirtioAssumption
  PROVE  Spec => TransfersOnce
<1>1. Init => BD!Init
  BY DEF Init, BD!Init
<1>2. IInv /\ RInv /\ [Next]_vars => [BD!Next]_(BD!vars)
  BY StepImplements
<1> QED
  BY <1>1, <1>2, InvAlways, RInvAlways, PTL DEF Spec, TransfersOnce, BD!Spec
=============================================================================
