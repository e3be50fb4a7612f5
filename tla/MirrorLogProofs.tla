-------------------------- MODULE MirrorLogProofs --------------------------
(***************************************************************************)
(* Theorems of MirrorLog, for any processes, blocks and log size, whether  *)
(* or not the machine may crash: types, quiet commits and the room in the  *)
(* log under any simulated failure; atomic commit and the two copies under *)
(* the failures each theorem names.                                        *)
(***************************************************************************)
EXTENDS MirrorLog, FiniteSetTheorems, FunctionTheorems, TLAPS

(* The blocks of the calls in progress: the size of a set of pairs. *)

\* The pairs of an element of P and a member of its set D[p].
PairsOf(P, B, D) == {x \in P \X B : x[2] \in D[x[1]]}

\* A finite set of at most n elements is numbered by a part of 1..n.
LEMMA NumberedSet ==
  ASSUME NEW S, IsFiniteSet(S), NEW n \in Nat, Cardinality(S) <= n
  PROVE  \E f \in [S -> 1..n] : \A x, y \in S : f[x] = f[y] => x = y
<1> DEFINE k == Cardinality(S)
<1>1. k \in Nat /\ ExistsBijection(1..k, S)
  BY FS_CardinalityType
<1>2. ExistsBijection(S, 1..k)
  BY <1>1, Fun_ExistsBijSymmetric
<1> HIDE DEF k
<1>3. PICK f \in Bijection(S, 1..k) : TRUE
  BY <1>2, Zenon DEF ExistsBijection
<1>4. f \in [S -> 1..k] /\ \A x, y \in S : f[x] = f[y] => x = y
  BY <1>3, Fun_BijectionProperties
<1>5. 1..k \subseteq 1..n
  BY <1>1 DEF k
<1>6. f \in [S -> 1..n]
  BY <1>4, <1>5
<1> QED
  BY <1>4, <1>6

\* If every element of a finite P has at most n members in its set, there are
\* at most |P| * n pairs.
LEMMA PairsBound ==
  ASSUME NEW P, IsFiniteSet(P), NEW B, NEW D, NEW n \in Nat,
         \A p \in P : IsFiniteSet(D[p]) /\ Cardinality(D[p]) <= n
  PROVE  /\ IsFiniteSet(PairsOf(P, B, D))
         /\ Cardinality(PairsOf(P, B, D)) <= Cardinality(P) * n
<1> DEFINE W == PairsOf(P, B, D)
           Num(p) == CHOOSE f \in [D[p] -> 1..n] :
                       \A x, y \in D[p] : f[x] = f[y] => x = y
           g == [x \in W |-> <<x[1], Num(x[1])[x[2]]>>]
           T == P \X (1..n)
<1>1. ASSUME NEW p \in P
      PROVE  /\ Num(p) \in [D[p] -> 1..n]
             /\ \A x, y \in D[p] : Num(p)[x] = Num(p)[y] => x = y
  BY NumberedSet
<1>2. ASSUME NEW x \in W
      PROVE  x[1] \in P /\ x[2] \in D[x[1]] /\ x = <<x[1], x[2]>>
  BY DEF PairsOf
<1> HIDE DEF Num
<1>3. g \in [W -> T]
  <2> SUFFICES ASSUME NEW x \in W PROVE <<x[1], Num(x[1])[x[2]]>> \in T
    OBVIOUS
  <2>1. Num(x[1])[x[2]] \in 1..n
    BY <1>1, <1>2
  <2> QED
    BY <2>1, <1>2
<1>4. ASSUME NEW x \in W, NEW y \in W, g[x] = g[y] PROVE x = y
  <2>1. x[1] = y[1] /\ Num(x[1])[x[2]] = Num(y[1])[y[2]]
    BY <1>4
  <2>2. x[2] = y[2]
    BY <2>1, <1>1, <1>2
  <2> QED
    BY <2>1, <2>2, <1>2
<1>5. g \in Injection(W, T)
  BY <1>3, <1>4, Fun_IsInj
<1>6. IsFiniteSet(1..n) /\ Cardinality(1..n) = n
  BY FS_Interval
<1>7. IsFiniteSet(T) /\ Cardinality(T) = Cardinality(P) * n
  BY <1>6, FS_Product
<1> HIDE DEF W, g, T
<1>8. IsFiniteSet(W) /\ Cardinality(W) <= Cardinality(T)
  BY <1>5, <1>7, FS_Injection
<1> QED
  BY <1>7, <1>8 DEF W

\* What one element contributes to the pairs is at most the size of its set.
LEMMA PairsOfOne ==
  ASSUME NEW p, NEW B, NEW D, NEW n \in Nat,
         IsFiniteSet(D[p]), Cardinality(D[p]) <= n
  PROVE  /\ IsFiniteSet(PairsOf({p}, B, D))
         /\ Cardinality(PairsOf({p}, B, D)) <= n
<1>1. IsFiniteSet({p}) /\ Cardinality({p}) = 1
  BY FS_Singleton
<1>2. Cardinality(PairsOf({p}, B, D)) <= 1 * n
  BY <1>1, PairsBound
<1>3. IsFiniteSet(PairsOf({p}, B, D))
  BY <1>1, PairsBound
<1> QED
  BY <1>2, <1>3
\* The same when the sets are parts of sets of at most n members.
LEMMA PairsBoundBelow ==
  ASSUME NEW P, IsFiniteSet(P), NEW B, NEW D, NEW E, NEW n \in Nat,
         \A p \in P : /\ D[p] \subseteq E[p]
                       /\ IsFiniteSet(E[p]) /\ Cardinality(E[p]) <= n
  PROVE  /\ IsFiniteSet(PairsOf(P, B, D))
         /\ Cardinality(PairsOf(P, B, D)) \in Nat
         /\ Cardinality(PairsOf(P, B, D)) <= Cardinality(P) * n
<1>1. ASSUME NEW p \in P
      PROVE  IsFiniteSet(D[p]) /\ Cardinality(D[p]) <= n
  <2>1. IsFiniteSet(E[p]) /\ Cardinality(E[p]) <= n /\ D[p] \in SUBSET E[p]
    OBVIOUS
  <2>2. IsFiniteSet(D[p]) /\ Cardinality(D[p]) <= Cardinality(E[p])
    BY <2>1, FS_Subset
  <2>3. Cardinality(D[p]) \in Nat /\ Cardinality(E[p]) \in Nat
    BY <2>1, <2>2, FS_CardinalityType
  <2> QED
    BY <2>1, <2>2, <2>3
<1>2. /\ IsFiniteSet(PairsOf(P, B, D))
      /\ Cardinality(PairsOf(P, B, D)) <= Cardinality(P) * n
  BY <1>1, PairsBound
<1> QED
  BY <1>2, FS_CardinalityType

\* More elements and larger sets make more pairs.
LEMMA PairsGrow ==
  ASSUME NEW P, NEW Q, P \subseteq Q, NEW D, NEW E, NEW B,
         \A p \in P : D[p] \subseteq E[p],
         IsFiniteSet(PairsOf(Q, B, E))
  PROVE  /\ Cardinality(PairsOf(P, B, D)) \in Nat
         /\ Cardinality(PairsOf(Q, B, E)) \in Nat
         /\ Cardinality(PairsOf(P, B, D)) <= Cardinality(PairsOf(Q, B, E))
<1>1. PairsOf(P, B, D) \in SUBSET PairsOf(Q, B, E)
  BY DEF PairsOf
<1> QED
  BY <1>1, FS_Subset, FS_CardinalityType

\* A new member of one element's set is one pair more.
LEMMA PairsGrowStrictly ==
  ASSUME NEW P, NEW D, NEW E, NEW B, NEW p \in P, NEW b \in B,
         \A q \in P : D[q] \subseteq E[q], b \in E[p], b \notin D[p],
         IsFiniteSet(PairsOf(P, B, E))
  PROVE  /\ Cardinality(PairsOf(P, B, D)) \in Nat
         /\ Cardinality(PairsOf(P, B, E)) \in Nat
         /\ Cardinality(PairsOf(P, B, D)) + 1 <= Cardinality(PairsOf(P, B, E))
<1>1. PairsOf(P, B, D) \in SUBSET PairsOf(P, B, E)
  BY DEF PairsOf
<1>2. <<p, b>> \in PairsOf(P, B, E) /\ <<p, b>> \notin PairsOf(P, B, D)
  BY DEF PairsOf
<1>3. /\ IsFiniteSet(PairsOf(P, B, D))
      /\ Cardinality(PairsOf(P, B, D)) <= Cardinality(PairsOf(P, B, E))
      /\ Cardinality(PairsOf(P, B, D)) # Cardinality(PairsOf(P, B, E))
  BY <1>1, <1>2, FS_Subset
<1>4. /\ Cardinality(PairsOf(P, B, D)) \in Nat
      /\ Cardinality(PairsOf(P, B, E)) \in Nat
  BY <1>3, FS_CardinalityType
<1> QED
  BY <1>3, <1>4

\* Taking one element out loses at most n pairs.
LEMMA PairsWithout ==
  ASSUME NEW P, NEW Q, NEW B, NEW D, NEW E, NEW p, NEW n \in Nat,
         P \subseteq Q \cup {p}, \A q \in P \ {p} : D[q] \subseteq E[q],
         IsFiniteSet(PairsOf(Q, B, E)),
         IsFiniteSet(D[p]), Cardinality(D[p]) <= n
  PROVE  /\ Cardinality(PairsOf(Q, B, E)) \in Nat
         /\ Cardinality(PairsOf(P, B, D)) \in Nat
         /\ Cardinality(PairsOf(P, B, D)) <= Cardinality(PairsOf(Q, B, E)) + n
<1> DEFINE X == PairsOf(Q, B, E)
           Y == PairsOf({p}, B, D)
           Z == PairsOf(P, B, D)
<1>1. IsFiniteSet(Y) /\ Cardinality(Y) <= n
  BY PairsOfOne
<1>2. Z \in SUBSET (X \cup Y)
  BY DEF PairsOf
<1> HIDE DEF X, Y, Z
<1>3. IsFiniteSet(X)
  BY DEF X
<1>4. /\ IsFiniteSet(X \cup Y)
      /\ Cardinality(X \cup Y) = Cardinality(X) + Cardinality(Y) - Cardinality(X \cap Y)
      /\ IsFiniteSet(X \cap Y)
  BY <1>1, <1>3, FS_Union, FS_Intersection
<1>5. IsFiniteSet(Z) /\ Cardinality(Z) <= Cardinality(X \cup Y)
  BY <1>2, <1>4, FS_Subset
<1>6. /\ Cardinality(X) \in Nat /\ Cardinality(Y) \in Nat /\ Cardinality(Z) \in Nat
      /\ Cardinality(X \cup Y) \in Nat /\ Cardinality(X \cap Y) \in Nat
  BY <1>1, <1>3, <1>4, <1>5, FS_CardinalityType
<1>7. Cardinality(Z) <= Cardinality(X) + n
  BY <1>1, <1>4, <1>5, <1>6
<1> QED
  BY <1>6, <1>7 DEF X, Z
-----------------------------------------------------------------------------
\* The system calls log.outstanding counts.
Open == {p \in Proc : pc[p] \in {"in", "logging", "panicked"}}

\* log.outstanding and log.committing mean what their comments say: the calls
\* in progress are counted exactly, none is in progress while the commit or
\* the recovery runs, and one process at most runs commit().
QuietInv ==
  /\ outstanding = Cardinality(Open)
  /\ Open # {} => phase = "idle" /\ ~committing
  /\ committing => phase # "idle"
  /\ \A p \in Proc : pc[p] = "commit" => committing
  /\ \A p, q \in Proc : pc[p] = "commit" /\ pc[q] = "commit" => p = q

\* The loops of write_log() and install_trans() are at a block of the log, and
\* the buffers they hold have been read; log_write() works on a block of the
\* call.
LoopInv ==
  /\ \A p \in Proc : pc[p] = "logging" => wblk[p] \in wrote[p]
  /\ phase = "head" => lh # <<>>
  /\ phase \in {"log", "install"} =>
       /\ tail + 1 \in 1..Len(lh)
       /\ half # 0 => cache[Cur] \in Value /\ scache[tail + 1] \in Value

\* The blocks each call has written that are in the log.
InLog == [p \in Proc |-> wrote[p] \cap SeqRange(lh)]

\* Why begin_op()'s reservation suffices: what is logged and what the calls in
\* progress may still log fit the log, since a call's own blocks are counted
\* in log.lh.n only once.
AdmitInv ==
  /\ Len(lh) + outstanding * MAXOPBLOCKS
       <= LOGSIZE + Cardinality(PairsOf(Open, Block, InLog))
  /\ \A p \in Proc : IsFiniteSet(wrote[p]) /\ Cardinality(wrote[p]) <= OpBlocks

IInv == TypeOK /\ QuietInv /\ LoopInv /\ AdmitInv

-----------------------------------------------------------------------------
\* Appending to a log.
LEMMA AppendRange ==
  ASSUME NEW S, NEW s \in Seq(S), NEW x \in S
  PROVE  /\ Len(Append(s, x)) = Len(s) + 1
         /\ SeqRange(Append(s, x)) = SeqRange(s) \cup {x}
<1> DEFINE t == Append(s, x)
<1>1. /\ Len(t) = Len(s) + 1 /\ Len(s) \in Nat
      /\ t[Len(s) + 1] = x /\ \A i \in 1..Len(s) : t[i] = s[i]
  OBVIOUS
<1> HIDE DEF t
<1>2. SeqRange(t) = SeqRange(s) \cup {x}
  BY <1>1 DEF SeqRange
<1> QED
  BY <1>1, <1>2 DEF t

\* What bread() returns is the contents of a block.
LEMMA BreadType ==
  ASSUME TypeOK
  PROVE  /\ \A b \in Block : BreadHome(b) \in Value
         /\ \A i \in Slot : BreadSlot(i) \in Value
  BY DEF TypeOK, BreadHome, BreadSlot, Disk

\* Open is finite, and so is what remains of it when a call ends.
LEMMA OpenFinite ==
  ASSUME ConstantsAssumption
  PROVE  IsFiniteSet(Open) /\ Cardinality(Open) \in Nat
<1>1. Open \in SUBSET Proc
  BY DEF Open
<1> QED
  BY <1>1, FS_Subset, FS_CardinalityType DEF ConstantsAssumption

\* A transfer to one block of one disk.
LEMMA DiskWriteType ==
  ASSUME NEW S, NEW T, NEW f \in [Disk -> [S -> T]], NEW d \in Disk, NEW x,
         NEW v, x \in S => v \in T
  PROVE  [f EXCEPT ![d][x] = v] \in [Disk -> [S -> T]]
<1> DEFINE g == [f[d] EXCEPT ![x] = v]
<1>1. g \in [S -> T]
  OBVIOUS
<1>2. [f EXCEPT ![d] = g] \in [Disk -> [S -> T]]
  BY <1>1
<1> QED
  BY <1>2

\* A transfer of a value to a log block or a home block keeps the disks typed.
LEMMA BlockWriteType ==
  ASSUME TypeOK, NEW d \in Disk, NEW v \in Value, NEW i, NEW b
  PROVE  /\ [slot EXCEPT ![d][i] = v] \in [Disk -> [Slot -> Value]]
         /\ [home EXCEPT ![d][b] = v] \in [Disk -> [Block -> Value]]
  BY DiskWriteType DEF TypeOK

\* What mkfs and boot leave behind satisfies the invariant.
LEMMA InitInv == ConstantsAssumption /\ Init => IInv
<1> SUFFICES ASSUME ConstantsAssumption, Init
             PROVE  IInv
  OBVIOUS
<1>1. TypeOK
  <2>1. <<>> \in Seq(Block) /\ Len(<<>>) = 0
    OBVIOUS
  <2>2. /\ slot \in [Disk -> [Slot -> Value]]
        /\ head \in [Disk -> Seq(Block)] /\ lh \in Seq(Block)
    BY <2>1 DEF Init, ConstantsAssumption
  <2>7. Len(lh) <= LOGSIZE /\ \A d \in Disk : Len(head[d]) <= LOGSIZE
    <3>1. lh = <<>> /\ head = [d \in Disk |-> <<>>]
      BY Zenon DEF Init
    <3>2. \A d \in Disk : head[d] = <<>>
      BY <3>1, Zenon
    <3>3. 0 <= LOGSIZE
      BY DEF ConstantsAssumption
    <3> QED
      BY <2>1, <3>1, <3>2, <3>3
  <2>3. /\ pc \in [Proc -> PCs] /\ phase \in Phases
        /\ wblk \in [Proc -> Block \cup {NoVal}]
    BY DEF Init, PCs, Phases
  <2>4. /\ cache \in [Block -> Value \cup {NoVal}]
        /\ scache \in [Slot -> Value \cup {NoVal}] /\ short \subseteq Block
        /\ latest \in [Block -> Value \cup {NoVal}]
    BY DEF Init
  <2>5. home \in [Disk -> [Block -> Value]] /\ committing \in BOOLEAN
    BY Zenon DEF Init
  <2>8. wrote \in [Proc -> SUBSET Block]
    BY DEF Init
  <2>6. /\ tail \in Nat /\ half \in {0, 1, 2} /\ outstanding \in Int
        /\ fid \in {-1} \cup FailIds /\ fail \in {-1} \cup FailIds
    BY DEF Init
  <2> QED
    BY <2>2, <2>3, <2>4, <2>5, <2>6, <2>7, <2>8 DEF TypeOK
<1>2. Open = {}
  BY DEF Init, Open
<1>3. QuietInv
  BY <1>2, FS_EmptySet DEF Init, QuietInv
<1>4. LoopInv
  BY DEF Init, LoopInv
<1>5. AdmitInv
  <2>1. PairsOf(Open, Block, InLog) = {}
    BY <1>2 DEF PairsOf
  <2>2. Len(lh) = 0 /\ outstanding = 0 /\ wrote = [p \in Proc |-> {}]
    BY DEF Init
  <2>3. /\ LOGSIZE \in Nat /\ OpBlocks \in Nat
        /\ 0 * MAXOPBLOCKS = 0
    BY DEF ConstantsAssumption
  <2>4. IsFiniteSet({}) /\ Cardinality({}) = 0
    BY FS_EmptySet
  <2>5. \A p \in Proc : IsFiniteSet(wrote[p]) /\ Cardinality(wrote[p]) <= OpBlocks
    <3>1. \A p \in Proc : wrote[p] = {}
      BY <2>2
    <3> QED
      BY <3>1, <2>3, <2>4
  <2>6. Len(lh) + outstanding * MAXOPBLOCKS = 0
    BY <2>2, <2>3
  <2> QED
    BY <2>1, <2>3, <2>4, <2>5, <2>6 DEF AdmitInv
<1> QED
  BY <1>1, <1>3, <1>4, <1>5 DEF IInv

-----------------------------------------------------------------------------
\* No step starts a call during a commit or a commit during a call, and the
\* count of the calls in progress stays exact.
LEMMA QuietStep ==
  ASSUME ConstantsAssumption, IInv, [Next]_vars
  PROVE  QuietInv'
<1>0. TypeOK /\ QuietInv
  BY DEF IInv
<1>a. IsFiniteSet(Open) /\ Cardinality(Open) \in Nat
  BY OpenFinite
<1>1. ASSUME NEW p \in Proc, BeginOpSleep(p) PROVE QuietInv'
  <2>1. Open' = Open
    BY <1>0, <1>1 DEF TypeOK, BeginOpSleep, Open
  <2> QED
    BY <1>0, <1>1, <2>1 DEF TypeOK, QuietInv, BeginOpSleep, cvars
<1>2. ASSUME NEW p \in Proc, BeginOp(p) PROVE QuietInv'
  <2>1. Open' = Open \cup {p} /\ p \notin Open
    BY <1>0, <1>2 DEF TypeOK, BeginOp, Open
  <2>2. Cardinality(Open') = Cardinality(Open) + 1
    BY <1>a, <2>1, FS_AddElement
  <2> QED
    BY <1>0, <1>2, <2>1, <2>2
       DEF TypeOK, QuietInv, BeginOp, Booting, MustWait, cvars
<1>3. ASSUME NEW p \in Proc, LogAppend(p) PROVE QuietInv'
  <2>1. Open' = Open
    BY <1>0, <1>3 DEF TypeOK, LogAppend, Open
  <2> QED
    BY <1>0, <1>3, <2>1 DEF TypeOK, QuietInv, LogAppend, cvars
<1>4. ASSUME NEW p \in Proc, EndOp(p) PROVE QuietInv'
  <2>1. p \in Open /\ ~committing /\ phase = "idle"
    BY <1>0, <1>4 DEF QuietInv, EndOp, Open
  <2>2. Open' = Open \ {p}
    BY <1>0, <1>4, <2>1 DEF TypeOK, EndOp, Open, Woken
  <2>3. Cardinality(Open') = Cardinality(Open) - 1 /\ IsFiniteSet(Open')
    BY <1>a, <2>1, <2>2, FS_RemoveElement
  <2>4. outstanding' = Cardinality(Open')
    BY <1>0, <1>4, <2>3 DEF QuietInv, EndOp
  <2>5. CASE outstanding = 1
    <3>1. Open' = {}
      BY <1>0, <2>3, <2>5, <1>a, FS_EmptySet DEF QuietInv
    <3>2. committing' /\ phase' # "idle"
      BY <1>4, <2>1, <2>5 DEF EndOp
    <3>3. \A q \in Proc : pc'[q] = "commit" => q = p
      BY <1>0, <1>4, <2>1, <2>5 DEF TypeOK, QuietInv, EndOp
    <3> QED
      BY <2>4, <3>1, <3>2, <3>3 DEF QuietInv
  <2>6. CASE outstanding # 1
    <3>1. ~committing' /\ phase' = "idle"
      BY <1>0, <1>4, <2>1, <2>6 DEF TypeOK, EndOp
    <3>2. \A q \in Proc : pc'[q] # "commit"
      BY <1>0, <1>4, <2>1, <2>6 DEF TypeOK, QuietInv, EndOp, Woken
    <3> QED
      BY <2>4, <3>1, <3>2 DEF QuietInv
  <2> QED
    BY <2>5, <2>6
<1>5. ASSUME NEW p \in Proc, EndOpDone(p) PROVE QuietInv'
  <2>1. committing /\ Open = {}
    BY <1>0, <1>5 DEF QuietInv, EndOpDone
  <2>2. Open' = Open
    BY <1>0, <1>5 DEF TypeOK, EndOpDone, Open, Woken
  <2>3. \A q \in Proc : pc'[q] # "commit"
    BY <1>0, <1>5 DEF TypeOK, QuietInv, EndOpDone, Woken
  <2> QED
    BY <1>0, <1>5, <2>1, <2>2, <2>3 DEF QuietInv, EndOpDone
<1>6. ASSUME NEW p \in Proc, NEW b \in Block, NEW v \in Value, FsWrite(p, b, v)
      PROVE  QuietInv'
  <2>1. Open' = Open
    BY <1>0, <1>6 DEF TypeOK, FsWrite, Open
  <2> QED
    BY <1>0, <1>6, <2>1 DEF TypeOK, QuietInv, FsWrite, cvars
<1>7. CASE UNCHANGED <<opvars, phase>>
  BY <1>0, <1>7 DEF QuietInv, Open, opvars
<1>8. CASE BwritePbn0
  BY <1>7, <1>8 DEF BwritePbn0
<1>9. CASE /\ UNCHANGED opvars /\ phase # "idle"
           /\ committing => phase' # "idle"
  BY <1>0, <1>9 DEF QuietInv, Open, opvars
<1>10. CASE Pbn1Log \/ Pbn1Head \/ Pbn1Home \/ Pbn1Clear \/ ReadHead
  BY <1>9, <1>10 DEF Pbn1Log, Pbn1Head, Pbn1Home, Pbn1Clear, ReadHead
<1>11. CASE Crash
  <2>1. Open' = {}
    BY <1>11 DEF Crash, Open
  <2> QED
    BY <1>11, <2>1, FS_EmptySet DEF QuietInv, Crash
<1>12. CASE UNCHANGED vars
  BY <1>7, <1>12 DEF vars, cvars
<1>13. CASE LoadLog \/ LoadHome
  BY <1>7, <1>13 DEF LoadLog, LoadHome
<1>14. ASSUME NEW b \in Block, FsRead(b) \/ EvictHome(b) PROVE QuietInv'
  BY <1>7, <1>14 DEF FsRead, EvictHome, cvars
<1>15. ASSUME NEW i \in Slot, EvictSlot(i) PROVE QuietInv'
  BY <1>7, <1>15 DEF EvictSlot, cvars
<1>16. ASSUME NEW f \in FailIds, SetDiskFail(f) PROVE QuietInv'
  BY <1>7, <1>16 DEF SetDiskFail, cvars
<1>17. ASSUME NEW a \in BadAddrs \cup {NoAddr}, SetBadBlock(a) PROVE QuietInv'
  BY <1>7, <1>17 DEF SetBadBlock, cvars
<1> QED
  BY <1>1, <1>2, <1>3, <1>4, <1>5, <1>6, <1>8, <1>10, <1>11, <1>12, <1>13,
     <1>14, <1>15, <1>16, <1>17 DEF Next, OpStep, CommitStep

-----------------------------------------------------------------------------
\* A step keeps its loops at a block of the log.
LEMMA LoopStep ==
  ASSUME ConstantsAssumption, IInv, [Next]_vars
  PROVE  LoopInv'
<1>0. TypeOK /\ QuietInv /\ LoopInv
  BY DEF IInv
<1>a. /\ \A b \in Block : BreadHome(b) \in Value
      /\ \A i \in Slot : BreadSlot(i) \in Value
  BY <1>0, BreadType
<1>b. phase \in {"log", "install"} => tail + 1 \in Slot /\ Cur \in Block
  BY <1>0 DEF ConstantsAssumption, TypeOK, LoopInv, Cur, Slot
<1>c. \A p \in Proc : pc[p] = "in" \/ pc[p] = "logging" => phase = "idle"
  BY <1>0 DEF QuietInv, Open
<1>1. ASSUME NEW p \in Proc, BeginOpSleep(p) PROVE LoopInv'
  BY <1>0, <1>1 DEF TypeOK, LoopInv, BeginOpSleep, bufs, cvars, Cur
<1>2. ASSUME NEW p \in Proc, BeginOp(p) PROVE LoopInv'
  BY <1>0, <1>2 DEF TypeOK, LoopInv, BeginOp, bufs, cvars, Cur
<1>3. ASSUME NEW p \in Proc, LogAppend(p) PROVE LoopInv'
  BY <1>0, <1>c, <1>3 DEF TypeOK, LoopInv, LogAppend, cvars
<1>4. ASSUME NEW p \in Proc, EndOp(p) PROVE LoopInv'
  <2>1. \A q \in Proc : pc'[q] = "logging" => pc[q] = "logging" /\ q # p
    BY <1>0, <1>4 DEF TypeOK, EndOp, Woken
  <2>2. \A q \in Proc : pc'[q] = "logging" => wblk'[q] \in wrote'[q]
    BY <1>0, <1>4, <2>1 DEF TypeOK, LoopInv, EndOp
  <2>3. phase = "idle" /\ lh' = lh
    BY <1>4, <1>c DEF EndOp
  <2>4. /\ phase' # "head"
        /\ phase' \in {"log", "install"} => lh # <<>> /\ tail' = 0 /\ half' = 0
    BY <1>4, <2>3 DEF EndOp
  <2>5. lh # <<>> => 1 \in 1..Len(lh)
    BY <1>0 DEF TypeOK
  <2>6. phase' \in {"log", "install"} =>
          /\ tail' + 1 \in 1..Len(lh')
          /\ half' = 0
    BY <2>3, <2>4, <2>5
  <2> QED
    BY <2>2, <2>4, <2>6 DEF LoopInv
<1>5. ASSUME NEW p \in Proc, EndOpDone(p) PROVE LoopInv'
  BY <1>0, <1>5 DEF TypeOK, LoopInv, EndOpDone, Woken
<1>6. ASSUME NEW p \in Proc, NEW b \in Block, NEW v \in Value, FsWrite(p, b, v)
      PROVE  LoopInv'
  BY <1>0, <1>c, <1>6 DEF TypeOK, LoopInv, FsWrite, cvars
<1>7. ASSUME NEW b \in Block, FsRead(b) PROVE LoopInv'
  BY <1>0, <1>a, <1>b, <1>7 DEF TypeOK, LoopInv, FsRead, opvars, cvars, Cur
<1>8. ASSUME NEW b \in Block, EvictHome(b) PROVE LoopInv'
  BY <1>0, <1>b, <1>8 DEF TypeOK, LoopInv, EvictHome, Locked, opvars, cvars, Cur
<1>9. ASSUME NEW i \in Slot, EvictSlot(i) PROVE LoopInv'
  BY <1>0, <1>b, <1>9 DEF TypeOK, LoopInv, EvictSlot, opvars, cvars, Cur
<1>10. CASE UNCHANGED <<bufs, lh, opvars, phase, tail, half>>
  BY <1>0, <1>10 DEF LoopInv, Cur, bufs, opvars
<1>11. ASSUME NEW f \in FailIds, SetDiskFail(f) PROVE LoopInv'
  BY <1>10, <1>11 DEF SetDiskFail, cvars
<1>12. ASSUME NEW a \in BadAddrs \cup {NoAddr}, SetBadBlock(a) PROVE LoopInv'
  BY <1>10, <1>12 DEF SetBadBlock, cvars
<1>13. CASE LoadLog
  BY <1>0, <1>a, <1>b, <1>13 DEF TypeOK, LoopInv, LoadLog, opvars, Cur
<1>14. CASE LoadHome
  BY <1>0, <1>a, <1>b, <1>14 DEF TypeOK, LoopInv, LoadHome, opvars, Cur
<1>15. CASE BwritePbn0
  BY <1>0, <1>15 DEF TypeOK, LoopInv, BwritePbn0, bufs, opvars, Cur
<1>16. CASE Pbn1Log
  BY <1>0, <1>16 DEF TypeOK, LoopInv, Pbn1Log, opvars
<1>17. CASE Pbn1Head
  BY <1>0, <1>17 DEF TypeOK, LoopInv, Pbn1Head, opvars
<1>18. CASE Pbn1Home
  BY <1>0, <1>18 DEF TypeOK, LoopInv, Pbn1Home, opvars
<1>19. CASE Pbn1Clear
  BY <1>0, <1>19 DEF TypeOK, LoopInv, Pbn1Clear, opvars
<1>20. CASE ReadHead
  BY <1>0, <1>20 DEF TypeOK, LoopInv, ReadHead, opvars, Disk
<1>21. CASE Crash
  BY <1>21 DEF LoopInv, Crash
<1>22. CASE UNCHANGED vars
  BY <1>10, <1>22 DEF vars, cvars
<1> QED
  BY <1>1, <1>2, <1>3, <1>4, <1>5, <1>6, <1>7, <1>8, <1>9, <1>11, <1>12,
     <1>13, <1>14, <1>15, <1>16, <1>17, <1>18, <1>19, <1>20, <1>21, <1>22
     DEF Next, OpStep, CommitStep
-----------------------------------------------------------------------------
\* What is in the log of the calls in progress is finite, and no more than
\* begin_op() has reserved for them.
LEMMA InLogBound ==
  ASSUME ConstantsAssumption, AdmitInv, QuietInv
  PROVE  /\ IsFiniteSet(PairsOf(Open, Block, InLog))
         /\ Cardinality(PairsOf(Open, Block, InLog)) \in Nat
         /\ Cardinality(PairsOf(Open, Block, InLog)) <= outstanding * MAXOPBLOCKS
<1>1. IsFiniteSet(Open) /\ Open \subseteq Proc
  BY OpenFinite DEF Open
<1>2. /\ OpBlocks <= MAXOPBLOCKS /\ OpBlocks \in Nat /\ MAXOPBLOCKS \in Nat
  BY DEF ConstantsAssumption
<1>3. ASSUME NEW p \in Open
      PROVE  /\ InLog[p] \subseteq wrote[p]
             /\ IsFiniteSet(wrote[p]) /\ Cardinality(wrote[p]) <= MAXOPBLOCKS
  <2>1. IsFiniteSet(wrote[p]) /\ Cardinality(wrote[p]) <= OpBlocks
    BY <1>1 DEF AdmitInv
  <2>2. Cardinality(wrote[p]) \in Nat
    BY <2>1, FS_CardinalityType
  <2> QED
    BY <1>1, <1>2, <2>1, <2>2 DEF InLog
<1>4. /\ IsFiniteSet(PairsOf(Open, Block, InLog))
      /\ Cardinality(PairsOf(Open, Block, InLog)) \in Nat
      /\ Cardinality(PairsOf(Open, Block, InLog)) <= Cardinality(Open) * MAXOPBLOCKS
  BY <1>1, <1>2, <1>3, PairsBoundBelow
<1> QED
  BY <1>4 DEF QuietInv

\* The same after a step, from what the step does to each call's blocks.
LEMMA NextInLogBound ==
  ASSUME ConstantsAssumption,
         \A p \in Proc : IsFiniteSet(wrote'[p]) /\ Cardinality(wrote'[p]) <= OpBlocks
  PROVE  /\ IsFiniteSet(PairsOf(Open', Block, InLog'))
         /\ Cardinality(PairsOf(Open', Block, InLog')) \in Nat
         /\ Cardinality(PairsOf(Open', Block, InLog'))
              <= Cardinality(Open') * MAXOPBLOCKS
<1>1. IsFiniteSet(Open') /\ Open' \subseteq Proc
  <2>1. Open' \in SUBSET Proc
    BY DEF Open
  <2> QED
    BY <2>1, FS_Subset DEF ConstantsAssumption
<1>2. /\ OpBlocks <= MAXOPBLOCKS /\ OpBlocks \in Nat /\ MAXOPBLOCKS \in Nat
  BY DEF ConstantsAssumption
<1>3. ASSUME NEW p \in Open'
      PROVE  /\ InLog'[p] \subseteq wrote'[p]
             /\ IsFiniteSet(wrote'[p]) /\ Cardinality(wrote'[p]) <= MAXOPBLOCKS
  <2>1. IsFiniteSet(wrote'[p]) /\ Cardinality(wrote'[p]) <= OpBlocks
    BY <1>1
  <2>2. Cardinality(wrote'[p]) \in Nat
    BY <2>1, FS_CardinalityType
  <2> QED
    BY <1>1, <1>2, <2>1, <2>2 DEF InLog
<1> QED
  BY <1>1, <1>2, <1>3, PairsBoundBelow

\* The reservation is kept: begin_op() makes it, log_write() uses it up and
\* end_op() returns what is left.
LEMMA AdmitStep ==
  ASSUME ConstantsAssumption, IInv, [Next]_vars
  PROVE  AdmitInv'
<1> DEFINE W == PairsOf(Open, Block, InLog)
           W2 == PairsOf(Open', Block, InLog')
           Bounded == \A q \in Proc : /\ IsFiniteSet(wrote'[q])
                                       /\ Cardinality(wrote'[q]) <= OpBlocks
<1>0. TypeOK /\ QuietInv /\ LoopInv /\ AdmitInv
  BY DEF IInv
<1>a. /\ IsFiniteSet(W) /\ Cardinality(W) \in Nat
      /\ outstanding \in Int /\ Len(lh) \in Nat
      /\ LOGSIZE \in Nat /\ MAXOPBLOCKS \in Nat /\ OpBlocks \in Nat
      /\ OpBlocks <= MAXOPBLOCKS
      /\ Len(lh) + outstanding * MAXOPBLOCKS <= LOGSIZE + Cardinality(W)
  BY <1>0, InLogBound DEF ConstantsAssumption, TypeOK, AdmitInv
<1>b. ASSUME UNCHANGED wrote PROVE Bounded
  BY <1>0, <1>b DEF AdmitInv
<1>c. Bounded => IsFiniteSet(W2) /\ Cardinality(W2) \in Nat
  BY NextInLogBound
<1>d. /\ IsFiniteSet({}) /\ Cardinality({}) = 0 /\ 0 <= OpBlocks
      /\ 0 * MAXOPBLOCKS = 0
  BY <1>a, FS_EmptySet
<1>1. ASSUME UNCHANGED <<lh, outstanding, wrote>>, Open' = Open PROVE AdmitInv'
  <2>1. InLog' = InLog
    BY <1>1 DEF InLog, SeqRange
  <2>2. W2 = W
    BY <1>1, <2>1
  <2> QED
    BY <1>0, <1>1, <2>2 DEF AdmitInv
<1>2. ASSUME NEW p \in Proc, BeginOpSleep(p) \/ EndOpDone(p) PROVE AdmitInv'
  <2>1. Open' = Open
    BY <1>0, <1>2 DEF TypeOK, BeginOpSleep, EndOpDone, Woken, Open
  <2> QED
    BY <1>1, <1>2, <2>1 DEF BeginOpSleep, EndOpDone
<1>3. ASSUME NEW p \in Proc, BeginOp(p) PROVE AdmitInv'
  <2>1. /\ Len(lh) + (outstanding + 1) * MAXOPBLOCKS <= LOGSIZE
        /\ outstanding' = outstanding + 1 /\ UNCHANGED <<lh, wrote>>
    BY <1>a, <1>3 DEF BeginOp, MustWait, LogFull
  <2>2. Bounded /\ Cardinality(W2) \in Nat
    BY <1>b, <1>c, <2>1
  <2>3. Len(lh') + outstanding' * MAXOPBLOCKS <= LOGSIZE + Cardinality(W2)
    <3>1. Len(lh') + outstanding' * MAXOPBLOCKS <= LOGSIZE
      BY <2>1
    <3> DEFINE t == outstanding' * MAXOPBLOCKS
    <3>2. t \in Int
      BY <1>a, <2>1
    <3> QED
      BY <1>a, <2>1, <2>2, <3>1, <3>2
  <2> QED
    BY <2>2, <2>3 DEF AdmitInv
<1>4. ASSUME NEW p \in Proc, LogAppend(p) PROVE AdmitInv'
  <2> DEFINE b == wblk[p]
  <2>1. Open' = Open /\ p \in Open /\ UNCHANGED <<outstanding, wrote>>
    BY <1>0, <1>4 DEF TypeOK, LogAppend, Open
  <2>2. Bounded /\ IsFiniteSet(W2) /\ Cardinality(W2) \in Nat
    BY <1>b, <1>c, <2>1
  <2>3. b \in wrote[p] /\ b \in Block
    BY <1>0, <1>4 DEF TypeOK, LoopInv, LogAppend
  <2>4. CASE b \in SeqRange(lh)
    <3>1. lh' = lh
      BY <1>4, <2>4 DEF LogAppend
    <3> QED
      BY <1>1, <2>1, <3>1
  <2>5. CASE b \notin SeqRange(lh)
    <3>1. lh' = Append(lh, b)
      BY <1>4, <2>5 DEF LogAppend
    <3>2. Len(lh') = Len(lh) + 1 /\ SeqRange(lh') = SeqRange(lh) \cup {b}
      BY <1>0, <2>3, <3>1, AppendRange DEF TypeOK
    <3>3. /\ \A q \in Open : InLog[q] \subseteq InLog'[q]
          /\ b \in InLog'[p] /\ b \notin InLog[p]
      BY <2>1, <2>3, <2>5, <3>2 DEF InLog, Open
    <3>4. Cardinality(W) + 1 <= Cardinality(W2)
      BY <2>1, <2>2, <2>3, <3>3, PairsGrowStrictly
    <3> DEFINE t == outstanding * MAXOPBLOCKS
    <3>5. t \in Int /\ Len(lh) + t <= LOGSIZE + Cardinality(W)
      BY <1>a
    <3> HIDE DEF t
    <3>6. Len(lh') + t <= LOGSIZE + Cardinality(W2)
      BY <1>a, <2>2, <3>2, <3>4, <3>5
    <3> QED
      BY <2>1, <2>2, <3>6 DEF AdmitInv, t
  <2> QED
    BY <2>4, <2>5
<1>5. ASSUME NEW p \in Proc, EndOp(p) PROVE AdmitInv'
  <2>1. p \in Open /\ ~committing
    BY <1>0, <1>5 DEF QuietInv, EndOp, Open
  <2>2. /\ Open' = Open \ {p} /\ UNCHANGED lh
        /\ outstanding' = outstanding - 1
        /\ wrote' = [wrote EXCEPT ![p] = {}]
    BY <1>0, <1>5, <2>1 DEF TypeOK, EndOp, Open, Woken
  <2>3. Bounded
    <3>1. wrote'[p] = {} /\ \A q \in Proc \ {p} : wrote'[q] = wrote[q]
      BY <1>0, <2>2 DEF TypeOK
    <3>2. IsFiniteSet(wrote'[p]) /\ Cardinality(wrote'[p]) <= OpBlocks
      BY <1>d, <3>1
    <3>3. \A q \in Proc : IsFiniteSet(wrote[q]) /\ Cardinality(wrote[q]) <= OpBlocks
      BY <1>0 DEF AdmitInv
    <3> QED
      BY <3>1, <3>2, <3>3
  <2>4. IsFiniteSet(W2) /\ Cardinality(W2) \in Nat
    BY <1>c, <2>3
  <2>5. IsFiniteSet(InLog[p]) /\ Cardinality(InLog[p]) <= MAXOPBLOCKS
    <3>1. InLog[p] \in SUBSET wrote[p]
      BY DEF InLog
    <3>2. IsFiniteSet(wrote[p]) /\ Cardinality(wrote[p]) <= OpBlocks
      BY <1>0 DEF AdmitInv
    <3>3. IsFiniteSet(InLog[p]) /\ Cardinality(InLog[p]) <= Cardinality(wrote[p])
      BY <3>1, <3>2, FS_Subset
    <3>4. Cardinality(InLog[p]) \in Nat /\ Cardinality(wrote[p]) \in Nat
      BY <3>2, <3>3, FS_CardinalityType
    <3> QED
      BY <1>a, <3>2, <3>3, <3>4
  <2>6. \A q \in Open \ {p} : InLog[q] \subseteq InLog'[q]
    BY <1>0, <2>2 DEF TypeOK, InLog, Open, SeqRange
  <2>7. Cardinality(W) <= Cardinality(W2) + MAXOPBLOCKS
    BY <1>a, <2>2, <2>4, <2>5, <2>6, PairsWithout
  <2>8. Len(lh') + outstanding' * MAXOPBLOCKS <= LOGSIZE + Cardinality(W2)
    <3> DEFINE t == outstanding * MAXOPBLOCKS
    <3>1. t \in Int /\ Len(lh) + t <= LOGSIZE + Cardinality(W)
      BY <1>a
    <3>2. outstanding' * MAXOPBLOCKS = t - MAXOPBLOCKS
      BY <1>a, <2>2
    <3> HIDE DEF t
    <3> QED
      BY <1>a, <2>2, <2>4, <2>7, <3>1, <3>2
  <2> QED
    BY <2>3, <2>8 DEF AdmitInv
<1>6. ASSUME NEW p \in Proc, NEW b \in Block, NEW v \in Value, FsWrite(p, b, v)
      PROVE  AdmitInv'
  <2>1. /\ Open' = Open /\ UNCHANGED <<lh, outstanding>>
        /\ wrote' = [wrote EXCEPT ![p] = @ \cup {b}]
        /\ Cardinality(wrote[p] \cup {b}) <= OpBlocks
    BY <1>0, <1>6 DEF TypeOK, FsWrite, Open
  <2>2. IsFiniteSet(wrote[p] \cup {b})
    BY <1>0, FS_AddElement DEF AdmitInv
  <2>3. Bounded
    BY <1>0, <2>1, <2>2 DEF TypeOK, AdmitInv
  <2>4. IsFiniteSet(W2) /\ Cardinality(W2) \in Nat
    BY <1>c, <2>3
  <2>5. \A q \in Open : InLog[q] \subseteq InLog'[q]
    BY <1>0, <2>1 DEF TypeOK, InLog, Open, SeqRange
  <2>6. Cardinality(W) <= Cardinality(W2)
    BY <2>1, <2>4, <2>5, PairsGrow
  <2>7. Len(lh') + outstanding' * MAXOPBLOCKS <= LOGSIZE + Cardinality(W2)
    <3> DEFINE t == outstanding * MAXOPBLOCKS
    <3>1. t \in Int /\ Len(lh) + t <= LOGSIZE + Cardinality(W)
      BY <1>a
    <3> HIDE DEF t
    <3>2. Len(lh') + t <= LOGSIZE + Cardinality(W2)
      BY <1>a, <2>1, <2>4, <2>6, <3>1
    <3> QED
      BY <2>1, <3>2 DEF t
  <2> QED
    BY <2>3, <2>7 DEF AdmitInv
<1>7. ASSUME UNCHANGED <<opvars, lh>> PROVE AdmitInv'
  BY <1>1, <1>7 DEF opvars, Open
<1>8. CASE LoadLog \/ LoadHome \/ BwritePbn0 \/ Pbn1Log \/ Pbn1Head \/ Pbn1Clear
  BY <1>7, <1>8 DEF LoadLog, LoadHome, BwritePbn0, Pbn1Log, Pbn1Head, Pbn1Clear
<1>9. ASSUME UNCHANGED <<outstanding, wrote>>, Open' = {}, Open = {},
             Len(lh') \in Nat, Len(lh') <= LOGSIZE
      PROVE  AdmitInv'
  <2>1. Bounded
    BY <1>b, <1>9
  <2>4. W2 = {}
    BY <1>9 DEF PairsOf
  <2>5. Cardinality(W2) = 0
    BY <1>d, <2>4
  <2>2. outstanding = 0
    BY <1>0, <1>d, <1>9 DEF QuietInv
  <2>3. Len(lh') + outstanding' * MAXOPBLOCKS <= LOGSIZE + Cardinality(W2)
    <3>1. outstanding' * MAXOPBLOCKS = 0
      BY <1>9, <1>d, <2>2
    <3> QED
      BY <1>a, <1>9, <2>5, <3>1
  <2> QED
    BY <2>1, <2>3 DEF AdmitInv
<1>10. CASE Pbn1Home \/ ReadHead
  <2>1. Open = {} /\ Open' = {}
    BY <1>0, <1>10 DEF QuietInv, Pbn1Home, ReadHead, Open, opvars
  <2>2. lh' \in {lh, <<>>, head[0]}
    BY <1>10 DEF Pbn1Home, ReadHead
  <2>3. Len(lh') \in Nat /\ Len(lh') <= LOGSIZE
    <3>1. Len(<<>>) = 0
      OBVIOUS
    <3>2. Len(head[0]) \in Nat /\ Len(head[0]) <= LOGSIZE /\ Len(lh) <= LOGSIZE
      BY <1>0 DEF TypeOK, Disk
    <3> QED
      BY <1>a, <2>2, <3>1, <3>2
  <2> QED
    BY <1>9, <1>10, <2>1, <2>3 DEF Pbn1Home, ReadHead, opvars
<1>11. CASE Crash
  <2>1. Open' = {} /\ outstanding' = 0 /\ wrote' = [p \in Proc |-> {}]
    BY <1>11 DEF Crash, Open
  <2>2. Len(lh') = 0
    BY <1>11 DEF Crash
  <2>3. W2 = {}
    BY <2>1 DEF PairsOf
  <2>4. Cardinality(W2) = 0
    BY <1>d, <2>3
  <2>5. Bounded
    <3>1. \A p \in Proc : wrote'[p] = {}
      BY <2>1
    <3> QED
      BY <1>d, <3>1
  <2>7. Len(lh') + outstanding' * MAXOPBLOCKS <= LOGSIZE + Cardinality(W2)
    <3>1. outstanding' * MAXOPBLOCKS = 0
      BY <1>d, <2>1
    <3> QED
      BY <1>a, <2>2, <2>4, <3>1
  <2> QED
    BY <2>5, <2>7 DEF AdmitInv
<1>12. CASE UNCHANGED vars
  BY <1>7, <1>12 DEF vars
<1>13. ASSUME NEW b \in Block, FsRead(b) \/ EvictHome(b) PROVE AdmitInv'
  BY <1>7, <1>13 DEF FsRead, EvictHome
<1>14. ASSUME NEW i \in Slot, EvictSlot(i) PROVE AdmitInv'
  BY <1>7, <1>14 DEF EvictSlot
<1>15. ASSUME NEW f \in FailIds, SetDiskFail(f) PROVE AdmitInv'
  BY <1>7, <1>15 DEF SetDiskFail
<1>16. ASSUME NEW a \in BadAddrs \cup {NoAddr}, SetBadBlock(a) PROVE AdmitInv'
  BY <1>7, <1>16 DEF SetBadBlock
<1> QED
  BY <1>2, <1>3, <1>4, <1>5, <1>6, <1>8, <1>10, <1>11, <1>12, <1>13, <1>14,
     <1>15, <1>16 DEF Next, OpStep, CommitStep

-----------------------------------------------------------------------------
\* Each step keeps the types, and the log and its header stay within
\* logheader.block[LOGSIZE].
LEMMA TypeStep ==
  ASSUME ConstantsAssumption, IInv, [Next]_vars
  PROVE  TypeOK'
<1> USE ConstantsAssumption DEF ConstantsAssumption, Disk, PCs, Phases
<1>0. TypeOK /\ LoopInv
  BY DEF IInv
<1>a. /\ \A b \in Block : BreadHome(b) \in Value
      /\ \A i \in Slot : BreadSlot(i) \in Value
  BY <1>0, BreadType
<1>b. phase \in {"log", "install"} => tail + 1 \in Slot /\ Cur \in Block
  BY <1>0 DEF TypeOK, LoopInv, Cur, Slot
<1>1. ASSUME NEW p \in Proc, BeginOpSleep(p) PROVE TypeOK'
  BY <1>0, <1>1 DEF TypeOK, BeginOpSleep, disks, bufs, cvars, flags
<1>2. ASSUME NEW p \in Proc, BeginOp(p) PROVE TypeOK'
  BY <1>0, <1>2 DEF TypeOK, BeginOp, disks, bufs, cvars, flags
<1>3. ASSUME NEW p \in Proc, LogAppend(p) PROVE TypeOK'
  <2>1. wblk[p] \in Block
    BY <1>0, <1>3 DEF TypeOK, LoopInv, LogAppend
  <2>2. lh' \in Seq(Block)
    BY <1>0, <1>3, <2>1 DEF TypeOK, LogAppend
  <2>3. Len(lh') <= LOGSIZE
    <3> DEFINE W2 == PairsOf(Open', Block, InLog')
               t == outstanding' * MAXOPBLOCKS
    <3>1. QuietInv' /\ AdmitInv'
      BY QuietStep, AdmitStep
    <3>2. Cardinality(W2) \in Nat /\ Cardinality(W2) <= t
      BY <3>1, NextInLogBound DEF AdmitInv, QuietInv
    <3>3. Len(lh') + t <= LOGSIZE + Cardinality(W2)
      BY <3>1 DEF AdmitInv
    <3>4. t \in Int /\ Len(lh') \in Nat
      BY <1>0, <1>3, <2>2 DEF TypeOK, LogAppend
    <3> HIDE DEF W2, t
    <3> QED
      BY <3>2, <3>3, <3>4
  <2>4. pc' \in [Proc -> PCs] /\ wblk' \in [Proc -> Block \cup {NoVal}]
    BY <1>0, <1>3 DEF TypeOK, LogAppend
  <2> QED
    BY <1>0, <1>3, <2>2, <2>3, <2>4 DEF TypeOK, LogAppend, disks, bufs, cvars, flags
<1>4. ASSUME NEW p \in Proc, EndOp(p) PROVE TypeOK'
  <2>1. pc' \in [Proc -> PCs] /\ wrote' \in [Proc -> SUBSET Block]
    BY <1>0, <1>4 DEF TypeOK, EndOp, Woken
  <2>2. phase' \in Phases /\ tail' \in Nat /\ half' \in {0, 1, 2}
    BY <1>0, <1>4 DEF TypeOK, EndOp
  <2>3. outstanding' \in Int /\ committing' \in BOOLEAN
    BY <1>0, <1>4 DEF TypeOK, EndOp
  <2>4. UNCHANGED <<home, slot, head, cache, scache, short, lh, wblk, fid, fail,
                  latest>>
    BY <1>4 DEF EndOp, disks, bufs, flags
  <2> QED
    BY <1>0, <2>1, <2>2, <2>3, <2>4 DEF TypeOK
<1>5. ASSUME NEW p \in Proc, EndOpDone(p) PROVE TypeOK'
  BY <1>0, <1>5 DEF TypeOK, EndOpDone, Woken, disks, bufs, cvars, flags
<1>6. ASSUME NEW p \in Proc, NEW b \in Block, NEW v \in Value, FsWrite(p, b, v)
      PROVE  TypeOK'
  BY <1>0, <1>6 DEF TypeOK, FsWrite, disks, bufs, cvars, flags
<1>7. ASSUME NEW b \in Block, FsRead(b) PROVE TypeOK'
  BY <1>0, <1>a, <1>7 DEF TypeOK, FsRead, disks, opvars, cvars, flags
<1>8. ASSUME NEW b \in Block, EvictHome(b) PROVE TypeOK'
  BY <1>0, <1>8 DEF TypeOK, EvictHome, disks, opvars, cvars, flags
<1>9. ASSUME NEW i \in Slot, EvictSlot(i) PROVE TypeOK'
  BY <1>0, <1>9 DEF TypeOK, EvictSlot, disks, opvars, cvars, flags
<1>10. ASSUME NEW f \in FailIds, SetDiskFail(f) PROVE TypeOK'
  BY <1>0, <1>10 DEF TypeOK, SetDiskFail, disks, bufs, opvars, cvars
<1>11. ASSUME NEW a \in BadAddrs \cup {NoAddr}, SetBadBlock(a) PROVE TypeOK'
  BY <1>0, <1>11 DEF TypeOK, SetBadBlock, disks, bufs, opvars, cvars
<1>12. CASE LoadLog
  BY <1>0, <1>a, <1>b, <1>12 DEF TypeOK, LoadLog, disks, opvars, flags
<1>13. CASE LoadHome
  <2>1. BreadSlot(tail + 1) \in Value
    BY <1>a, <1>b, <1>13 DEF LoadHome
  <2>2. scache' \in [Slot -> Value \cup {NoVal}]
    BY <1>0, <1>13, <2>1 DEF TypeOK, LoadHome
  <2>3. cache' \in [Block -> Value \cup {NoVal}]
    BY <1>0, <1>13, <2>1 DEF TypeOK, LoadHome
  <2> QED
    BY <1>0, <1>13, <2>2, <2>3 DEF TypeOK, LoadHome, disks, opvars, flags
<1>14. CASE BwritePbn0
  <2>1. slot' \in [Disk -> [Slot -> Value]]
    <3>1. CASE phase = "log"
      <4>1. scache[tail + 1] \in Value
        BY <1>0, <1>14, <3>1 DEF LoopInv, BwritePbn0
      <4>2. \/ slot' = slot
            \/ slot' = [slot EXCEPT ![0][tail + 1] = scache[tail + 1]]
        BY <1>14, <3>1 DEF BwritePbn0
      <4>3. [slot EXCEPT ![0][tail + 1] = scache[tail + 1]]
              \in [Disk -> [Slot -> Value]]
        BY <1>0, <4>1, BlockWriteType
      <4> QED
        BY <1>0, <4>2, <4>3 DEF TypeOK
    <3> QED
      BY <1>0, <1>14, <3>1 DEF TypeOK, BwritePbn0
  <2>2. head' \in [Disk -> Seq(Block)] /\ \A d \in Disk : Len(head'[d]) <= LOGSIZE
    <3>1. head' = head \/ head' = [head EXCEPT ![0] = lh]
      BY <1>14 DEF BwritePbn0
    <3> QED
      BY <1>0, <3>1 DEF TypeOK
  <2>3. home' \in [Disk -> [Block -> Value]]
    <3>1. CASE phase = "install"
      <4>1. cache[Cur] \in Value
        BY <1>0, <1>14, <3>1 DEF LoopInv, BwritePbn0
      <4>2. home' = home \/ home' = [home EXCEPT ![0][Cur] = cache[Cur]]
        BY <1>14, <3>1 DEF BwritePbn0
      <4>3. [home EXCEPT ![0][Cur] = cache[Cur]] \in [Disk -> [Block -> Value]]
        BY <1>0, <4>1, BlockWriteType
      <4> QED
        BY <1>0, <4>2, <4>3 DEF TypeOK
    <3> QED
      BY <1>0, <1>14, <3>1 DEF TypeOK, BwritePbn0
  <2> QED
    BY <1>0, <1>14, <2>1, <2>2, <2>3
       DEF TypeOK, BwritePbn0, bufs, opvars, flags
<1>15. CASE Pbn1Log
  <2>1. scache[tail + 1] \in Value
    BY <1>0, <1>15 DEF LoopInv, Pbn1Log
  <2>2. slot' \in [Disk -> [Slot -> Value]]
    BY <1>0, <1>15, <2>1, BlockWriteType DEF TypeOK, Pbn1Log
  <2> QED
    BY <1>0, <1>15, <2>2 DEF TypeOK, Pbn1Log, bufs, opvars, flags
<1>16. CASE Pbn1Head
  BY <1>0, <1>16 DEF TypeOK, Pbn1Head, bufs, opvars, flags
<1>17. CASE Pbn1Home
  <2>1. cache[Cur] \in Value /\ Cur \in Block
    BY <1>0, <1>b, <1>17 DEF LoopInv, Pbn1Home
  <2>2. home' \in [Disk -> [Block -> Value]]
    BY <1>0, <1>17, <2>1, BlockWriteType DEF TypeOK, Pbn1Home
  <2>3. latest' \in [Block -> Value \cup {NoVal}]
    BY <1>0, <1>17, <2>1 DEF TypeOK, Pbn1Home
  <2>4. lh' \in Seq(Block) /\ Len(lh') <= LOGSIZE
    <3>1. <<>> \in Seq(Block) /\ Len(<<>>) = 0 /\ 0 <= LOGSIZE
      OBVIOUS
    <3>2. lh' = lh \/ lh' = <<>>
      BY <1>17 DEF Pbn1Home
    <3> QED
      BY <1>0, <3>1, <3>2 DEF TypeOK
  <2> QED
    BY <1>0, <1>17, <2>2, <2>3, <2>4 DEF TypeOK, Pbn1Home, bufs, opvars, flags
<1>18. CASE Pbn1Clear
  BY <1>0, <1>18 DEF TypeOK, Pbn1Clear, bufs, opvars, flags
<1>19. CASE ReadHead
  BY <1>0, <1>19 DEF TypeOK, ReadHead, disks, bufs, opvars, flags
<1>20. CASE Crash
  <2>1. lh' \in Seq(Block) /\ Len(lh') <= LOGSIZE
    <3>1. <<>> \in Seq(Block) /\ Len(<<>>) = 0 /\ 0 <= LOGSIZE
      OBVIOUS
    <3> QED
      BY <1>20, <3>1 DEF Crash
  <2>2. /\ pc' \in [Proc -> PCs] /\ phase' \in Phases
        /\ wblk' \in [Proc -> Block \cup {NoVal}]
        /\ wrote' \in [Proc -> SUBSET Block]
    BY <1>20 DEF Crash
  <2>3. /\ cache' \in [Block -> Value \cup {NoVal}]
        /\ scache' \in [Slot -> Value \cup {NoVal}] /\ short' \subseteq Block
    BY <1>20 DEF Crash
  <2>6. tail' \in Nat /\ half' \in {0, 1, 2} /\ outstanding' \in Int
    BY <1>20 DEF Crash
  <2>4. /\ fid' \in {-1} \cup FailIds /\ fail' \in {-1} \cup FailIds
        /\ committing' \in BOOLEAN
    BY <1>20, Zenon DEF Crash
  <2>5. UNCHANGED <<home, slot, head, latest>>
    BY <1>20 DEF Crash, disks
  <2> QED
    BY <1>0, <2>1, <2>2, <2>3, <2>4, <2>5, <2>6 DEF TypeOK
<1>21. CASE UNCHANGED vars
  BY <1>0, <1>21 DEF TypeOK, vars, disks, bufs, opvars, cvars, flags
<1> QED
  BY <1>1, <1>2, <1>3, <1>4, <1>5, <1>6, <1>7, <1>8, <1>9, <1>10, <1>11, <1>12,
     <1>13, <1>14, <1>15, <1>16, <1>17, <1>18, <1>19, <1>20, <1>21
     DEF Next, OpStep, CommitStep

-----------------------------------------------------------------------------
\* The invariant holds in every reachable state.
LEMMA Inductive == Spec => []IInv
<1> USE ConstantsAssumption
<1>1. Init => IInv
  BY InitInv
<1>2. IInv /\ [Next]_vars => IInv'
  BY TypeStep, QuietStep, LoopStep, AdmitStep DEF IInv
<1> QED
  BY <1>1, <1>2, PTL DEF Spec

\* Every state is well typed; in particular log.lh.n and the n of a header on
\* disk never exceed LOGSIZE, the length of logheader.block[], although
\* log_write() tests log.lh.n before it takes log.lock.
THEOREM LogWellTyped == Spec => []TypeOK
<1>1. IInv => TypeOK
  BY DEF IInv
<1> QED
  BY <1>1, Inductive, PTL

\* While a process runs commit(), no call is between begin_op() and end_op()
\* and no other process is in commit().
THEOREM CommitAlone == Spec => []CommitIsQuiet
<1>1. IInv => CommitIsQuiet
  <2> SUFFICES ASSUME IInv, NEW p \in Proc, NEW q \in Proc, pc[p] = "commit",
                      pc[q] \in {"in", "logging", "commit"}
               PROVE  p = q
    BY DEF CommitIsQuiet
  <2>1. committing /\ Open = {}
    BY DEF IInv, QuietInv
  <2>2. pc[q] = "commit"
    BY <2>1 DEF Open
  <2> QED
    BY <2>2 DEF IInv, QuietInv
<1> QED
  BY <1>1, Inductive, PTL

-----------------------------------------------------------------------------
\* What the log holds of the calls in progress.
InUse == PairsOf(Open, Block, InLog)

\* How far an open call's blocks can fill the log.  A call that is alone found
\* the log empty, so that all that is logged is its own, or another call has
\* ended since it began and has left what begin_op() had reserved for it and
\* it did not use.
FitInv ==
  /\ phase \in {"boot", "clear", "done"} => lh = <<>>
  /\ phase = "idle" /\ outstanding = 0 => lh = <<>>
  /\ outstanding = 1 =>
       \/ Len(lh) <= Cardinality(InUse)
       \/ Len(lh) + 2 * MAXOPBLOCKS <= LOGSIZE + OpBlocks + Cardinality(InUse)

\* It is a finite number of blocks, before and after a step.
LEMMA InUseNat ==
  ASSUME ConstantsAssumption, IInv, [Next]_vars
  PROVE  /\ Cardinality(InUse) \in Nat /\ Cardinality(InUse') \in Nat
         /\ IsFiniteSet(InUse) /\ IsFiniteSet(InUse')
<1>1. AdmitInv /\ QuietInv /\ AdmitInv'
  BY AdmitStep DEF IInv
<1>2. IsFiniteSet(InUse) /\ Cardinality(InUse) \in Nat
  BY <1>1, InLogBound DEF InUse
<1>3. IsFiniteSet(InUse') /\ Cardinality(InUse') \in Nat
  BY <1>1, NextInLogBound DEF AdmitInv, InUse
<1> QED
  BY <1>2, <1>3

\* Each step keeps that: begin_op() admits a first call to an empty log, and
\* end_op() gives back a reservation of which OpBlocks at most are used.
LEMMA FitStep ==
  ASSUME ConstantsAssumption, IInv, FitInv, [Next]_vars
  PROVE  FitInv'
<1>0. TypeOK /\ QuietInv /\ LoopInv /\ AdmitInv
  BY DEF IInv
<1>a. /\ Cardinality(InUse) \in Nat /\ Cardinality(InUse') \in Nat
      /\ IsFiniteSet(InUse) /\ IsFiniteSet(InUse')
      /\ outstanding \in Int /\ Len(lh) \in Nat
      /\ LOGSIZE \in Nat /\ MAXOPBLOCKS \in Nat /\ OpBlocks \in Nat
  BY <1>0, InUseNat DEF ConstantsAssumption, TypeOK
<1>1. ASSUME UNCHANGED <<lh, outstanding, wrote>>, Open' = Open,
             phase' # phase => phase = "done" /\ phase' = "idle"
      PROVE  FitInv'
  <2>1. InLog' = InLog
    BY <1>1 DEF InLog, SeqRange
  <2>2. InUse' = InUse
    BY <1>1, <2>1 DEF InUse
  <2> QED
    BY <1>1, <2>2 DEF FitInv
<1>2. ASSUME NEW p \in Proc, BeginOpSleep(p) \/ EndOpDone(p) PROVE FitInv'
  <2>1. Open' = Open
    BY <1>0, <1>2 DEF TypeOK, BeginOpSleep, EndOpDone, Woken, Open
  <2> QED
    BY <1>1, <1>2, <2>1 DEF BeginOpSleep, EndOpDone, cvars
<1>3. ASSUME NEW p \in Proc, BeginOp(p) PROVE FitInv'
  <2>1. outstanding' = outstanding + 1 /\ UNCHANGED <<lh, phase>> /\ phase = "idle"
    BY <1>3 DEF BeginOp, MustWait, Booting, cvars
  <2>2. outstanding' # 0
    <3>1. outstanding >= 0
      BY <1>0, OpenFinite DEF QuietInv
    <3> QED
      BY <1>a, <2>1, <3>1
  <2>3. outstanding' = 1 => Len(lh') = 0
    BY <1>a, <2>1 DEF FitInv
  <2> QED
    BY <1>a, <2>1, <2>2, <2>3 DEF FitInv
<1>4. ASSUME NEW p \in Proc, LogAppend(p) PROVE FitInv'
  <2> DEFINE b == wblk[p]
  <2>1. Open' = Open /\ p \in Open /\ UNCHANGED <<outstanding, wrote, phase>>
    BY <1>0, <1>4 DEF TypeOK, LogAppend, Open, cvars
  <2>2. b \in wrote[p] /\ b \in Block
    BY <1>0, <1>4 DEF TypeOK, LoopInv, LogAppend
  <2>3. CASE b \in SeqRange(lh)
    <3>1. lh' = lh
      BY <1>4, <2>3 DEF LogAppend
    <3> QED
      BY <1>1, <2>1, <3>1
  <2>4. CASE b \notin SeqRange(lh)
    <3>1. lh' = Append(lh, b)
      BY <1>4, <2>4 DEF LogAppend
    <3>2. Len(lh') = Len(lh) + 1 /\ SeqRange(lh') = SeqRange(lh) \cup {b}
      BY <1>0, <2>2, <3>1, AppendRange DEF TypeOK
    <3>3. /\ \A q \in Open : InLog[q] \subseteq InLog'[q]
          /\ b \in InLog'[p] /\ b \notin InLog[p]
      BY <2>1, <2>2, <2>4, <3>2 DEF InLog, Open
    <3>4. Cardinality(InUse) + 1 <= Cardinality(InUse')
      BY <1>a, <2>1, <2>2, <3>3, PairsGrowStrictly DEF InUse
    <3>5. phase = "idle" /\ outstanding # 0
      BY <1>0, <1>a, <2>1, OpenFinite, FS_EmptySet DEF QuietInv
    <3> QED
      BY <1>a, <2>1, <3>2, <3>4, <3>5 DEF FitInv
  <2> QED
    BY <2>3, <2>4
<1>5. ASSUME NEW p \in Proc, EndOp(p) PROVE FitInv'
  <2>1. p \in Open /\ ~committing /\ phase = "idle"
    BY <1>0, <1>5 DEF QuietInv, EndOp, Open
  <2>2. /\ Open' = Open \ {p} /\ UNCHANGED lh
        /\ outstanding' = outstanding - 1
        /\ wrote' = [wrote EXCEPT ![p] = {}]
    BY <1>0, <1>5, <2>1 DEF TypeOK, EndOp, Open, Woken
  <2>3. CASE outstanding = 1
    BY <1>5, <2>1, <2>2, <2>3 DEF EndOp, FitInv
  <2>4. CASE outstanding # 1
    <3>1. phase' = "idle" /\ outstanding' # 0
      BY <1>5, <1>a, <2>1, <2>2, <2>4 DEF EndOp
    <3>2. IsFiniteSet(InLog[p]) /\ Cardinality(InLog[p]) <= OpBlocks
      <4>1. InLog[p] \in SUBSET wrote[p]
        BY DEF InLog
      <4>2. IsFiniteSet(wrote[p]) /\ Cardinality(wrote[p]) <= OpBlocks
        BY <1>0 DEF AdmitInv
      <4>3. IsFiniteSet(InLog[p]) /\ Cardinality(InLog[p]) <= Cardinality(wrote[p])
        BY <4>1, <4>2, FS_Subset
      <4>4. Cardinality(InLog[p]) \in Nat /\ Cardinality(wrote[p]) \in Nat
        BY <4>2, <4>3, FS_CardinalityType
      <4> QED
        BY <1>a, <4>2, <4>3, <4>4
    <3>3. \A q \in Open \ {p} : InLog[q] \subseteq InLog'[q]
      BY <1>0, <2>2 DEF TypeOK, InLog, Open, SeqRange
    <3>4. Cardinality(InUse) <= Cardinality(InUse') + OpBlocks
      BY <1>a, <2>2, <3>2, <3>3, PairsWithout DEF InUse
    <3>5. outstanding' = 1 =>
            Len(lh) + 2 * MAXOPBLOCKS <= LOGSIZE + Cardinality(InUse)
      BY <1>0, <1>a, <2>2 DEF AdmitInv, InUse
    <3> QED
      BY <1>a, <2>2, <3>1, <3>4, <3>5 DEF FitInv
  <2> QED
    BY <2>3, <2>4
<1>6. ASSUME NEW p \in Proc, NEW b \in Block, NEW v \in Value, FsWrite(p, b, v)
      PROVE  FitInv'
  <2>1. /\ Open' = Open /\ UNCHANGED <<lh, outstanding, phase>>
        /\ wrote' = [wrote EXCEPT ![p] = @ \cup {b}]
    BY <1>0, <1>6 DEF TypeOK, FsWrite, Open, cvars
  <2>2. \A q \in Open : InLog[q] \subseteq InLog'[q]
    <3>1. SeqRange(lh') = SeqRange(lh) /\ \A q \in Proc : wrote[q] \subseteq wrote'[q]
      BY <1>0, <2>1 DEF TypeOK
    <3> QED
      BY <3>1 DEF InLog, Open
  <2>3. Cardinality(InUse) <= Cardinality(InUse')
    BY <1>a, <2>1, <2>2, PairsGrow DEF InUse
  <2> QED
    BY <1>a, <2>1, <2>3 DEF FitInv
<1>7. ASSUME UNCHANGED <<opvars, lh, phase>> PROVE FitInv'
  <2>1. UNCHANGED <<lh, outstanding, wrote, phase, pc>>
    BY <1>7 DEF opvars
  <2>2. Open' = Open
    BY <2>1 DEF Open
  <2> QED
    BY <1>1, <2>1, <2>2
<1>8. ASSUME Open = {}, UNCHANGED outstanding,
             phase' \in {"boot", "clear", "done", "idle"} => lh' = <<>>
      PROVE  FitInv'
  <2>1. outstanding' = 0
    BY <1>0, <1>8, FS_EmptySet DEF QuietInv
  <2> QED
    BY <1>8, <2>1 DEF FitInv
<1>9. CASE Pbn1Log \/ Pbn1Head \/ Pbn1Home \/ Pbn1Clear \/ ReadHead
  <2>1. Open = {} /\ UNCHANGED outstanding
    BY <1>0, <1>9
       DEF QuietInv, Pbn1Log, Pbn1Head, Pbn1Home, Pbn1Clear, ReadHead, opvars
  <2>2. phase' \in {"boot", "clear", "done", "idle"} => lh' = <<>>
    BY <1>9 DEF FitInv, Pbn1Log, Pbn1Head, Pbn1Home, Pbn1Clear, ReadHead
  <2> QED
    BY <1>8, <2>1, <2>2
<1>10. CASE LoadLog \/ LoadHome \/ BwritePbn0
  BY <1>7, <1>10 DEF LoadLog, LoadHome, BwritePbn0
<1>11. CASE Crash
  BY <1>11 DEF Crash, FitInv
<1>12. CASE UNCHANGED vars
  BY <1>7, <1>12 DEF vars, cvars
<1>13. ASSUME NEW b \in Block, FsRead(b) \/ EvictHome(b) PROVE FitInv'
  BY <1>7, <1>13 DEF FsRead, EvictHome, cvars
<1>14. ASSUME NEW i \in Slot, EvictSlot(i) PROVE FitInv'
  BY <1>7, <1>14 DEF EvictSlot, cvars
<1>15. ASSUME NEW f \in FailIds, SetDiskFail(f) PROVE FitInv'
  BY <1>7, <1>15 DEF SetDiskFail, cvars
<1>16. ASSUME NEW a \in BadAddrs \cup {NoAddr}, SetBadBlock(a) PROVE FitInv'
  BY <1>7, <1>16 DEF SetBadBlock, cvars
<1> QED
  BY <1>2, <1>3, <1>4, <1>5, <1>6, <1>9, <1>10, <1>11, <1>12, <1>13, <1>14,
     <1>15, <1>16 DEF Next, OpStep, CommitStep

\* A process that is about to write a block of its call finds room for it, and
\* one place of the log is left when it asks.
LEMMA RoomToWrite ==
  ASSUME ConstantsAssumption, IInv, FitInv, OpBlocks < MAXOPBLOCKS,
         LOGSIZE <= NLOG, OpBlocks < NLOG - 1, Open # {}
  PROVE  ~LogWritePanics
<1>0. TypeOK /\ QuietInv /\ AdmitInv
  BY DEF IInv
<1>1. IsFiniteSet(Open) /\ Open \subseteq Proc
  BY OpenFinite DEF Open
<1>2. \A p \in Open : /\ InLog[p] \subseteq wrote[p]
                       /\ IsFiniteSet(wrote[p]) /\ Cardinality(wrote[p]) <= OpBlocks
  BY <1>0, <1>1 DEF AdmitInv, InLog
<1> DEFINE k == outstanding
           n == Len(lh)
           c == Cardinality(InUse)
<1>3. /\ LOGSIZE \in Nat /\ MAXOPBLOCKS \in Nat /\ OpBlocks \in Nat /\ NLOG \in Nat
      /\ n \in Nat
  BY <1>0 DEF ConstantsAssumption, TypeOK
<1>4. c \in Nat /\ c <= k * OpBlocks
  BY <1>0, <1>1, <1>2, <1>3, PairsBoundBelow DEF QuietInv, InUse
<1>5. k \in Nat /\ k >= 1
  <2>1. Cardinality(Open) \in Nat /\ Cardinality(Open) # 0
    BY <1>1, OpenFinite, FS_EmptySet
  <2> QED
    BY <1>0, <2>1 DEF QuietInv
<1>6. n + k * MAXOPBLOCKS <= LOGSIZE + c
  BY <1>0 DEF AdmitInv, InUse
<1>7. k = 1 => n <= c \/ n + 2 * MAXOPBLOCKS <= LOGSIZE + OpBlocks + c
  BY DEF FitInv
<1> HIDE DEF k, n, c
<1>8. n < LOGSIZE /\ n < NLOG - 1
  <2>1. CASE k = 1
    BY <1>3, <1>4, <1>6, <1>7, <2>1
  <2>2. CASE k >= 2
    <3>1. k * MAXOPBLOCKS >= k * (OpBlocks + 1)
      BY <1>3, <1>5
    <3>2. k * (OpBlocks + 1) = k * OpBlocks + k
      BY <1>3, <1>5
    <3> DEFINE s == k * MAXOPBLOCKS
               t == k * OpBlocks
    <3>3. s \in Int /\ t \in Int /\ s >= t + k
      BY <1>3, <1>5, <3>1, <3>2
    <3>4. n + s <= LOGSIZE + c /\ c <= t
      BY <1>4, <1>6
    <3> HIDE DEF s, t
    <3> QED
      BY <1>3, <1>4, <1>5, <2>2, <3>3, <3>4
  <2> QED
    BY <1>5, <2>1, <2>2
<1> QED
  BY <1>3, <1>5, <1>8 DEF LogWritePanics, TooBig, k, n

\* begin_op() admits only calls whose blocks fit the log (log.c:18-21): no call
\* reaches a panic of log_write() or end_op(), however many calls are open and
\* whatever they interleave, when a call writes fewer blocks than begin_op()
\* reserves for it and mkfs makes the log as long as logheader.block[].  The
\* first hypothesis cannot be dropped: log_write() tests log.lh.n before it
\* looks for the block in the log, so that a call that has filled the log
\* panics when it writes one of its own blocks again.
THEOREM RoomForEveryCall ==
  OpBlocks < MAXOPBLOCKS /\ LOGSIZE <= NLOG /\ OpBlocks < NLOG - 1
    => (Spec => []NoPanic)
<1> SUFFICES ASSUME OpBlocks < MAXOPBLOCKS, LOGSIZE <= NLOG, OpBlocks < NLOG - 1
             PROVE  Spec => []NoPanic
  OBVIOUS
<1> USE ConstantsAssumption
<1>1. Init => FitInv /\ NoPanic
  <2> SUFFICES ASSUME Init PROVE FitInv /\ NoPanic
    OBVIOUS
  <2>1. lh = <<>> /\ outstanding = 0 /\ pc = [p \in Proc |-> "out"]
    BY DEF Init
  <2> QED
    BY <2>1 DEF FitInv, NoPanic
<1>2. IInv /\ FitInv /\ NoPanic /\ [Next]_vars => FitInv' /\ NoPanic'
  <2> SUFFICES ASSUME IInv, FitInv, NoPanic, [Next]_vars PROVE FitInv' /\ NoPanic'
    OBVIOUS
  <2>0. TypeOK /\ QuietInv
    BY DEF IInv
  <2>a. FitInv'
    BY FitStep
  <2> SUFFICES NoPanic'
    BY <2>a
  <2>2. ASSUME NEW p \in Proc, NEW b \in Block, NEW v \in Value, FsWrite(p, b, v)
        PROVE  NoPanic'
    <3>1. ~LogWritePanics
      <4>1. p \in Open
        BY <2>2 DEF FsWrite, Open
      <4> QED
        BY <4>1, RoomToWrite
    <3> QED
      <4>1. \A q \in Proc : pc'[q] = "panicked" => pc[q] = "panicked"
        BY <2>0, <2>2, <3>1 DEF TypeOK, FsWrite
      <4> QED
        BY <4>1 DEF NoPanic
  <2>3. ASSUME NEW p \in Proc, EndOp(p) PROVE NoPanic'
    <3>1. ~committing
      BY <2>0, <2>3 DEF QuietInv, EndOp, Open
    <3> QED
      <4>1. \A q \in Proc : pc'[q] = "panicked" => pc[q] = "panicked"
        BY <2>0, <2>3, <3>1 DEF TypeOK, EndOp, Woken
      <4> QED
        BY <4>1 DEF NoPanic
  <2>4. ASSUME NEW p \in Proc,
               BeginOpSleep(p) \/ BeginOp(p) \/ LogAppend(p) \/ EndOpDone(p)
        PROVE  NoPanic'
    <3>1. \A q \in Proc : pc'[q] = "panicked" => pc[q] = "panicked"
      BY <2>0, <2>4 DEF TypeOK, BeginOpSleep, BeginOp, LogAppend, EndOpDone, Woken
    <3> QED
      BY <3>1 DEF NoPanic
  <2>5. CASE UNCHANGED pc
    BY <2>5 DEF NoPanic
  <2>6. CASE CommitStep \/ UNCHANGED vars
    <3>1. UNCHANGED opvars
      BY <2>6 DEF CommitStep, LoadLog, LoadHome, BwritePbn0, Pbn1Log,
         Pbn1Head, Pbn1Home, Pbn1Clear, ReadHead, vars
    <3> QED
      BY <2>5, <3>1 DEF opvars
  <2>7. CASE Crash
    BY <2>7 DEF Crash, NoPanic
  <2>8. ASSUME NEW b \in Block, FsRead(b) \/ EvictHome(b) PROVE NoPanic'
    BY <2>5, <2>8 DEF FsRead, EvictHome, opvars
  <2>9. CASE \/ \E i \in Slot : EvictSlot(i)
             \/ \E f \in FailIds : SetDiskFail(f)
             \/ \E a \in BadAddrs \cup {NoAddr} : SetBadBlock(a)
    BY <2>5, <2>9 DEF EvictSlot, SetDiskFail, SetBadBlock, opvars
  <2> QED
    BY <2>2, <2>3, <2>4, <2>6, <2>7, <2>8, <2>9 DEF Next, OpStep
<1> QED
  BY <1>1, <1>2, Inductive, PTL DEF Spec

-----------------------------------------------------------------------------
\* Between the two transfers of bwrite() for a home block: when the second one
\* will be left out, the first has put the buffer on disk 0.
HalfInv ==
  phase = "install" /\ half = 2 /\ fid = 1 => home[0][Cur] = cache[Cur]

\* One transfer to a home block changes nothing else.
LEMMA HomeWrite ==
  ASSUME TypeOK, NEW d \in Disk, NEW b \in Block, NEW v
  PROVE  /\ [home EXCEPT ![d][b] = v][d][b] = v
         /\ \A e \in Disk, c \in Block : <<e, c>> # <<d, b>> =>
              [home EXCEPT ![d][b] = v][e][c] = home[e][c]
  BY DEF TypeOK, Disk

\* Each step leaves what bwrite() last wrote on one of the disks.
LEMMA SomeCopyStep ==
  ASSUME ConstantsAssumption, IInv, HalfInv, SomeCopyCurrent, [Next]_vars,
         ~Crashes, 1 \notin FailIds \/ bad \notin {HomeAddr(b) : b \in Block}
  PROVE  HalfInv' /\ SomeCopyCurrent'
<1>0. TypeOK /\ QuietInv /\ LoopInv
  BY DEF IInv
<1>a. phase \in {"log", "install"} => Cur \in Block
  BY <1>0 DEF TypeOK, LoopInv, Cur
<1>b. \A p \in Proc : pc[p] \in {"in", "logging"} => phase = "idle"
  BY <1>0 DEF QuietInv, Open
<1>1. ASSUME UNCHANGED <<home, latest>>,
             phase = "install" /\ half = 2 => UNCHANGED <<lh, tail, half, phase>>
      PROVE  SomeCopyCurrent'
  BY <1>1 DEF SomeCopyCurrent, Cur
<1>2. ASSUME phase' # "install" \/ half' # 2 PROVE HalfInv'
  BY <1>2 DEF HalfInv
<1>3. ASSUME UNCHANGED <<home, lh, phase, tail, half, fid>>,
             phase = "install" /\ half = 2 => cache'[Cur] = cache[Cur]
      PROVE  HalfInv'
  BY <1>3 DEF HalfInv, Cur
<1>4. ASSUME UNCHANGED <<home, latest, lh, phase, tail, half, fid>>,
             phase = "install" /\ half = 2 => cache'[Cur] = cache[Cur]
      PROVE  HalfInv' /\ SomeCopyCurrent'
  BY <1>1, <1>3, <1>4
<1>5. ASSUME NEW p \in Proc, OpStep(p) PROVE HalfInv' /\ SomeCopyCurrent'
  <2>1. CASE BeginOpSleep(p) \/ BeginOp(p)
    BY <1>4, <2>1 DEF BeginOpSleep, BeginOp, disks, bufs, cvars
  <2>2. CASE LogAppend(p) \/ EndOp(p) \/ EndOpDone(p)
    <3>1. phase # "install" /\ phase' # "install" /\ UNCHANGED <<home, latest>>
      BY <1>b, <2>2 DEF LogAppend, EndOp, EndOpDone, disks, cvars
    <3> QED
      BY <1>1, <1>2, <3>1
  <2> QED
    BY <1>5, <2>1, <2>2 DEF OpStep
<1>6. ASSUME NEW p \in Proc, NEW b \in Block, NEW v \in Value, FsWrite(p, b, v)
      PROVE  HalfInv' /\ SomeCopyCurrent'
  <2>1. phase # "install" /\ UNCHANGED <<home, latest, lh, phase, tail, half, fid>>
    BY <1>b, <1>6 DEF FsWrite, disks, cvars
  <2> QED
    BY <1>4, <2>1
<1>7. ASSUME NEW b \in Block, FsRead(b) \/ EvictHome(b)
      PROVE  HalfInv' /\ SomeCopyCurrent'
  <2>1. UNCHANGED <<home, latest, lh, phase, tail, half, fid>>
    BY <1>7 DEF FsRead, EvictHome, disks, cvars
  <2>2. phase = "install" /\ half = 2 => Cur # b
    BY <1>7 DEF FsRead, EvictHome, Locked
  <2>3. phase = "install" /\ half = 2 => cache'[Cur] = cache[Cur]
    BY <1>0, <1>7, <1>a, <2>2 DEF TypeOK, FsRead, EvictHome
  <2> QED
    BY <1>4, <2>1, <2>3
<1>8. CASE \/ \E i \in Slot : EvictSlot(i)
           \/ \E f \in FailIds : SetDiskFail(f)
           \/ \E a \in BadAddrs \cup {NoAddr} : SetBadBlock(a)
  <2>1. UNCHANGED <<home, latest, lh, phase, tail, half, fid, cache>>
    BY <1>8 DEF EvictSlot, SetDiskFail, SetBadBlock, disks, bufs, cvars
  <2> QED
    BY <1>4, <2>1
<1>9. CASE LoadLog \/ LoadHome \/ Pbn1Log \/ Pbn1Head \/ Pbn1Clear \/ ReadHead
  <2>1. ~(phase = "install" /\ half = 2) /\ UNCHANGED <<home, latest>>
    BY <1>9
       DEF LoadLog, LoadHome, Pbn1Log, Pbn1Head, Pbn1Clear, ReadHead, disks
  <2>2. phase' # "install" \/ half' # 2
    BY <1>9 DEF LoadLog, LoadHome, Pbn1Log, Pbn1Head, Pbn1Clear, ReadHead
  <2> QED
    BY <1>1, <1>2, <2>1, <2>2
<1>10. CASE BwritePbn0
  <2>1. CASE phase # "install"
    <3>1. UNCHANGED <<home, latest, phase>>
      BY <1>10, <2>1 DEF BwritePbn0
    <3> QED
      BY <1>1, <1>2, <2>1, <3>1
  <2>2. CASE phase = "install"
    <3>1. /\ half = 1 /\ half' = 2 /\ fid' = fail
          /\ UNCHANGED <<cache, lh, phase, tail, latest>>
          /\ home' = IF FallsBack(HomeAddr(Cur)) THEN home
                     ELSE [home EXCEPT ![0][Cur] = cache[Cur]]
      BY <1>10, <2>2 DEF BwritePbn0, bufs
    <3>2. Cur' = Cur /\ Cur \in Block
      BY <1>a, <2>2, <3>1 DEF Cur
    <3>3. fail = 1 => ~FallsBack(HomeAddr(Cur))
      BY <1>0, <3>2 DEF TypeOK, FallsBack
    <3>4. fid' = 1 => home'[0][Cur] = cache[Cur]
      BY <1>0, <3>1, <3>2, <3>3, HomeWrite DEF Disk
    <3>5. HalfInv'
      BY <3>1, <3>2, <3>4 DEF HalfInv
    <3>6. ASSUME NEW b \in Block, b # Cur
          PROVE  home'[0][b] = home[0][b] /\ home'[1][b] = home[1][b]
      BY <1>0, <3>1, <3>2, <3>6, HomeWrite DEF Disk
    <3>7. \A b \in Block : b # Cur => latest[b] \in {NoVal, home[0][b], home[1][b]}
      BY <3>1 DEF SomeCopyCurrent
    <3>8. \A b \in Block :
             \/ latest'[b] \in {NoVal, home'[0][b], home'[1][b]}
             \/ phase' = "install" /\ half' = 2 /\ b = Cur'
      BY <2>2, <3>1, <3>2, <3>6, <3>7
    <3> QED
      BY <3>5, <3>8 DEF SomeCopyCurrent
  <2> QED
    BY <2>1, <2>2
<1>11. CASE Pbn1Home
  <2>1. /\ phase = "install" /\ half = 2 /\ Cur \in Block
        /\ home' = IF fid = 1 THEN home ELSE [home EXCEPT ![1][Cur] = cache[Cur]]
        /\ latest' = [latest EXCEPT ![Cur] = cache[Cur]]
        /\ half' # 2
    BY <1>a, <1>11 DEF Pbn1Home, SkipsPbn1
  <2>2. cache[Cur] = home'[0][Cur] \/ cache[Cur] = home'[1][Cur]
    BY <1>0, <2>1, HomeWrite DEF HalfInv, Disk
  <2>3. ASSUME NEW b \in Block, b # Cur
        PROVE  /\ home'[0][b] = home[0][b] /\ home'[1][b] = home[1][b]
               /\ latest'[b] = latest[b]
    BY <1>0, <2>1, <2>3, HomeWrite DEF TypeOK, Disk
  <2>4. latest'[Cur] = cache[Cur]
    BY <1>0, <2>1 DEF TypeOK
  <2>5. \A b \in Block : latest'[b] \in {NoVal, home'[0][b], home'[1][b]}
    BY <2>2, <2>3, <2>4 DEF SomeCopyCurrent
  <2> QED
    BY <1>2, <2>1, <2>5 DEF SomeCopyCurrent
<1>12. CASE Crash
  BY <1>12 DEF Crash
<1>13. CASE UNCHANGED vars
  BY <1>4, <1>13 DEF vars, disks, bufs, cvars
<1> QED
  BY <1>5, <1>6, <1>7, <1>8, <1>9, <1>10, <1>11, <1>12, <1>13
     DEF Next, CommitStep

\* While the machine does not crash, what bwrite() last wrote in a home block is
\* on one of the disks, however sys_force_disk_fail() changes the flags between
\* its transfers and between the turns of the loop: bwrite() uses the value of
\* the flag it has sampled.  A block that disk 0 refuses (sys_force_fail())
\* while disk 1 is failed is on neither disk, hence the second hypothesis.
THEOREM SomeDiskHasIt ==
  ~Crashes /\ (1 \notin FailIds \/ BadAddrs \cap {HomeAddr(b) : b \in Block} = {})
    => (Spec => []SomeCopyCurrent)
<1> SUFFICES ASSUME ~Crashes,
                    \/ 1 \notin FailIds
                    \/ BadAddrs \cap {HomeAddr(b) : b \in Block} = {}
             PROVE  Spec => []SomeCopyCurrent
  OBVIOUS
<1> USE ConstantsAssumption
<1> DEFINE BadInv == 1 \notin FailIds \/ bad \notin {HomeAddr(b) : b \in Block}
<1>1. Init => HalfInv /\ SomeCopyCurrent /\ BadInv
  <2> SUFFICES ASSUME Init PROVE HalfInv /\ SomeCopyCurrent /\ BadInv
    OBVIOUS
  <2>1. phase = "boot" /\ bad = NoAddr /\ latest = [b \in Block |-> NoVal]
    BY DEF Init
  <2> QED
    BY <2>1 DEF HalfInv, SomeCopyCurrent, NoAddr, HomeAddr
<1>2. BadInv /\ [Next]_vars => BadInv'
  <2> SUFFICES ASSUME BadInv, [Next]_vars PROVE BadInv'
    OBVIOUS
  <2>1. bad' = bad \/ bad' \in BadAddrs \cup {NoAddr}
    BY DEF Next, OpStep, CommitStep, BeginOpSleep, BeginOp, LogAppend, EndOp,
       EndOpDone, FsWrite, FsRead, EvictHome, EvictSlot, SetDiskFail,
       SetBadBlock, LoadLog, LoadHome, BwritePbn0, Pbn1Log, Pbn1Head, Pbn1Home,
       Pbn1Clear, ReadHead, Crash, flags, vars
  <2> QED
    BY <2>1 DEF NoAddr, HomeAddr
<1> HIDE DEF BadInv
<1>3. IInv /\ HalfInv /\ SomeCopyCurrent /\ BadInv /\ [Next]_vars
        => HalfInv' /\ SomeCopyCurrent'
  BY SomeCopyStep DEF BadInv
<1> QED
  BY <1>1, <1>2, <1>3, Inductive, PTL DEF Spec

-----------------------------------------------------------------------------
\* The failures in which disk 0 takes part: none.
Disk0Works == FailIds \subseteq {-1, 1} /\ BadAddrs = {}

\* bread() reads, and bwrite() writes, disk 0.
FlagInv == fail # 0 /\ bad = NoAddr

\* No block is twice in a log: log_write() absorbs a second write.
NoRepeat(s) == \A i, j \in 1..Len(s) : s[i] = s[j] => i = j

\* Where log.lh and the header of disk 0 stand in each phase: the header names
\* the group from the end of write_head() to the second write_head(), and no
\* block otherwise, but after a crash it may name what it named then.
HeaderInv ==
  /\ NoRepeat(lh) /\ NoRepeat(head[0])
  /\ phase \in {"idle", "log", "done"} => head[0] = <<>>
  /\ phase = "head" =>
       half \in {1, 2} /\ head[0] = IF half = 1 THEN <<>> ELSE lh
  /\ phase = "install" => head[0] = lh
  /\ phase = "clear" => half \in {1, 2} /\ (half = 2 => head[0] = <<>>)
  /\ phase \in {"boot", "clear", "done"} => lh = <<>>
  /\ phase \in {"log", "head", "done"} => committing
  /\ phase = "boot" => ~committing

\* What has been copied: the buffers of the log agree with the log, write_log()
\* has copied the first tail blocks into the log and install_trans() the
\* first tail log blocks to their homes.
CopyInv ==
  /\ \A i \in Slot : \/ scache[i] \in {NoVal, slot[0][i]}
                      \/ (phase = "log" /\ half = 1 /\ i = tail + 1)
  /\ phase = "log" =>
       /\ \A i \in 1..tail : slot[0][i] = cache[lh[i]]
       /\ half # 0 => scache[tail + 1] = cache[Cur]
       /\ half = 2 => slot[0][tail + 1] = cache[Cur]
  /\ phase = "head" => \A i \in 1..Len(lh) : slot[0][i] = cache[lh[i]]
  /\ phase = "install" =>
       /\ \A i \in 1..tail : home[0][lh[i]] = slot[0][i]
       /\ half # 0 => cache[Cur] = slot[0][tail + 1]
       /\ half = 2 => home[0][Cur] = slot[0][tail + 1]
  /\ phase = "clear" =>
       \A i \in 1..Len(head[0]) : home[0][head[0][i]] = slot[0][i]

\* Blocks whose buffer a process has changed on its way into log_write().
Writing == {wblk[p] : p \in {q \in Proc : pc[q] \in {"logging", "panicked"}}}

\* Blocks whose buffer differs from the disk until the commit.
Dirty == Writing \cup
           IF phase \in {"idle", "log"} \/ (phase = "head" /\ half = 1)
           THEN SeqRange(lh) ELSE {}

\* Calls use no block whose buffer recovery has left one short.
RecoveredLeftAlone == ~ReusesRecovered

\* Then no such block is logged, or on its way into the log.
ShortInv ==
  /\ RecoveredLeftAlone
  /\ ~Booting => \A b \in short : b \notin SeqRange(lh) /\ b \notin Writing

\* The buffer cache against the disk: only the buffers above differ from what
\* recovery would find, and these and the pinned ones are in the cache.
CacheInv ==
  /\ \A p \in Proc : pc[p] \notin {"logging", "panicked"} => wblk[p] = NoVal
  /\ \A b \in Writing : cache[b] # NoVal
  /\ ~Booting => \A b \in Pinned : cache[b] # NoVal
  /\ \A b \in Block : b \in Dirty \/ cache[b] \in {NoVal, Recovered(b)}

StoreInv == FlagInv /\ HeaderInv /\ CopyInv /\ CacheInv /\ ShortInv

-----------------------------------------------------------------------------
\* What recovery makes of a block, as an operator of what is on disk 0.
RecoveredFrom(h, s, m, b) ==
  LET logged == {i \in 1..Len(h) : h[i] = b}
  IN  IF logged = {} THEN m[b] ELSE s[CHOOSE i \in logged : TRUE]

\* A log that names a block once gives back the log block of that place.
LEMMA RecoveredLogged ==
  ASSUME NEW h, NEW s, NEW m, NoRepeat(h)
  PROVE  \A i \in 1..Len(h) : RecoveredFrom(h, s, m, h[i]) = s[i]
<1> TAKE i \in 1..Len(h)
<1> DEFINE logged == {j \in 1..Len(h) : h[j] = h[i]}
<1>1. logged = {i}
  BY DEF NoRepeat
<1>2. (CHOOSE j \in logged : TRUE) = i
  BY <1>1
<1> QED
  BY <1>1, <1>2 DEF RecoveredFrom

\* A block the log does not name comes back from its home.
LEMMA RecoveredHome ==
  ASSUME NEW h, NEW s, NEW m, NEW b, b \notin SeqRange(h)
  PROVE  RecoveredFrom(h, s, m, b) = m[b]
<1>1. {i \in 1..Len(h) : h[i] = b} = {}
  BY DEF SeqRange
<1> QED
  BY <1>1 DEF RecoveredFrom

\* A logged block: its contents do not depend on its home, and are in a log block.
LEMMA RecoveredFromLog ==
  ASSUME NEW h, NEW s, NEW m, NEW b, b \in SeqRange(h), NoRepeat(h)
  PROVE  /\ \E i \in 1..Len(h) : h[i] = b /\ RecoveredFrom(h, s, m, b) = s[i]
         /\ \A n : RecoveredFrom(h, s, n, b) = RecoveredFrom(h, s, m, b)
<1>1. {i \in 1..Len(h) : h[i] = b} # {}
  BY DEF SeqRange
<1>2. PICK i \in 1..Len(h) : h[i] = b
  BY <1>1
<1>3. \A j \in 1..Len(h) : RecoveredFrom(h, s, m, h[j]) = s[j]
  BY RecoveredLogged
<1>4. RecoveredFrom(h, s, m, b) = s[i]
  BY <1>2, <1>3
<1>5. \A n : RecoveredFrom(h, s, n, b) = RecoveredFrom(h, s, m, b)
  BY <1>1 DEF RecoveredFrom
<1> QED
  BY <1>2, <1>4, <1>5

\* The operator is Recovered, before and after a step.
LEMMA RecoveredIs ==
  ASSUME NEW b
  PROVE  /\ Recovered(b) = RecoveredFrom(head[0], slot[0], home[0], b)
         /\ Recovered(b)' = RecoveredFrom(head'[0], slot'[0], home'[0], b)
  BY DEF Recovered, RecoveredFrom

\* A block the header of disk 0 names comes back from its log block, any other
\* from its home.
LEMMA RecoveredOnDisk ==
  ASSUME HeaderInv
  PROVE  /\ \A i \in 1..Len(head[0]) : Recovered(head[0][i]) = slot[0][i]
         /\ \A b : b \notin SeqRange(head[0]) => Recovered(b) = home[0][b]
<1>1. NoRepeat(head[0])
  BY DEF HeaderInv
<1>2. \A i \in 1..Len(head[0]) :
         RecoveredFrom(head[0], slot[0], home[0], head[0][i]) = slot[0][i]
  BY <1>1, RecoveredLogged
<1> QED
  BY <1>2, RecoveredHome, RecoveredIs

\* The empty log names nothing.
LEMMA EmptyLog == SeqRange(<<>>) = {} /\ NoRepeat(<<>>) /\ Len(<<>>) = 0
  BY DEF SeqRange, NoRepeat

\* bread() with the flags at rest.
LEMMA PlainRead ==
  ASSUME FlagInv
  PROVE  /\ \A b \in Block : ~FallsBack(HomeAddr(b))
         /\ \A i \in Slot : ~FallsBack(SlotAddr(i))
         /\ ~FallsBack(HeadAddr)
         /\ \A b \in Block :
              BreadHome(b) = IF cache[b] # NoVal THEN cache[b] ELSE home[0][b]
         /\ \A i \in Slot :
              BreadSlot(i) = IF scache[i] # NoVal THEN scache[i] ELSE slot[0][i]
<1>1. \A b : HomeAddr(b) # NoAddr /\ SlotAddr(b) # NoAddr
  BY DEF HomeAddr, SlotAddr, NoAddr
<1>2. HeadAddr # NoAddr
  BY DEF HeadAddr, NoAddr
<1>3. /\ \A b \in Block : ~FallsBack(HomeAddr(b))
      /\ \A i \in Slot : ~FallsBack(SlotAddr(i))
      /\ ~FallsBack(HeadAddr)
  BY <1>1, <1>2 DEF FlagInv, FallsBack
<1> QED
  BY <1>3 DEF BreadHome, BreadSlot

\* bget() recycles no buffer that the log still needs.
LEMMA EvictedUnpinned ==
  ASSUME IInv, ShortInv, NEW b \in Block, EvictHome(b)
  PROVE  b \notin Pinned
<1> SUFFICES ASSUME b \in Pinned PROVE FALSE
  OBVIOUS
<1>1. ~Booting /\ b \in SeqRange(lh)
  <2>1. tail \in Nat /\ lh \in Seq(Block)
    BY DEF IInv, TypeOK
  <2>2. \A i \in tail + 1..Len(lh) : i \in 1..Len(lh)
    BY <2>1
  <2> QED
    BY <2>2 DEF Pinned, SeqRange
<1>2. b \in short
  BY DEF EvictHome, Refcnt
<1> QED
  BY <1>1, <1>2 DEF ShortInv

\* Where the loops are.
LEMMA AtBlock ==
  ASSUME ConstantsAssumption, IInv, phase \in {"log", "install"}
  PROVE  /\ tail + 1 \in Slot /\ tail + 1 \in 1..Len(lh) /\ Cur \in Block
         /\ Cur = lh[tail + 1] /\ Cur \in SeqRange(lh) /\ tail \in Nat
         /\ half # 0 => cache[Cur] # NoVal
         /\ \A i \in 1..Len(lh) : i \in Slot /\ lh[i] \in Block
<1>1. /\ tail + 1 \in 1..Len(lh) /\ tail \in Nat
      /\ lh \in Seq(Block) /\ Len(lh) <= LOGSIZE /\ Len(lh) \in Nat
      /\ half # 0 => cache[Cur] \in Value
  BY DEF IInv, TypeOK, LoopInv
<1>2. tail + 1 \in Slot /\ \A i \in 1..Len(lh) : i \in Slot /\ lh[i] \in Block
  BY <1>1 DEF ConstantsAssumption, Slot
<1> QED
  BY <1>1, <1>2 DEF ConstantsAssumption, Cur, SeqRange

\* No buffer is between a change and log_write() while the commit or the
\* recovery runs.
LEMMA QuietWriters ==
  ASSUME IInv, phase # "idle"
  PROVE  Writing = {}
  BY DEF IInv, QuietInv, Open, Writing

\* A buffer that nobody has changed holds what recovery would make of its block.
LEMMA ViewClean ==
  ASSUME CacheInv, NEW b \in Block, b \notin Dirty
  PROVE  View(b) = Recovered(b)
  BY DEF CacheInv, View

-----------------------------------------------------------------------------
\* Without failures of disk 0 the flags stay so.
LEMMA FlagStep ==
  ASSUME Disk0Works, FlagInv, [Next]_vars
  PROVE  FlagInv'
<1>1. fail' \in {fail, -1} \cup FailIds /\ bad' \in {bad, NoAddr} \cup BadAddrs
  BY DEF Next, OpStep, CommitStep, BeginOpSleep, BeginOp, LogAppend, EndOp,
     EndOpDone, FsWrite, FsRead, EvictHome, EvictSlot, SetDiskFail,
     SetBadBlock, LoadLog, LoadHome, BwritePbn0, Pbn1Log, Pbn1Head, Pbn1Home,
     Pbn1Clear, ReadHead, Crash, flags, vars
<1> QED
  BY <1>1 DEF Disk0Works, FlagInv

\* Only bwrite()'s first transfer changes disk 0.
LEMMA Disk0Same ==
  ASSUME IInv, [Next]_vars, ~BwritePbn0
  PROVE  /\ home'[0] = home[0] /\ slot'[0] = slot[0] /\ head'[0] = head[0]
         /\ \A b : Recovered(b)' = Recovered(b)
<1>1. /\ home' = home \/ \E b, v : home' = [home EXCEPT ![1][b] = v]
      /\ slot' = slot \/ \E i, v : slot' = [slot EXCEPT ![1][i] = v]
      /\ head' = head \/ \E s : head' = [head EXCEPT ![1] = s]
  <2>1. CASE CommitStep
    BY <2>1 DEF CommitStep, LoadLog, LoadHome, Pbn1Log, Pbn1Head, Pbn1Home,
       Pbn1Clear, ReadHead, disks
  <2>2. CASE UNCHANGED disks
    BY <2>2 DEF disks
  <2> QED
    BY <2>1, <2>2 DEF Next, OpStep, BeginOpSleep, BeginOp, LogAppend, EndOp,
       EndOpDone, FsWrite, FsRead, EvictHome, EvictSlot, SetDiskFail,
       SetBadBlock, Crash, vars
<1>2. /\ home \in [Disk -> [Block -> Value]] /\ slot \in [Disk -> [Slot -> Value]]
      /\ head \in [Disk -> Seq(Block)]
  BY DEF IInv, TypeOK
<1>3. home'[0] = home[0] /\ slot'[0] = slot[0] /\ head'[0] = head[0]
  BY <1>1, <1>2 DEF Disk
<1> QED
  BY <1>3, RecoveredIs

-----------------------------------------------------------------------------
\* Where the header of disk 0 stands.
LEMMA HeaderStep ==
  ASSUME ConstantsAssumption, IInv, FlagInv, HeaderInv, [Next]_vars
  PROVE  HeaderInv'
<1>0. TypeOK /\ QuietInv /\ LoopInv
  BY DEF IInv
<1>a. ~FallsBack(HeadAddr)
  BY PlainRead
<1>b. \A p \in Proc : pc[p] \in {"in", "logging"} => phase = "idle" /\ ~committing
  BY <1>0 DEF QuietInv, Open
<1>1. ASSUME head'[0] = head[0],
             UNCHANGED <<lh, phase, committing>>,
             half' = half \/ phase \notin {"head", "clear"}
      PROVE  HeaderInv'
  BY <1>1 DEF HeaderInv
<1>2. ASSUME NEW p \in Proc, OpStep(p) PROVE HeaderInv'
  <2>1. CASE BeginOpSleep(p) \/ BeginOp(p)
    BY <1>1, <2>1 DEF BeginOpSleep, BeginOp, disks, cvars
  <2>2. CASE LogAppend(p)
    <3>1. /\ phase = "idle" /\ UNCHANGED <<head, phase, committing>> /\ ~committing
          /\ lh' = IF wblk[p] \in SeqRange(lh) THEN lh ELSE Append(lh, wblk[p])
      BY <1>b, <2>2 DEF LogAppend, disks, cvars
    <3>2. NoRepeat(lh')
      <4>1. CASE lh' = lh
        BY <4>1 DEF HeaderInv
      <4>2. CASE wblk[p] \notin SeqRange(lh) /\ lh' = Append(lh, wblk[p])
        <5>1. /\ Len(lh') = Len(lh) + 1 /\ Len(lh) \in Nat
              /\ lh'[Len(lh) + 1] = wblk[p]
              /\ \A i \in 1..Len(lh) : lh'[i] = lh[i] /\ lh[i] # wblk[p]
          <6>1. lh \in Seq(Block)
            BY <1>0 DEF TypeOK
          <6> QED
            BY <4>2, <6>1 DEF SeqRange
        <5>2. NoRepeat(lh)
          BY DEF HeaderInv
        <5> QED
          BY <5>1, <5>2 DEF NoRepeat
      <4> QED
        BY <3>1, <4>1, <4>2
    <3> QED
      BY <3>1, <3>2 DEF HeaderInv
  <2>3. CASE EndOp(p)
    <3>1. /\ phase = "idle" /\ ~committing /\ UNCHANGED <<head, lh>>
          /\ IF outstanding = 1
             THEN committing' /\ phase' = IF lh = <<>> THEN "done" ELSE "log"
             ELSE ~committing' /\ phase' = "idle"
      BY <1>b, <2>3 DEF EndOp, disks
    <3> QED
      BY <3>1 DEF HeaderInv
  <2>4. CASE EndOpDone(p)
    BY <2>4 DEF EndOpDone, HeaderInv, disks
  <2> QED
    BY <1>2, <2>1, <2>2, <2>3, <2>4 DEF OpStep
<1>3. CASE \/ \E p \in Proc, b \in Block, v \in Value : FsWrite(p, b, v)
           \/ \E b \in Block : FsRead(b) \/ EvictHome(b)
           \/ \E i \in Slot : EvictSlot(i)
           \/ \E f \in FailIds : SetDiskFail(f)
           \/ \E a \in BadAddrs \cup {NoAddr} : SetBadBlock(a)
           \/ UNCHANGED vars
  BY <1>1, <1>3 DEF FsWrite, FsRead, EvictHome, EvictSlot, SetDiskFail,
     SetBadBlock, vars, disks, opvars, cvars
<1>4. CASE LoadLog \/ LoadHome
  BY <1>1, <1>4 DEF LoadLog, LoadHome, disks, opvars
<1>5. CASE BwritePbn0
  <2>1. /\ half = 1 /\ half' = 2 /\ UNCHANGED <<lh, phase, committing>>
        /\ head'[0] = IF phase \in {"head", "clear"} THEN lh ELSE head[0]
    BY <1>0, <1>a, <1>5 DEF BwritePbn0, opvars, TypeOK, Disk
  <2> QED
    BY <2>1 DEF HeaderInv
<1>6. CASE Pbn1Log \/ Pbn1Head \/ Pbn1Home \/ Pbn1Clear \/ ReadHead
  <2>1. head'[0] = head[0] /\ UNCHANGED committing
    BY <1>6, Disk0Same DEF Pbn1Log, Pbn1Head, Pbn1Home, Pbn1Clear, ReadHead,
       BwritePbn0, opvars
  <2>2. CASE Pbn1Log
    BY <2>1, <2>2 DEF Pbn1Log, HeaderInv
  <2>3. CASE Pbn1Head
    BY <2>1, <2>3 DEF Pbn1Head, HeaderInv
  <2>4. CASE Pbn1Home
    BY <2>1, <2>4, EmptyLog DEF Pbn1Home, HeaderInv
  <2>5. CASE Pbn1Clear
    BY <2>1, <2>5 DEF Pbn1Clear, HeaderInv
  <2>6. CASE ReadHead
    BY <2>1, <2>6 DEF ReadHead, HeaderInv
  <2> QED
    BY <1>6, <2>2, <2>3, <2>4, <2>5, <2>6
<1>7. CASE Crash
  BY <1>7, EmptyLog DEF Crash, HeaderInv, disks
<1> QED
  BY <1>2, <1>3, <1>4, <1>5, <1>6, <1>7 DEF Next, CommitStep

-----------------------------------------------------------------------------
\* bread() finds in the buffer of a block what is to be logged or what has been
\* installed.
\* While write_log() runs every block of the log is pinned in its buffer.
LEMMA CommitBuffers ==
  ASSUME ConstantsAssumption, IInv, HeaderInv, CacheInv, phase \in {"log", "head"}
  PROVE  /\ committing /\ ~Booting /\ Pinned = SeqRange(lh)
         /\ \A i \in 1..Len(lh) : cache[lh[i]] # NoVal /\ lh[i] \in Pinned
<1>1. committing /\ ~Booting /\ Pinned = SeqRange(lh)
  BY DEF HeaderInv, Booting, Pinned
<1> QED
  BY <1>1 DEF CacheInv, SeqRange

\* What bread() finds on disk 0 in a block that is in no buffer is what recovery
\* would find.
LEMMA ReadsRecovered ==
  ASSUME ConstantsAssumption, IInv, StoreInv, NEW b \in Block, ~Booting,
         cache[b] = NoVal
  PROVE  home[0][b] = Recovered(b)
<1>0. FlagInv /\ HeaderInv /\ CopyInv /\ CacheInv
  BY DEF StoreInv
<1>1. CASE b \notin SeqRange(head[0])
  BY <1>0, <1>1, RecoveredOnDisk
<1>2. CASE b \in SeqRange(head[0])
  <2>1. PICK i \in 1..Len(head[0]) : b = head[0][i]
    BY <1>2 DEF SeqRange
  <2>2. Recovered(b) = slot[0][i]
    BY <1>0, <2>1, RecoveredOnDisk
  <2>3. phase # "head"
    <3> SUFFICES ASSUME phase = "head" PROVE FALSE
      OBVIOUS
    <3>1. head[0] = lh
      BY <1>0, <2>1, EmptyLog DEF HeaderInv
    <3> QED
      BY <1>0, <2>1, <3>1, CommitBuffers
  <2>4. phase \in {"install", "clear"}
    <3>1. phase \in Phases /\ phase # "boot"
      BY <1>0 DEF IInv, TypeOK, HeaderInv, Booting
    <3>2. head[0] # <<>>
      BY <2>1, EmptyLog
    <3> QED
      BY <1>0, <2>3, <3>1, <3>2 DEF HeaderInv, Phases
  <2>5. CASE phase = "install"
    <3>1. lh = head[0] /\ i \in 1..Len(lh) /\ Len(lh) \in Nat /\ tail \in Nat
      BY <1>0, <2>1, <2>5 DEF HeaderInv, IInv, TypeOK
    <3>2. i \notin tail + 1..Len(lh)
      BY <1>0, <2>1, <2>5, <3>1 DEF CacheInv, Pinned
    <3>3. i \in 1..tail
      BY <3>1, <3>2
    <3> QED
      BY <1>0, <2>1, <2>2, <2>5, <3>1, <3>3 DEF CopyInv
  <2>6. CASE phase = "clear"
    BY <1>0, <2>1, <2>2, <2>6 DEF CopyInv
  <2> QED
    BY <2>4, <2>5, <2>6
<1> QED
  BY <1>1, <1>2

\* A read, and the read in write_log(), leaves every buffer that is filled.
LEMMA ReadKeeps ==
  ASSUME FlagInv, IInv, NEW b \in Block,
         cache' = [cache EXCEPT ![b] = BreadHome(b)]
  PROVE  \A c \in Block : cache[c] # NoVal \/ c # b => cache'[c] = cache[c]
<1>1. BreadHome(b) = IF cache[b] # NoVal THEN cache[b] ELSE home[0][b]
  BY PlainRead
<1> QED
  BY <1>1 DEF IInv, TypeOK

\* What write_log() and install_trans() read: the buffer that is to be logged,
\* and the log block that is to be installed.
LEMMA LogReads ==
  ASSUME ConstantsAssumption, IInv, StoreInv, phase = "log"
  PROVE  Cur \in Block /\ BreadHome(Cur) = cache[Cur] /\ cache[Cur] # NoVal
<1>0. FlagInv /\ HeaderInv /\ CacheInv
  BY DEF StoreInv
<1>1. Cur = lh[tail + 1] /\ tail + 1 \in 1..Len(lh) /\ Cur \in Block
  BY AtBlock
<1>2. cache[Cur] # NoVal
  BY <1>0, <1>1, CommitBuffers
<1> QED
  BY <1>0, <1>1, <1>2, PlainRead

\* The log block install_trans() copies is what recovery would make of its block.
LEMMA InstallReads ==
  ASSUME ConstantsAssumption, IInv, StoreInv, phase = "install"
  PROVE  /\ Cur \in Block /\ BreadSlot(tail + 1) = slot[0][tail + 1]
         /\ Recovered(Cur) = slot[0][tail + 1] /\ Recovered(Cur) # NoVal
<1>0. FlagInv /\ HeaderInv /\ CopyInv /\ TypeOK
  BY DEF StoreInv, IInv
<1>1. /\ Cur \in Block /\ Cur = lh[tail + 1] /\ tail + 1 \in 1..Len(lh)
      /\ tail + 1 \in Slot
  BY AtBlock
<1>2. scache[tail + 1] \in {NoVal, slot[0][tail + 1]}
  BY <1>0, <1>1 DEF CopyInv
<1>3. BreadSlot(tail + 1) = slot[0][tail + 1]
  BY <1>0, <1>1, <1>2, PlainRead
<1>4. Recovered(Cur) = slot[0][tail + 1]
  BY <1>0, <1>1, RecoveredOnDisk DEF HeaderInv
<1>5. slot[0][tail + 1] # NoVal
  BY <1>0, <1>1 DEF TypeOK, ConstantsAssumption, Disk
<1> QED
  BY <1>1, <1>3, <1>4, <1>5

-----------------------------------------------------------------------------
\* bwrite()'s first transfer: it changes what a crash leaves in one case, when
\* it writes the header of a whole group, and then to what readers see.
LEMMA BwriteRecovered ==
  ASSUME ConstantsAssumption, IInv, StoreInv, BwritePbn0, NEW b \in Block
  PROVE  Recovered(b)' = IF phase = "head" THEN View(b) ELSE Recovered(b)
<1>0. /\ FlagInv /\ HeaderInv /\ CopyInv /\ CacheInv
      /\ TypeOK /\ half = 1 /\ phase # "idle"
  BY DEF StoreInv, IInv, BwritePbn0
<1>a. /\ home \in [Disk -> [Block -> Value]] /\ slot \in [Disk -> [Slot -> Value]]
      /\ head \in [Disk -> Seq(Block)] /\ 0 \in Disk
  BY <1>0 DEF TypeOK, Disk
<1>b. ~FallsBack(HeadAddr)
  BY <1>0, PlainRead
<1>1. CASE phase = "log"
  <2>1. head[0] = <<>> /\ UNCHANGED <<home, head>>
    BY <1>0, <1>1 DEF BwritePbn0, HeaderInv
  <2> QED
    BY <1>1, <2>1, RecoveredIs, RecoveredHome, EmptyLog
<1>2. CASE phase = "clear"
  <2>1. head'[0] = <<>> /\ UNCHANGED <<home, slot>>
    BY <1>0, <1>a, <1>b, <1>2 DEF BwritePbn0, HeaderInv
  <2>2. Recovered(b)' = home[0][b]
    BY <2>1, RecoveredIs, RecoveredHome, EmptyLog
  <2>3. \A i \in 1..Len(head[0]) : Recovered(head[0][i]) = home[0][head[0][i]]
    BY <1>0, <1>2, RecoveredOnDisk DEF CopyInv
  <2>4. Recovered(b) = home[0][b]
    BY <1>0, <2>3, RecoveredOnDisk DEF SeqRange
  <2> QED
    BY <1>2, <2>2, <2>4
<1>3. CASE phase = "install"
  <2>1. /\ head[0] = lh /\ UNCHANGED <<head, slot>>
        /\ home' = home \/ home' = [home EXCEPT ![0][Cur] = cache[Cur]]
    BY <1>0, <1>3 DEF BwritePbn0, HeaderInv
  <2>2. Cur \in SeqRange(head[0])
    BY <1>3, <2>1, AtBlock
  <2>3. \A c \in Block : c # Cur => home'[0][c] = home[0][c]
    BY <1>a, <2>1
  <2>4. CASE b \in SeqRange(head[0])
    <3>1. NoRepeat(head[0])
      BY <1>0 DEF HeaderInv
    <3>2. RecoveredFrom(head[0], slot[0], home'[0], b)
            = RecoveredFrom(head[0], slot[0], home[0], b)
      BY <2>4, <3>1, RecoveredFromLog
    <3> QED
      BY <1>3, <2>1, <3>2, RecoveredIs
  <2>5. CASE b \notin SeqRange(head[0])
    <3>1. Recovered(b) = home[0][b] /\ Recovered(b)' = home'[0][b]
      BY <2>1, <2>5, RecoveredIs, RecoveredHome
    <3> QED
      BY <1>3, <2>2, <2>3, <2>5, <3>1
  <2> QED
    BY <2>4, <2>5
<1>4. CASE phase = "head"
  <2>1. head[0] = <<>> /\ head'[0] = lh /\ UNCHANGED <<home, slot>>
    BY <1>0, <1>a, <1>b, <1>4 DEF BwritePbn0, HeaderInv
  <2>2. \A i \in 1..Len(lh) : cache[lh[i]] # NoVal /\ slot[0][i] = cache[lh[i]]
    BY <1>0, <1>4, CommitBuffers DEF CopyInv
  <2>3. CASE b \in SeqRange(lh)
    <3>1. NoRepeat(lh)
      BY <1>0 DEF HeaderInv
    <3>2. PICK i \in 1..Len(lh) :
            lh[i] = b /\ RecoveredFrom(lh, slot[0], home[0], b) = slot[0][i]
      BY <2>3, <3>1, RecoveredFromLog
    <3>3. Recovered(b)' = slot[0][i]
      BY <2>1, <3>2, RecoveredIs
    <3> QED
      BY <1>4, <2>2, <3>2, <3>3 DEF View
  <2>4. CASE b \notin SeqRange(lh)
    <3>1. b \notin Dirty
      BY <1>0, <2>4, QuietWriters DEF Dirty
    <3>2. Recovered(b)' = home[0][b] /\ Recovered(b) = home[0][b]
      BY <2>1, <2>4, RecoveredIs, RecoveredHome, EmptyLog
    <3> QED
      BY <1>0, <1>4, <3>1, <3>2, ViewClean
  <2> QED
    BY <2>3, <2>4
<1> QED
  BY <1>1, <1>2, <1>3, <1>4 DEF BwritePbn0

-----------------------------------------------------------------------------
\* write_log() copies the buffers, install_trans() copies the log.
LEMMA CopyStep ==
  ASSUME ConstantsAssumption, IInv, StoreInv, [Next]_vars
  PROVE  CopyInv'
<1>0. FlagInv /\ HeaderInv /\ CopyInv /\ CacheInv /\ TypeOK /\ QuietInv
  BY DEF StoreInv, IInv
<1>a. /\ home \in [Disk -> [Block -> Value]] /\ slot \in [Disk -> [Slot -> Value]]
      /\ head \in [Disk -> Seq(Block)] /\ 0 \in Disk /\ tail \in Nat
      /\ cache \in [Block -> Value \cup {NoVal}]
      /\ scache \in [Slot -> Value \cup {NoVal}]
  BY <1>0 DEF TypeOK, Disk
<1>b. \A p \in Proc : pc[p] \in {"in", "logging"} => phase = "idle"
  BY <1>0 DEF QuietInv, Open
<1>c. phase \in {"log", "install"} =>
        /\ tail + 1 \in Slot /\ tail + 1 \in 1..Len(lh) /\ Cur \in Block
        /\ Cur = lh[tail + 1]
        /\ \A i \in 1..Len(lh) : i \in Slot /\ lh[i] \in Block
  BY AtBlock
\* The buffers the loops have to find again.
<1> DEFINE Needed == (IF phase \in {"log", "head"} THEN SeqRange(lh) ELSE {})
                       \cup (IF phase = "install" /\ half # 0 THEN {Cur} ELSE {})
<1>d. \A c \in Needed : cache[c] # NoVal /\ c \in Block
  <2>1. phase = "install" /\ half # 0 => cache[Cur] # NoVal /\ Cur \in Block
    BY AtBlock
  <2>2. phase \in {"log", "head"} => \A c \in SeqRange(lh) : cache[c] # NoVal
    BY <1>0, CommitBuffers DEF SeqRange
  <2>3. \A c \in SeqRange(lh) : c \in Block
    BY <1>0 DEF TypeOK, SeqRange
  <2> QED
    BY <2>1, <2>2, <2>3
<1>1. ASSUME UNCHANGED <<lh, phase, tail, half>>,
             home'[0] = home[0], slot'[0] = slot[0], head'[0] = head[0],
             \A c \in Needed : cache'[c] = cache[c],
             \A i \in Slot : scache'[i] = scache[i]
                             \/ /\ scache'[i] = NoVal
                                /\ ~(phase = "log" /\ half # 0 /\ i = tail + 1)
      PROVE  CopyInv'
  <2>1. \A i \in Slot : \/ scache'[i] \in {NoVal, slot'[0][i]}
                         \/ (phase' = "log" /\ half' = 1 /\ i = tail' + 1)
    BY <1>0, <1>1 DEF CopyInv
  <2>2. ASSUME phase = "log"
        PROVE  /\ \A i \in 1..tail : slot'[0][i] = cache'[lh[i]]
               /\ half # 0 => scache'[tail + 1] = cache'[Cur]
               /\ half = 2 => slot'[0][tail + 1] = cache'[Cur]
    <3>1. \A i \in 1..tail + 1 : lh[i] \in Needed /\ cache'[lh[i]] = cache[lh[i]]
      <4>1. \A i \in 1..tail + 1 : i \in 1..Len(lh)
        BY <1>a, <1>c, <2>2
      <4> QED
        BY <1>1, <2>2, <4>1 DEF SeqRange
    <3>2. Cur = lh[tail + 1] /\ tail + 1 \in 1..tail + 1 /\ tail + 1 \in Slot
      BY <1>a, <1>c, <2>2
    <3>3. \A i \in 1..tail : i \in 1..tail + 1
      BY <1>a
    <3>4. cache'[Cur] = cache[Cur]
      BY <3>1, <3>2
    <3>5. half # 0 => scache'[tail + 1] = scache[tail + 1]
      BY <1>1, <2>2, <3>2
    <3> QED
      BY <1>0, <1>1, <2>2, <3>1, <3>3, <3>4, <3>5 DEF CopyInv
  <2>3. ASSUME phase = "head"
        PROVE  \A i \in 1..Len(lh) : slot'[0][i] = cache'[lh[i]]
    BY <1>0, <1>1, <2>3 DEF CopyInv, SeqRange
  <2>4. ASSUME phase = "install", half # 0
        PROVE  cache'[Cur] = cache[Cur]
    BY <1>1, <2>4
  <2>5. Cur' = Cur
    BY <1>1 DEF Cur
  <2> HIDE DEF Needed
  <2> QED
    BY <1>0, <1>1, <2>1, <2>2, <2>3, <2>4, <2>5 DEF CopyInv
<1>2. ASSUME phase \notin {"log", "head", "install", "clear"},
             phase' = "log" => tail' = 0 /\ half' = 0,
             phase' \notin {"head", "install", "clear"},
             slot'[0] = slot[0],
             UNCHANGED scache
      PROVE  CopyInv'
  BY <1>0, <1>2 DEF CopyInv
<1>3. ASSUME NEW p \in Proc, OpStep(p) PROVE CopyInv'
  <2>0. slot'[0] = slot[0] /\ home'[0] = home[0] /\ head'[0] = head[0]
    BY <1>3 DEF OpStep, BeginOpSleep, BeginOp, LogAppend, EndOp, EndOpDone, disks
  <2>1. CASE BeginOpSleep(p) \/ BeginOp(p)
    BY <1>1, <2>0, <2>1 DEF BeginOpSleep, BeginOp, cvars, bufs
  <2>2. CASE LogAppend(p) \/ EndOp(p)
    <3>1. phase = "idle" /\ UNCHANGED scache
      BY <1>b, <2>2 DEF LogAppend, EndOp, bufs
    <3>2. /\ phase' \in {"idle", "log", "done"}
          /\ phase' = "log" => tail' = 0 /\ half' = 0
      BY <2>2, <3>1 DEF LogAppend, EndOp, cvars
    <3> QED
      BY <1>2, <2>0, <3>1, <3>2
  <2>3. CASE EndOpDone(p)
    BY <1>2, <2>0, <2>3 DEF EndOpDone, bufs
  <2> QED
    BY <1>3, <2>1, <2>2, <2>3 DEF OpStep
<1>4. ASSUME NEW p \in Proc, NEW b \in Block, NEW v \in Value, FsWrite(p, b, v)
      PROVE  CopyInv'
  BY <1>2, <1>4, <1>b DEF FsWrite, cvars, disks
<1>5. ASSUME NEW b \in Block, FsRead(b) PROVE CopyInv'
  <2>1. \A c \in Needed : cache'[c] = cache[c]
    BY <1>0, <1>5, <1>d, ReadKeeps DEF FsRead, StoreInv, IInv
  <2> HIDE DEF Needed
  <2> QED
    BY <1>1, <1>5, <2>1 DEF FsRead, disks, cvars
<1>6. ASSUME NEW b \in Block, EvictHome(b) PROVE CopyInv'
  <2>1. b \notin Needed
    <3>1. /\ phase \in {"log", "head"} => Pinned = SeqRange(lh)
          /\ b \notin Pinned
      BY <1>0, <1>6, CommitBuffers, EvictedUnpinned DEF StoreInv
    <3>2. phase = "install" /\ half # 0 => b # Cur
      BY <1>6 DEF EvictHome, Locked
    <3> QED
      BY <1>6, <3>1, <3>2 DEF EvictHome
  <2>2. \A c \in Needed : cache'[c] = cache[c]
    BY <1>6, <1>a, <1>d, <2>1 DEF EvictHome
  <2> HIDE DEF Needed
  <2> QED
    BY <1>1, <1>6, <2>2 DEF EvictHome, disks, cvars
<1>7. ASSUME NEW i \in Slot, EvictSlot(i) PROVE CopyInv'
  <2>1. \A j \in Slot : \/ scache'[j] = scache[j]
                         \/ /\ scache'[j] = NoVal
                            /\ ~(phase = "log" /\ half # 0 /\ j = tail + 1)
    BY <1>7, <1>a DEF EvictSlot
  <2> QED
    BY <1>1, <1>7, <2>1 DEF EvictSlot, disks, cvars
<1>8. CASE \/ \E f \in FailIds : SetDiskFail(f)
           \/ \E a \in BadAddrs \cup {NoAddr} : SetBadBlock(a)
           \/ UNCHANGED vars
  BY <1>1, <1>8 DEF SetDiskFail, SetBadBlock, vars, disks, bufs, cvars
<1>9. CASE LoadLog
  <2>1. /\ phase = "log" /\ half = 0 /\ half' = 1
        /\ UNCHANGED <<disks, lh, phase, tail>>
        /\ cache' = [cache EXCEPT ![Cur] = BreadHome(Cur)]
        /\ scache' = [scache EXCEPT ![tail + 1] = BreadHome(Cur)]
    BY <1>9 DEF LoadLog
  <2>2. BreadHome(Cur) = cache[Cur] /\ cache' = cache
    BY <1>a, <2>1, LogReads
  <2>3. /\ scache'[tail + 1] = cache[Cur]
        /\ \A i \in Slot : i # tail + 1 => scache'[i] = scache[i]
    BY <1>a, <1>c, <2>1, <2>2
  <2>4. Cur' = Cur
    BY <2>1 DEF Cur
  <2> QED
    BY <1>0, <2>1, <2>2, <2>3, <2>4 DEF CopyInv, disks
<1>10. CASE LoadHome
  <2>1. /\ phase = "install" /\ half = 0 /\ half' = 1
        /\ UNCHANGED <<disks, lh, phase, tail>>
        /\ cache' = [cache EXCEPT ![Cur] = BreadSlot(tail + 1)]
        /\ scache' = [scache EXCEPT ![tail + 1] = BreadSlot(tail + 1)]
    BY <1>10 DEF LoadHome
  <2>2. BreadSlot(tail + 1) = slot[0][tail + 1]
    BY <2>1, InstallReads
  <2>3. /\ scache'[tail + 1] = slot[0][tail + 1] /\ cache'[Cur] = slot[0][tail + 1]
        /\ \A i \in Slot : i # tail + 1 => scache'[i] = scache[i]
    BY <1>a, <1>c, <2>1, <2>2
  <2>4. Cur' = Cur
    BY <2>1 DEF Cur
  <2> QED
    BY <1>0, <2>1, <2>3, <2>4 DEF CopyInv, disks
<1>11. CASE BwritePbn0
  <2>0. /\ half = 1 /\ half' = 2 /\ UNCHANGED <<cache, scache, lh, phase, tail>>
        /\ Cur' = Cur
    BY <1>11 DEF BwritePbn0, bufs, Cur
  <2>1. CASE phase = "log"
    <3>1. /\ UNCHANGED <<home, head>>
          /\ slot' = [slot EXCEPT ![0][tail + 1] = scache[tail + 1]]
      BY <1>0, <1>c, <1>11, <2>1, PlainRead DEF BwritePbn0
    <3>2. /\ slot'[0][tail + 1] = scache[tail + 1]
          /\ \A i \in Slot : i # tail + 1 => slot'[0][i] = slot[0][i]
      BY <1>a, <1>c, <2>1, <3>1
    <3>3. \A i \in 1..tail : i \in Slot /\ i # tail + 1
      BY <1>a, <1>c, <2>1 DEF Slot
    <3> QED
      BY <1>0, <2>0, <2>1, <3>2, <3>3 DEF CopyInv
  <2>2. CASE phase = "head"
    <3>1. UNCHANGED <<home, slot>>
      BY <1>11, <2>2 DEF BwritePbn0
    <3> QED
      BY <1>0, <2>0, <2>2, <3>1 DEF CopyInv
  <2>3. CASE phase = "clear"
    <3>1. UNCHANGED slot /\ head'[0] = <<>>
      BY <1>0, <1>a, <1>11, <2>3, PlainRead DEF BwritePbn0, HeaderInv
    <3> QED
      BY <1>0, <2>0, <2>3, <3>1, EmptyLog DEF CopyInv
  <2>4. CASE phase = "install"
    <3>1. /\ UNCHANGED <<slot, head>>
          /\ home' = [home EXCEPT ![0][Cur] = cache[Cur]]
      BY <1>0, <1>c, <1>11, <2>4, PlainRead DEF BwritePbn0
    <3>2. /\ home'[0][Cur] = cache[Cur]
          /\ \A c \in Block : c # Cur => home'[0][c] = home[0][c]
      BY <1>a, <1>c, <2>4, <3>1
    <3>3. \A i \in 1..tail : lh[i] \in Block /\ lh[i] # Cur
      <4>1. \A i \in 1..tail : i \in 1..Len(lh) /\ i # tail + 1
        BY <1>a, <1>c, <2>4
      <4> QED
        BY <1>0, <1>c, <2>4, <4>1 DEF HeaderInv, NoRepeat
    <3>4. cache[Cur] = slot[0][tail + 1]
      BY <1>0, <2>0, <2>4 DEF CopyInv
    <3> QED
      BY <1>0, <2>0, <2>4, <3>1, <3>2, <3>3, <3>4 DEF CopyInv
  <2> QED
    BY <1>11, <2>1, <2>2, <2>3, <2>4 DEF BwritePbn0
<1>12. CASE Pbn1Log \/ Pbn1Head \/ Pbn1Home \/ Pbn1Clear \/ ReadHead
  <2>0. /\ home'[0] = home[0] /\ slot'[0] = slot[0] /\ head'[0] = head[0]
        /\ UNCHANGED <<cache, scache>>
    BY <1>12, Disk0Same
       DEF Pbn1Log, Pbn1Head, Pbn1Home, Pbn1Clear, ReadHead, BwritePbn0, bufs
  <2>1. CASE Pbn1Log
    <3>1. \A i \in 1..tail + 1 : slot[0][i] = cache[lh[i]]
      <4>1. \A i \in 1..tail + 1 : i \in 1..tail \/ i = tail + 1
        BY <1>a
      <4> QED
        BY <1>0, <1>c, <2>1, <4>1 DEF Pbn1Log, CopyInv
    <3>2. ~(tail + 1 < Len(lh)) => 1..Len(lh) = 1..tail + 1
      BY <1>0, <1>a, <1>c, <2>1 DEF Pbn1Log, TypeOK
    <3>3. CASE tail + 1 < Len(lh)
      <4>1. phase' = "log" /\ tail' = tail + 1 /\ half' = 0 /\ UNCHANGED lh
        BY <2>1, <3>3 DEF Pbn1Log
      <4> QED
        BY <1>0, <2>0, <2>1, <3>1, <4>1 DEF Pbn1Log, CopyInv, bufs
    <3>4. CASE ~(tail + 1 < Len(lh))
      <4>1. half = 2 /\ phase' = "head" /\ UNCHANGED lh
        BY <2>1, <3>4 DEF Pbn1Log
      <4>2. \A i \in 1..Len(lh') : slot'[0][i] = cache'[lh'[i]]
        BY <2>0, <3>1, <3>2, <3>4, <4>1 DEF bufs
      <4>3. \A i \in Slot : scache'[i] \in {NoVal, slot'[0][i]}
        BY <1>0, <2>0, <4>1 DEF CopyInv, bufs
      <4> QED
        BY <4>1, <4>2, <4>3 DEF CopyInv
    <3> QED
      BY <3>3, <3>4
  <2>2. CASE Pbn1Head
    BY <1>0, <2>0, <2>2 DEF Pbn1Head, CopyInv, bufs
  <2>3. CASE Pbn1Home
    <3>1. \A i \in 1..tail + 1 : home[0][lh[i]] = slot[0][i]
      <4>1. \A i \in 1..tail + 1 : i \in 1..tail \/ i = tail + 1
        BY <1>a
      <4> QED
        BY <1>0, <1>c, <2>3, <4>1 DEF Pbn1Home, CopyInv
    <3>2. /\ ~(tail + 1 < Len(lh)) => 1..Len(lh) = 1..tail + 1
          /\ head[0] = lh
      BY <1>0, <1>a, <1>c, <2>3 DEF Pbn1Home, TypeOK, HeaderInv
    <3>3. CASE tail + 1 < Len(lh)
      <4>1. phase' = "install" /\ tail' = tail + 1 /\ half' = 0 /\ UNCHANGED lh
        BY <2>3, <3>3 DEF Pbn1Home
      <4> QED
        BY <1>0, <2>0, <2>3, <3>1, <4>1 DEF Pbn1Home, CopyInv, bufs
    <3>4. CASE ~(tail + 1 < Len(lh))
      <4>1. phase' = "clear"
        BY <2>3, <3>4 DEF Pbn1Home
      <4> QED
        BY <1>0, <2>0, <2>3, <3>1, <3>2, <3>4, <4>1 DEF Pbn1Home, CopyInv, bufs
    <3> QED
      BY <3>3, <3>4
  <2>4. CASE Pbn1Clear
    BY <1>0, <2>0, <2>4 DEF Pbn1Clear, CopyInv, bufs
  <2>5. CASE ReadHead
    BY <1>0, <2>0, <2>5, EmptyLog DEF ReadHead, CopyInv, bufs
  <2> QED
    BY <1>12, <2>1, <2>2, <2>3, <2>4, <2>5
<1>13. CASE Crash
  BY <1>13 DEF Crash, CopyInv, disks
<1> QED
  BY <1>3, <1>4, <1>5, <1>6, <1>7, <1>8, <1>9, <1>10, <1>11, <1>12, <1>13
     DEF Next, CommitStep

-----------------------------------------------------------------------------
\* Each buffer that is not waiting for a commit holds what recovery would make
\* of its block, and those that wait are in the cache.
LEMMA CacheStep ==
  ASSUME ConstantsAssumption, IInv, StoreInv, [Next]_vars
  PROVE  CacheInv'
<1>0. FlagInv /\ HeaderInv /\ CopyInv /\ CacheInv /\ TypeOK /\ QuietInv /\ LoopInv
  BY DEF StoreInv, IInv
<1>a. /\ cache \in [Block -> Value \cup {NoVal}] /\ pc \in [Proc -> PCs]
      /\ wblk \in [Proc -> Block \cup {NoVal}] /\ lh \in Seq(Block)
      /\ NoVal \notin Value /\ committing \in BOOLEAN /\ tail \in Nat
  BY <1>0 DEF TypeOK, ConstantsAssumption
<1>b. \A p \in Proc : pc[p] \in {"in", "logging"} => phase = "idle" /\ ~committing
  BY <1>0 DEF QuietInv, Open
<1>c. ~BwritePbn0 => \A b \in Block : Recovered(b)' = Recovered(b)
  BY Disk0Same
<1>d. SeqRange(lh) \subseteq Block
  BY <1>a DEF SeqRange
\* A step that changes no buffer and takes no block out of the dirty ones.
<1>1. ASSUME UNCHANGED cache, ~BwritePbn0, Dirty \subseteq Dirty',
             \A p \in Proc : pc'[p] \notin {"logging", "panicked"} =>
               \/ wblk'[p] = NoVal
               \/ pc[p] \notin {"logging", "panicked"} /\ wblk'[p] = wblk[p],
             Writing' \subseteq Writing,
             \/ Booting' \/ Pinned' = {}
             \/ Pinned' \subseteq Pinned \cup Writing /\ ~Booting
      PROVE  CacheInv'
  <2>1. \A p \in Proc : pc'[p] \notin {"logging", "panicked"} => wblk'[p] = NoVal
    BY <1>0, <1>1 DEF CacheInv
  <2>2. \A b \in Writing' : cache'[b] # NoVal
    BY <1>0, <1>1 DEF CacheInv
  <2>3. ~Booting' => \A b \in Pinned' : cache'[b] # NoVal
    BY <1>0, <1>1 DEF CacheInv
  <2>4. \A b \in Block : b \in Dirty' \/ cache'[b] \in {NoVal, Recovered(b)'}
    BY <1>0, <1>1, <1>c DEF CacheInv
  <2> QED
    BY <2>1, <2>2, <2>3, <2>4 DEF CacheInv
\* The same when a step touches none of what the buffers depend on.
<1>2. ASSUME UNCHANGED <<cache, lh, wblk, committing, phase, tail, half>>, ~BwritePbn0,
             \A p \in Proc : pc'[p] \in {"logging", "panicked"}
                               <=> pc[p] \in {"logging", "panicked"}
      PROVE  CacheInv'
  <2>1. Writing' = Writing
    BY <1>2 DEF Writing
  <2>2. Dirty' = Dirty /\ Booting' = Booting /\ Pinned' = Pinned
    BY <1>2, <2>1 DEF Dirty, Booting, Pinned
  <2> QED
    BY <1>0, <1>1, <1>2, <2>1, <2>2 DEF CacheInv
<1>3. ASSUME NEW p \in Proc, OpStep(p) PROVE CacheInv'
  <2>0. ~BwritePbn0 /\ UNCHANGED cache
    BY <1>3 DEF OpStep, BeginOpSleep, BeginOp, LogAppend, EndOp, EndOpDone,
       BwritePbn0, disks, bufs, opvars, cvars
  <2>1. CASE BeginOpSleep(p) \/ BeginOp(p)
    BY <1>2, <1>a, <2>0, <2>1 DEF BeginOpSleep, BeginOp, cvars
  <2>2. CASE LogAppend(p)
    <3>1. /\ pc[p] = "logging" /\ phase = "idle"
          /\ UNCHANGED <<committing, phase, half, tail>>
          /\ lh' = IF wblk[p] \in SeqRange(lh) THEN lh ELSE Append(lh, wblk[p])
          /\ pc' = [pc EXCEPT ![p] = "in"] /\ wblk' = [wblk EXCEPT ![p] = NoVal]
      BY <1>b, <2>2 DEF LogAppend, cvars
    <3>2. wblk[p] \in Block /\ wblk[p] \in Writing
      BY <1>0, <3>1 DEF TypeOK, LoopInv, Writing
    <3>3. SeqRange(lh') = SeqRange(lh) \cup {wblk[p]}
      <4>1. CASE wblk[p] \in SeqRange(lh)
        BY <3>1, <4>1
      <4>2. CASE wblk[p] \notin SeqRange(lh)
        BY <1>a, <3>1, <3>2, <4>2, AppendRange
      <4> QED
        BY <4>1, <4>2
    <3>4. Writing' \subseteq Writing /\ Writing \subseteq Writing' \cup {wblk[p]}
      BY <1>a, <3>1 DEF Writing
    <3>5. Dirty \subseteq Dirty'
      BY <3>1, <3>3, <3>4 DEF Dirty
    <3>6. Pinned' \subseteq Pinned \cup Writing /\ ~Booting
      BY <3>1, <3>2, <3>3 DEF Pinned, Booting
    <3>7. \A q \in Proc : pc'[q] \notin {"logging", "panicked"} =>
             \/ wblk'[q] = NoVal
             \/ pc[q] \notin {"logging", "panicked"} /\ wblk'[q] = wblk[q]
      BY <1>a, <3>1
    <3> QED
      BY <1>1, <2>0, <3>4, <3>5, <3>6, <3>7
  <2>3. CASE EndOp(p)
    <3>1. /\ phase = "idle" /\ ~committing /\ UNCHANGED <<lh, wblk>>
          /\ IF outstanding = 1
             THEN committing' /\ phase' = IF lh = <<>> THEN "done" ELSE "log"
             ELSE ~committing' /\ phase' = "idle"
      BY <1>b, <2>3 DEF EndOp
    <3>2. \A q \in Proc : pc'[q] \in {"logging", "panicked"}
                             <=> pc[q] \in {"logging", "panicked"}
      BY <1>a, <2>3, <3>1 DEF EndOp, Woken
    <3>3. Writing' = Writing
      BY <3>1, <3>2 DEF Writing
    <3>4. Dirty \subseteq Dirty'
      BY <3>1, <3>3, EmptyLog DEF Dirty
    <3>5. Pinned' = Pinned /\ ~Booting
      BY <3>1 DEF Pinned, Booting
    <3> QED
      BY <1>1, <2>0, <3>1, <3>2, <3>3, <3>4, <3>5
  <2>4. CASE EndOpDone(p)
    <3>1. /\ phase = "done" /\ phase' = "idle" /\ UNCHANGED <<lh, wblk>> /\ lh = <<>>
      BY <1>0, <2>4 DEF EndOpDone, HeaderInv
    <3>2. \A q \in Proc : pc'[q] \in {"logging", "panicked"}
                             <=> pc[q] \in {"logging", "panicked"}
      BY <1>a, <2>4 DEF EndOpDone, Woken
    <3>3. Writing' = Writing
      BY <3>1, <3>2 DEF Writing
    <3>4. Dirty \subseteq Dirty' /\ Pinned' = {}
      BY <3>1, <3>3, EmptyLog DEF Dirty, Pinned
    <3> QED
      BY <1>1, <2>0, <3>1, <3>2, <3>3, <3>4
  <2> QED
    BY <1>3, <2>1, <2>2, <2>3, <2>4 DEF OpStep
<1>4. ASSUME NEW p \in Proc, NEW b \in Block, NEW v \in Value, FsWrite(p, b, v)
      PROVE  CacheInv'
  <2>1. /\ phase = "idle" /\ UNCHANGED <<lh, phase, tail, half, committing>>
        /\ cache' = [cache EXCEPT ![b] = v] /\ wblk' = [wblk EXCEPT ![p] = b]
        /\ pc[p] = "in" /\ pc'[p] \in {"logging", "panicked"}
        /\ \A q \in Proc : q # p => pc'[q] = pc[q]
        /\ ~BwritePbn0
    BY <1>a, <1>b, <1>4 DEF FsWrite, cvars, BwritePbn0, opvars
  <2>2. Writing' = Writing \cup {b}
    BY <1>a, <2>1 DEF Writing
  <2>3. /\ cache'[b] = v /\ v # NoVal
        /\ \A c \in Block : c # b => cache'[c] = cache[c]
    BY <1>a, <2>1
  <2>4. Dirty' = Dirty \cup {b} /\ Pinned' = Pinned /\ Booting' = Booting
    BY <2>1, <2>2 DEF Dirty, Pinned, Booting
  <2>5. Writing \subseteq Block \cup {NoVal} /\ Pinned \subseteq Block
    BY <1>a, <1>d, <2>1 DEF Writing, Pinned
  <2>6. \A c : c # b => cache'[c] = cache[c]
    BY <1>a, <2>1
  <2>7. \A c \in Writing' : cache'[c] # NoVal
    BY <1>0, <2>2, <2>3, <2>6 DEF CacheInv
  <2>8. ~Booting' => \A c \in Pinned' : cache'[c] # NoVal
    BY <1>0, <2>3, <2>4, <2>6 DEF CacheInv
  <2>9. \A c \in Block : c \in Dirty' \/ cache'[c] \in {NoVal, Recovered(c)'}
    BY <1>0, <1>c, <2>1, <2>3, <2>4 DEF CacheInv
  <2>10. \A q \in Proc : pc'[q] \notin {"logging", "panicked"} => wblk'[q] = NoVal
    BY <1>0, <1>a, <2>1 DEF CacheInv
  <2> QED
    BY <2>7, <2>8, <2>9, <2>10 DEF CacheInv
\* A step that only fills, refills or gives up one buffer.
<1>5. ASSUME UNCHANGED <<lh, pc, wblk, committing, phase, tail>>, ~BwritePbn0,
             half' = half \/ phase # "head", NEW b \in Block,
             cache'[b] \in {NoVal, cache[b], Recovered(b)},
             \A c : c # b => cache'[c] = cache[c],
             b \in Writing \/ (~Booting /\ b \in Pinned) => cache'[b] # NoVal
      PROVE  CacheInv'
  <2>1. Writing' = Writing /\ Dirty' = Dirty /\ Pinned' = Pinned /\ Booting' = Booting
    BY <1>5 DEF Writing, Dirty, Pinned, Booting
  <2>2. \A c \in Block : c \in Dirty' \/ cache'[c] \in {NoVal, Recovered(c)'}
    BY <1>0, <1>5, <1>c, <2>1 DEF CacheInv
  <2>3. /\ \A c \in Writing' : cache'[c] # NoVal
        /\ ~Booting' => \A c \in Pinned' : cache'[c] # NoVal
    BY <1>0, <1>5, <2>1 DEF CacheInv
  <2>4. \A q \in Proc : pc'[q] \notin {"logging", "panicked"} => wblk'[q] = NoVal
    BY <1>0, <1>5 DEF CacheInv
  <2> QED
    BY <2>2, <2>3, <2>4 DEF CacheInv
<1>6. ASSUME NEW b \in Block, FsRead(b) PROVE CacheInv'
  <2>1. /\ UNCHANGED <<lh, pc, wblk, committing, phase, tail, half>> /\ ~BwritePbn0
        /\ cache' = [cache EXCEPT ![b] = BreadHome(b)] /\ ~Booting
    BY <1>6 DEF FsRead, opvars, cvars, BwritePbn0
  <2>2. BreadHome(b) = IF cache[b] # NoVal THEN cache[b] ELSE home[0][b]
    BY <1>0, PlainRead
  <2>3. cache'[b] = BreadHome(b) /\ \A c : c # b => cache'[c] = cache[c]
    BY <1>a, <2>1
  <2>4. BreadHome(b) # NoVal
    BY <1>0, <1>a, BreadType
  <2>5. cache[b] = NoVal => home[0][b] = Recovered(b)
    BY <2>1, ReadsRecovered
  <2> QED
    BY <1>5, <2>1, <2>2, <2>3, <2>4, <2>5
<1>7. ASSUME NEW b \in Block, EvictHome(b) PROVE CacheInv'
  <2>1. /\ UNCHANGED <<lh, pc, wblk, committing, phase, tail, half>> /\ ~BwritePbn0
        /\ cache'[b] = NoVal /\ b \notin Pinned /\ b \notin Writing
        /\ \A c : c # b => cache'[c] = cache[c]
    <3>1. b \notin Pinned
      BY <1>7, EvictedUnpinned DEF StoreInv
    <3> QED
      BY <1>7, <1>a, <3>1
         DEF EvictHome, Locked, Writing, opvars, cvars, BwritePbn0
  <2> QED
    BY <1>5, <2>1
<1>8. CASE \/ \E i \in Slot : EvictSlot(i)
           \/ \E f \in FailIds : SetDiskFail(f)
           \/ \E a \in BadAddrs \cup {NoAddr} : SetBadBlock(a)
           \/ UNCHANGED vars
  <2>1. UNCHANGED <<cache, lh, wblk, pc, committing, phase, tail, half>>
    BY <1>8 DEF EvictSlot, SetDiskFail, SetBadBlock, vars, disks, bufs, opvars, cvars
  <2>2. ~BwritePbn0
    BY <2>1, <1>a DEF BwritePbn0
  <2> QED
    BY <1>2, <2>1, <2>2
<1>9. CASE LoadLog
  <2>1. /\ phase = "log" /\ half = 0
        /\ UNCHANGED <<lh, pc, wblk, committing, phase, tail>>
        /\ cache' = [cache EXCEPT ![Cur] = BreadHome(Cur)] /\ ~BwritePbn0
    BY <1>9 DEF LoadLog, opvars, BwritePbn0
  <2>2. Cur \in Block /\ cache[Cur] # NoVal
    BY <2>1, LogReads
  <2>3. BreadHome(Cur) = cache[Cur]
    BY <2>1, LogReads
  <2>4. cache' = cache
    BY <1>a, <2>1, <2>3
  <2>5. Writing' = Writing /\ Dirty' = Dirty /\ Pinned' = Pinned /\ Booting' = Booting
    BY <2>1 DEF Writing, Dirty, Pinned, Booting
  <2>6. cache'[Cur] = cache[Cur] /\ \A c : c # Cur => cache'[c] = cache[c]
    BY <2>4
  <2> QED
    BY <1>5, <2>1, <2>2, <2>6
<1>10. CASE LoadHome
  <2>1. /\ phase = "install" /\ half = 0
        /\ UNCHANGED <<lh, pc, wblk, committing, phase, tail>>
        /\ cache' = [cache EXCEPT ![Cur] = BreadSlot(tail + 1)] /\ ~BwritePbn0
    BY <1>10 DEF LoadHome, opvars, BwritePbn0
  <2>2. /\ Cur \in Block /\ BreadSlot(tail + 1) = Recovered(Cur)
        /\ Recovered(Cur) # NoVal
    BY <2>1, InstallReads
  <2>6. cache'[Cur] = BreadSlot(tail + 1) /\ \A c : c # Cur => cache'[c] = cache[c]
    BY <1>a, <2>1, <2>2
  <2> QED
    BY <1>5, <2>1, <2>2, <2>6
<1>11. CASE BwritePbn0
  <2>1. /\ UNCHANGED <<cache, lh, pc, wblk, committing, phase, tail>>
        /\ half = 1 /\ half' = 2 /\ phase # "idle"
    BY <1>11 DEF BwritePbn0, bufs, opvars
  <2>2. Writing' = Writing /\ Pinned' = Pinned /\ Booting' = Booting
    BY <2>1 DEF Writing, Pinned, Booting
  <2>3. \A b \in Block :
          Recovered(b)' = IF phase = "head" THEN View(b) ELSE Recovered(b)
    BY <1>11, BwriteRecovered
  <2>4. phase # "head" => Dirty' = Dirty
    BY <2>1, <2>2 DEF Dirty
  <2>5. \A b \in Block : b \in Dirty' \/ cache'[b] \in {NoVal, Recovered(b)'}
    <3>1. CASE phase = "head"
      BY <2>1, <2>3, <3>1 DEF View
    <3>2. CASE phase # "head"
      BY <1>0, <2>1, <2>3, <2>4, <3>2 DEF CacheInv
    <3> QED
      BY <3>1, <3>2
  <2> QED
    BY <1>0, <2>1, <2>2, <2>5 DEF CacheInv
<1>12. CASE Pbn1Log \/ Pbn1Head \/ Pbn1Home \/ Pbn1Clear \/ ReadHead
  <2>1. UNCHANGED <<cache, pc, wblk, committing>> /\ ~BwritePbn0 /\ Writing' = Writing
    BY <1>12 DEF Pbn1Log, Pbn1Head, Pbn1Home, Pbn1Clear, ReadHead, BwritePbn0,
       bufs, opvars, Writing
  <2>2. Dirty \subseteq Dirty'
    BY <1>12, <2>1 DEF Dirty, Pbn1Log, Pbn1Head, Pbn1Home, Pbn1Clear, ReadHead
  <2>3. \A p \in Proc : pc'[p] \notin {"logging", "panicked"} =>
          pc[p] \notin {"logging", "panicked"} /\ wblk'[p] = wblk[p]
    BY <2>1
  <2>4. CASE ReadHead
    <3>1. Booting'
      BY <1>0, <2>1, <2>4 DEF ReadHead, HeaderInv, Booting
    <3> QED
      BY <1>1, <2>1, <2>2, <2>3, <3>1
  <2>5. CASE Pbn1Clear
    <3>1. Pinned' = {}
      BY <1>0, <2>5, EmptyLog DEF Pbn1Clear, HeaderInv, Pinned
    <3> QED
      BY <1>1, <2>1, <2>2, <2>3, <3>1
  <2>6. CASE Pbn1Log \/ Pbn1Head
    <3>1. /\ phase' \in {"log", "head", "install"} /\ phase \in {"log", "head"}
          /\ UNCHANGED lh
      BY <2>6 DEF Pbn1Log, Pbn1Head
    <3>2. phase' = "install" => tail' = 0
      BY <2>6 DEF Pbn1Log, Pbn1Head
    <3>3. Pinned' \subseteq Pinned /\ ~Booting
      BY <1>0, <3>1, <3>2 DEF Pinned, Booting, SeqRange, HeaderInv
    <3> QED
      BY <1>1, <2>1, <2>2, <2>3, <3>3
  <2>7. CASE Pbn1Home
    <3>1. phase = "install"
      BY <2>7 DEF Pbn1Home
    <3>2. CASE phase' = "install"
      <4>1. tail' = tail + 1 /\ lh' = lh
        BY <2>7, <3>2 DEF Pbn1Home
      <4>2. Pinned' \subseteq Pinned
        <5>1. Pinned' = IF Booting THEN {} ELSE {lh[i] : i \in tail + 2..Len(lh)}
          BY <1>a, <2>1, <3>1, <3>2, <4>1 DEF Pinned, Booting
        <5>2. \A i \in tail + 2..Len(lh) : i \in tail + 1..Len(lh)
          BY <1>a
        <5> QED
          BY <3>1, <5>1, <5>2 DEF Pinned
      <4>3. Booting' = Booting
        BY <2>1, <3>1, <3>2 DEF Booting
      <4> QED
        BY <1>1, <2>1, <2>2, <2>3, <4>2, <4>3
    <3>3. CASE phase' # "install"
      <4>1. lh' = <<>>
        BY <2>7, <3>3 DEF Pbn1Home
      <4>2. Pinned' = {}
        BY <3>3, <4>1, EmptyLog DEF Pinned
      <4> QED
        BY <1>1, <2>1, <2>2, <2>3, <4>2
    <3> QED
      BY <3>2, <3>3
  <2> QED
    BY <1>12, <2>4, <2>5, <2>6, <2>7
<1>13. CASE Crash
  <2>1. /\ cache' = [b \in Block |-> NoVal] /\ lh' = <<>> /\ phase' = "boot"
        /\ pc' = [p \in Proc |-> "out"] /\ wblk' = [p \in Proc |-> NoVal]
    BY <1>13 DEF Crash
  <2>2. Writing' = {} /\ Pinned' = {}
    BY <2>1, EmptyLog DEF Writing, Pinned
  <2> QED
    BY <2>1, <2>2 DEF CacheInv
<1> QED
  BY <1>3, <1>4, <1>6, <1>7, <1>8, <1>9, <1>10, <1>11, <1>12, <1>13
     DEF Next, CommitStep

-----------------------------------------------------------------------------
\* No call gets to a buffer that is one short, and recovery is over when the
\* calls begin.
LEMMA ShortStep ==
  ASSUME ConstantsAssumption, IInv, StoreInv, [Next]_vars
  PROVE  ShortInv'
<1>0. HeaderInv /\ ShortInv /\ TypeOK /\ QuietInv
  BY DEF StoreInv, IInv
<1>a. /\ pc \in [Proc -> PCs] /\ wblk \in [Proc -> Block \cup {NoVal}]
      /\ lh \in Seq(Block) /\ committing \in BOOLEAN
  BY <1>0 DEF TypeOK
<1>b. RecoveredLeftAlone /\ RecoveredLeftAlone'
  BY <1>0 DEF ShortInv, RecoveredLeftAlone
\* A step that changes neither the counts nor the log.
<1>1. ASSUME UNCHANGED <<short, lh, phase, committing>>, Writing' \subseteq Writing
      PROVE  ShortInv'
  BY <1>0, <1>1, <1>b DEF ShortInv, Booting
<1>2. ASSUME NEW p \in Proc, OpStep(p) PROVE ShortInv'
  <2>1. CASE BeginOpSleep(p) \/ BeginOp(p)
    <3>1. Writing' = Writing
      BY <1>a, <2>1 DEF BeginOpSleep, BeginOp, Writing
    <3> QED
      BY <1>1, <2>1, <3>1 DEF BeginOpSleep, BeginOp, bufs, cvars
  <2>2. CASE LogAppend(p)
    <3>1. Writing' \subseteq Writing /\ wblk[p] \in Writing
      BY <1>a, <2>2 DEF LogAppend, Writing
    <3>2. ~Booting /\ UNCHANGED <<short, phase, committing>>
      BY <1>0, <2>2 DEF LogAppend, QuietInv, Open, Booting, bufs, cvars
    <3>3. SeqRange(lh') \subseteq SeqRange(lh) \cup {wblk[p]}
      <4>1. CASE lh' = lh
        BY <4>1
      <4>2. CASE lh' = Append(lh, wblk[p])
        <5>1. lh \in Seq(Block \cup {NoVal}) /\ wblk[p] \in Block \cup {NoVal}
          BY <1>a
        <5> QED
          BY <4>2, <5>1, AppendRange
      <4> QED
        BY <2>2, <4>1, <4>2 DEF LogAppend
    <3> QED
      BY <1>0, <1>b, <3>1, <3>2, <3>3 DEF ShortInv
  <2>3. CASE EndOp(p)
    <3>1. Writing' \subseteq Writing /\ ~Booting /\ UNCHANGED <<short, lh>>
      <4>1. ~committing /\ phase = "idle"
        BY <1>0, <2>3 DEF EndOp, QuietInv, Open
      <4>2. \A q \in Proc : pc'[q] \in {"logging", "panicked"} => pc'[q] = pc[q]
        BY <1>a, <2>3, <4>1 DEF EndOp, Woken
      <4> QED
        BY <2>3, <4>1, <4>2 DEF EndOp, Writing, Booting, bufs
    <3> QED
      BY <1>0, <1>b, <3>1 DEF ShortInv
  <2>4. CASE EndOpDone(p)
    <3>1. ~Booting /\ UNCHANGED <<short, lh>>
      BY <1>0, <2>4 DEF EndOpDone, QuietInv, Booting, bufs
    <3>2. Writing' \subseteq Writing
      BY <1>a, <2>4 DEF EndOpDone, Woken, Writing
    <3> QED
      BY <1>0, <1>b, <3>1, <3>2 DEF ShortInv
  <2> QED
    BY <1>2, <2>1, <2>2, <2>3, <2>4 DEF OpStep
<1>3. ASSUME NEW p \in Proc, NEW b \in Block, NEW v \in Value, FsWrite(p, b, v)
      PROVE  ShortInv'
  <2>1. b \notin short /\ UNCHANGED <<short, lh, phase, committing>>
    BY <1>3, <1>b DEF FsWrite, Usable, RecoveredLeftAlone, cvars
  <2>2. Writing' \subseteq Writing \cup {b}
    BY <1>a, <1>3 DEF FsWrite, Writing
  <2> QED
    BY <1>0, <1>b, <2>1, <2>2 DEF ShortInv, Booting
<1>4. CASE \/ \E b \in Block : FsRead(b) \/ EvictHome(b)
           \/ \E i \in Slot : EvictSlot(i)
           \/ \E f \in FailIds : SetDiskFail(f)
           \/ \E a \in BadAddrs \cup {NoAddr} : SetBadBlock(a)
           \/ LoadLog \/ LoadHome \/ BwritePbn0 \/ UNCHANGED vars
  <2>1. UNCHANGED <<short, lh, phase, committing, pc, wblk>>
    BY <1>4 DEF FsRead, EvictHome, EvictSlot, SetDiskFail, SetBadBlock, LoadLog,
       LoadHome, BwritePbn0, vars, bufs, opvars, cvars
  <2> QED
    BY <1>1, <2>1 DEF Writing
<1>5. CASE Pbn1Log \/ Pbn1Head \/ Pbn1Home \/ Pbn1Clear \/ ReadHead
  <2>1. UNCHANGED <<committing, pc, wblk>> /\ Writing' = Writing /\ phase # "idle"
    BY <1>5 DEF Pbn1Log, Pbn1Head, Pbn1Home, Pbn1Clear, ReadHead, opvars, Writing
  <2>2. CASE Booting'
    BY <1>b, <2>2 DEF ShortInv
  <2>3. CASE ~Booting' /\ committing
    <3>1. ~Booting /\ short' = short /\ ~ReadHead
      BY <1>0, <1>5, <2>3
         DEF Booting, HeaderInv, Pbn1Log, Pbn1Head, Pbn1Home, Pbn1Clear, ReadHead, bufs
    <3>2. lh' = lh \/ lh' = <<>>
      BY <1>5, <3>1 DEF Pbn1Log, Pbn1Head, Pbn1Home, Pbn1Clear
    <3> QED
      BY <1>0, <1>b, <2>1, <3>1, <3>2, EmptyLog DEF ShortInv
  <2>4. CASE ~Booting' /\ ~committing
    <3>1. Pbn1Clear
      BY <1>0, <1>5, <2>1, <2>4
         DEF Booting, HeaderInv, Pbn1Log, Pbn1Head, Pbn1Home, ReadHead
    <3>2. lh' = <<>>
      BY <1>0, <3>1 DEF Pbn1Clear, HeaderInv
    <3>3. Writing = {}
      BY <1>0, <2>1 DEF QuietInv, Open, Writing
    <3> QED
      BY <1>b, <2>1, <3>2, <3>3, EmptyLog DEF ShortInv
  <2> QED
    BY <2>2, <2>3, <2>4
<1>6. CASE Crash
  <2>1. short' = {}
    BY <1>6 DEF Crash
  <2> QED
    BY <1>b, <2>1 DEF ShortInv
<1> QED
  BY <1>2, <1>3, <1>4, <1>5, <1>6 DEF Next, CommitStep

\* mkfs leaves an empty log and boot an empty cache.
LEMMA InitStore ==
  ASSUME ConstantsAssumption, RecoveredLeftAlone, Init
  PROVE  StoreInv
<1>1. /\ head[0] = <<>> /\ lh = <<>> /\ phase = "boot" /\ ~committing
      /\ cache = [b \in Block |-> NoVal] /\ scache = [i \in Slot |-> NoVal]
      /\ pc = [p \in Proc |-> "out"] /\ wblk = [p \in Proc |-> NoVal]
      /\ fail = -1 /\ bad = NoAddr
  BY DEF Init, Disk
<1>2. Writing = {} /\ Pinned = {}
  BY <1>1, EmptyLog DEF Writing, Pinned
<1>3. FlagInv /\ HeaderInv /\ CopyInv /\ ShortInv
  BY <1>1, EmptyLog DEF FlagInv, HeaderInv, CopyInv, ShortInv, Booting
<1>4. CacheInv
  BY <1>1, <1>2 DEF CacheInv
<1> QED
  BY <1>3, <1>4 DEF StoreInv

\* The parts are kept together.
LEMMA StoreStep ==
  ASSUME ConstantsAssumption, Disk0Works, IInv, StoreInv, [Next]_vars
  PROVE  StoreInv'
<1>1. FlagInv /\ HeaderInv
  BY DEF StoreInv
<1> QED
  BY <1>1, FlagStep, HeaderStep, CopyStep, CacheStep, ShortStep DEF StoreInv

\* As long as disk 0 works, the log is where its phase says.
LEMMA StoreAlways == Disk0Works /\ RecoveredLeftAlone => (Spec => []StoreInv)
<1> SUFFICES ASSUME Disk0Works, RecoveredLeftAlone PROVE Spec => []StoreInv
  OBVIOUS
<1>1. Init => StoreInv
  BY ConstantsAssumption, InitStore
<1>2. IInv /\ StoreInv /\ [Next]_vars => StoreInv'
  BY ConstantsAssumption, StoreStep
<1> QED
  BY <1>1, <1>2, Inductive, PTL DEF Spec

-----------------------------------------------------------------------------
\* Only a writer changes the buffer of a logged block.
LEMMA DirtyStep ==
  ASSUME ConstantsAssumption, IInv, StoreInv, [Next]_vars,
         NEW b \in Pinned, b \in Pinned', cache'[b] # cache[b]
  PROVE  \E p \in Proc : wblk[p] # b /\ wblk'[p] = b
<1>0. FlagInv /\ HeaderInv /\ CacheInv /\ TypeOK
  BY DEF StoreInv, IInv
<1>a. /\ cache \in [Block -> Value \cup {NoVal}] /\ lh \in Seq(Block)
      /\ wblk \in [Proc -> Block \cup {NoVal}] /\ NoVal \notin Block /\ tail \in Nat
  BY <1>0 DEF TypeOK, ConstantsAssumption
<1>b. b \in Block /\ cache[b] # NoVal /\ ~Booting
  <2>1. \A i \in 1..Len(lh) : lh[i] \in Block
    BY <1>a
  <2>2. \A i \in tail + 1..Len(lh) : i \in 1..Len(lh)
    BY <1>a
  <2> QED
    BY <1>0, <2>1, <2>2 DEF Pinned, SeqRange, CacheInv
<1>1. cache' # cache
  OBVIOUS
<1>2. ASSUME NEW p \in Proc, NEW c \in Block, NEW v \in Value, FsWrite(p, c, v)
      PROVE  wblk[p] # b /\ wblk'[p] = b
  BY <1>0, <1>2, <1>a, <1>b DEF FsWrite, CacheInv
<1>3. ASSUME NEW c \in Block, FsRead(c) \/ EvictHome(c) PROVE FALSE
  <2>1. CASE FsRead(c)
    BY <1>0, <1>b, <2>1, ReadKeeps DEF FsRead
  <2>2. CASE EvictHome(c)
    BY <1>a, <1>b, <2>2, EvictedUnpinned DEF EvictHome, StoreInv
  <2> QED
    BY <1>3, <2>1, <2>2
<1>4. ~LoadLog
  <2> SUFFICES ASSUME LoadLog PROVE FALSE
    OBVIOUS
  <2>1. BreadHome(Cur) = cache[Cur] /\ cache' = [cache EXCEPT ![Cur] = BreadHome(Cur)]
    BY LogReads DEF LoadLog
  <2> QED
    BY <1>1, <1>a, <2>1
<1>5. ~LoadHome
  <2> SUFFICES ASSUME LoadHome PROVE FALSE
    OBVIOUS
  <2>1. phase = "install" /\ cache' = [cache EXCEPT ![Cur] = BreadSlot(tail + 1)]
    BY DEF LoadHome
  <2>2. Cur \in Block /\ BreadSlot(tail + 1) = Recovered(Cur)
    BY <2>1, InstallReads
  <2>3. b = Cur
    BY <1>a, <2>1
  <2>4. b \notin Dirty
    BY <2>1, QuietWriters DEF Dirty
  <2>5. cache[b] = Recovered(b)
    BY <1>0, <1>b, <2>4 DEF CacheInv
  <2> QED
    BY <1>1, <1>a, <2>1, <2>2, <2>3, <2>5
<1>6. ~Crash
  <2> SUFFICES ASSUME Crash PROVE FALSE
    OBVIOUS
  <2>1. Pinned' = {}
    BY EmptyLog DEF Crash, Pinned
  <2> QED
    BY <2>1
<1>7. \E p \in Proc, c \in Block, v \in Value : FsWrite(p, c, v)
  BY <1>1, <1>3, <1>4, <1>5, <1>6 DEF Next, OpStep, CommitStep, BeginOpSleep,
     BeginOp, LogAppend, EndOp, EndOpDone, EvictSlot, SetDiskFail, SetBadBlock,
     BwritePbn0, Pbn1Log, Pbn1Head, Pbn1Home, Pbn1Clear, ReadHead, bufs, vars
<1> QED
  BY <1>2, <1>7

\* A logged block keeps in its buffer what its last writer put there until it is
\* installed (bpin() in log_write(), bunpin() in install_trans()), which is what
\* write_log() relies on when it copies the buffers; disk 1 may fail and the
\* machine may crash.  The blocks that recovery has installed are left out until
\* the next restart: recovery's bunpin() (log.c:80) takes a count nobody raised,
\* and the pin of a later log_write() is lost on it.
THEOREM LoggedBuffersKept ==
  Disk0Works /\ RecoveredLeftAlone => (Spec => DirtyBlockKept)
<1> SUFFICES ASSUME Disk0Works, RecoveredLeftAlone PROVE Spec => DirtyBlockKept
  OBVIOUS
<1>1. IInv /\ StoreInv /\ [Next]_vars
        => [\A b \in Pinned :
              b \in Pinned' /\ cache'[b] # cache[b] =>
                \E p \in Proc : wblk[p] # b /\ wblk'[p] = b]_vars
  BY ConstantsAssumption, DirtyStep
<1>2. Spec => [](IInv /\ StoreInv)
  BY Inductive, StoreAlways, PTL
<1> QED
  BY <1>1, <1>2, PTL DEF Spec, DirtyBlockKept

-----------------------------------------------------------------------------
\* What readers see changes with a buffer, or with the disk under a block that
\* is in no buffer.
LEMMA ViewSame ==
  ASSUME NEW b, cache'[b] = cache[b], Recovered(b)' = Recovered(b)
  PROVE  View(b)' = View(b)
  BY DEF View

\* A step of the log that the store does not see.
LEMMA Unseen ==
  ASSUME \A b \in Block : Recovered(b)' = Recovered(b) /\ View(b)' = View(b),
         Open' = Open
  PROVE  UNCHANGED Store!vars
<1>1. /\ [b \in Block |-> Recovered(b)'] = [b \in Block |-> Recovered(b)]
      /\ [b \in Block |-> View(b)'] = [b \in Block |-> View(b)]
  OBVIOUS
<1> QED
  BY <1>1 DEF Store!vars, Open

\* The header of the group, written to disk 0, is the commit; no other transfer to
\* disk 0 changes what a crash would leave.
LEMMA CommitIsAtomic ==
  ASSUME ConstantsAssumption, IInv, StoreInv, BwritePbn0
  PROVE  [Store!Next]_(Store!vars)
<1>1. \A b \in Block :
        Recovered(b)' = IF phase = "head" THEN View(b) ELSE Recovered(b)
  BY BwriteRecovered
<1>2. UNCHANGED <<cache, pc>> /\ Open = {} /\ Open' = {}
  BY DEF BwritePbn0, bufs, opvars, IInv, QuietInv, Open
<1>3. \A b \in Block : View(b)' = View(b)
  BY <1>1, <1>2 DEF View
<1>4. CASE phase = "head"
  <2>1. [b \in Block |-> Recovered(b)'] = [b \in Block |-> View(b)]
    BY <1>1, <1>4
  <2>2. [b \in Block |-> View(b)'] = [b \in Block |-> View(b)]
    BY <1>3
  <2>3. Store!Commit
    BY <1>2, <2>1, <2>2 DEF Store!Commit, Open
  <2> QED
    BY <2>3 DEF Store!Next
<1>5. CASE phase # "head"
  BY <1>1, <1>2, <1>3, <1>5, Unseen
<1> QED
  BY <1>4, <1>5

\* Each step of the log is a step of the atomic store, or one it does not see.
LEMMA StoreImplements ==
  ASSUME ConstantsAssumption, IInv, StoreInv, [Next]_vars
  PROVE  [Store!Next]_(Store!vars)
<1>0. FlagInv /\ HeaderInv /\ CacheInv /\ TypeOK /\ QuietInv
  BY DEF StoreInv, IInv
<1>a. /\ cache \in [Block -> Value \cup {NoVal}] /\ pc \in [Proc -> PCs]
      /\ NoVal \notin Value
  BY <1>0 DEF TypeOK, ConstantsAssumption
<1>b. ~BwritePbn0 => \A b \in Block : Recovered(b)' = Recovered(b)
  BY Disk0Same
<1>1. ASSUME ~BwritePbn0, UNCHANGED <<cache, pc>> PROVE UNCHANGED Store!vars
  BY <1>1, <1>b, ViewSame, Unseen DEF Open
<1>2. ASSUME NEW p \in Proc, OpStep(p) PROVE [Store!Next]_(Store!vars)
  <2>0. ~BwritePbn0 /\ UNCHANGED cache
    BY <1>2 DEF OpStep, BeginOpSleep, BeginOp, LogAppend, EndOp, EndOpDone,
       BwritePbn0, disks, bufs, opvars, cvars
  <2>1. /\ [b \in Block |-> Recovered(b)'] = [b \in Block |-> Recovered(b)]
        /\ [b \in Block |-> View(b)'] = [b \in Block |-> View(b)]
    BY <1>b, <2>0, ViewSame
  <2>2. CASE BeginOp(p)
    <3>1. p \notin Open /\ Open' = Open \cup {p}
      BY <1>a, <2>2 DEF BeginOp, Open
    <3>2. Store!Begin(p)
      BY <2>1, <3>1 DEF Store!Begin, Open
    <3> QED
      BY <3>2 DEF Store!Next
  <2>3. CASE EndOp(p)
    <3>1. p \in Open /\ ~committing
      BY <1>0, <2>3 DEF EndOp, Open, QuietInv
    <3>2. Open' = Open \ {p}
      BY <1>a, <2>3, <3>1 DEF EndOp, Woken, Open
    <3>3. Store!End(p)
      BY <2>1, <3>1, <3>2 DEF Store!End, Open
    <3> QED
      BY <3>3 DEF Store!Next
  <2>4. CASE BeginOpSleep(p) \/ LogAppend(p) \/ EndOpDone(p)
    <3>1. Open' = Open
      BY <1>a, <2>4 DEF BeginOpSleep, LogAppend, EndOpDone, Woken, Open
    <3>2. \A b \in Block : Recovered(b)' = Recovered(b) /\ View(b)' = View(b)
      BY <1>b, <2>0, ViewSame
    <3> QED
      BY <3>1, <3>2, Unseen
  <2> QED
    BY <1>2, <2>2, <2>3, <2>4 DEF OpStep
<1>3. ASSUME NEW p \in Proc, NEW b \in Block, NEW v \in Value, FsWrite(p, b, v)
      PROVE  Store!Next
  <2>1. ~BwritePbn0 /\ p \in Open /\ Open' = Open
    BY <1>a, <1>3 DEF FsWrite, BwritePbn0, Open, cvars, disks
  <2>2. cache' = [cache EXCEPT ![b] = v]
    BY <1>3 DEF FsWrite
  <2>3. View(b)' = v
    BY <1>a, <2>2 DEF View
  <2>4. \A c \in Block : c # b => View(c)' = View(c)
    BY <1>a, <1>b, <2>1, <2>2 DEF View
  <2>5. [c \in Block |-> View(c)'] = [[c \in Block |-> View(c)] EXCEPT ![b] = v]
    BY <2>3, <2>4
  <2>6. [c \in Block |-> Recovered(c)'] = [c \in Block |-> Recovered(c)]
    BY <1>b, <2>1
  <2>7. Store!Write(p, b, v)
    BY <2>1, <2>5, <2>6 DEF Store!Write, Open
  <2> QED
    BY <2>7 DEF Store!Next
<1>4. ASSUME NEW b \in Block, FsRead(b) PROVE UNCHANGED Store!vars
  <2>1. /\ cache' = [cache EXCEPT ![b] = BreadHome(b)] /\ ~Booting
        /\ ~BwritePbn0 /\ UNCHANGED pc
    BY <1>4 DEF FsRead, BwritePbn0, cvars, opvars
  <2>2. BreadHome(b) = IF cache[b] # NoVal THEN cache[b] ELSE home[0][b]
    BY <1>0, PlainRead
  <2>3. cache[b] = NoVal => home[0][b] = Recovered(b)
    BY <2>1, ReadsRecovered
  <2>4. BreadHome(b) = View(b) /\ BreadHome(b) # NoVal
    BY <1>0, <1>a, <2>2, <2>3, BreadType DEF View
  <2>5. View(b)' = View(b)
    BY <1>a, <2>1, <2>4 DEF View
  <2>6. \A c \in Block : c # b => View(c)' = View(c)
    BY <1>a, <1>b, <2>1 DEF View
  <2>7. \A c \in Block : Recovered(c)' = Recovered(c) /\ View(c)' = View(c)
    BY <1>b, <2>1, <2>5, <2>6
  <2> QED
    BY <2>1, <2>7, Unseen DEF Open
<1>5. ASSUME NEW b \in Block, EvictHome(b) PROVE UNCHANGED Store!vars
  <2>1. /\ cache' = [cache EXCEPT ![b] = NoVal] /\ b \notin Pinned /\ ~Locked(b)
        /\ ~BwritePbn0 /\ UNCHANGED pc
    <3>1. b \notin Pinned
      BY <1>5, EvictedUnpinned DEF StoreInv
    <3> QED
      BY <1>5, <3>1 DEF EvictHome, BwritePbn0, cvars, opvars
  <2>2. b \notin Dirty
    BY <1>0, <2>1 DEF Dirty, Writing, Pinned, Locked, Booting, HeaderInv
  <2>3. View(b) = Recovered(b)
    BY <1>0, <2>2, ViewClean
  <2>4. View(b)' = View(b)
    BY <1>a, <1>b, <2>1, <2>3 DEF View
  <2>5. \A c \in Block : c # b => View(c)' = View(c)
    BY <1>a, <1>b, <2>1 DEF View
  <2>6. \A c \in Block : Recovered(c)' = Recovered(c) /\ View(c)' = View(c)
    BY <1>b, <2>1, <2>4, <2>5
  <2> QED
    BY <2>1, <2>6, Unseen DEF Open
<1>6. CASE LoadLog
  <2>1. /\ cache' = [cache EXCEPT ![Cur] = BreadHome(Cur)]
        /\ BreadHome(Cur) = cache[Cur]
        /\ ~BwritePbn0 /\ UNCHANGED pc
    BY <1>6, LogReads DEF LoadLog, BwritePbn0, opvars
  <2>2. cache' = cache
    BY <1>a, <2>1
  <2> QED
    BY <1>1, <2>1, <2>2
<1>7. CASE LoadHome
  <2>1. /\ cache' = [cache EXCEPT ![Cur] = BreadSlot(tail + 1)]
        /\ ~BwritePbn0 /\ UNCHANGED pc /\ phase = "install"
    BY <1>7 DEF LoadHome, BwritePbn0, opvars
  <2>2. /\ Cur \in Block /\ BreadSlot(tail + 1) = Recovered(Cur)
        /\ Recovered(Cur) # NoVal
    BY <2>1, InstallReads
  <2>3. View(Cur) = Recovered(Cur)
    BY <1>0, <2>1, <2>2, QuietWriters, ViewClean DEF Dirty
  <2>4. \A c \in Block : IF c = Cur THEN cache'[c] = View(c) /\ cache'[c] # NoVal
                                    ELSE cache'[c] = cache[c]
    BY <1>a, <2>1, <2>2, <2>3
  <2>5. \A c \in Block : Recovered(c)' = Recovered(c) /\ View(c)' = View(c)
    BY <1>b, <2>1, <2>4 DEF View
  <2> QED
    BY <2>1, <2>5, Unseen DEF Open
<1>8. CASE Pbn1Log \/ Pbn1Head \/ Pbn1Home \/ Pbn1Clear \/ ReadHead
  BY <1>1, <1>8 DEF Pbn1Log, Pbn1Head, Pbn1Home, Pbn1Clear, ReadHead,
     BwritePbn0, bufs, opvars
<1>9. CASE \/ \E i \in Slot : EvictSlot(i)
           \/ \E f \in FailIds : SetDiskFail(f)
           \/ \E a \in BadAddrs \cup {NoAddr} : SetBadBlock(a)
           \/ UNCHANGED vars
  <2>1. UNCHANGED <<cache, pc, half>>
    BY <1>9 DEF EvictSlot, SetDiskFail, SetBadBlock, vars, bufs, opvars, cvars
  <2>2. ~BwritePbn0
    BY <2>1 DEF BwritePbn0
  <2> QED
    BY <1>1, <2>1, <2>2
<1>10. CASE Crash
  <2>1. ~BwritePbn0 /\ Open' = {} /\ cache' = [b \in Block |-> NoVal]
    BY <1>10 DEF Crash, BwritePbn0, Open
  <2>2. \A b \in Block : View(b)' = Recovered(b) /\ Recovered(b)' = Recovered(b)
    BY <1>b, <2>1 DEF View
  <2>3. /\ [b \in Block |-> View(b)'] = [b \in Block |-> Recovered(b)]
        /\ [b \in Block |-> Recovered(b)'] = [b \in Block |-> Recovered(b)]
    BY <2>2
  <2>4. Store!Crash
    BY <2>1, <2>3 DEF Store!Crash, Open
  <2> QED
    BY <2>4 DEF Store!Next
<1> QED
  BY <1>2, <1>3, <1>4, <1>5, <1>6, <1>7, <1>8, <1>9, <1>10, CommitIsAtomic
     DEF Next, CommitStep

\* So is the start.
LEMMA StoreStarts ==
  ASSUME ConstantsAssumption, RecoveredLeftAlone, Init
  PROVE  Store!Init
<1>1. StoreInv /\ Writing = {} /\ Open = {}
  BY InitStore DEF Init, Writing, Open
<1>2. head[0] = <<>> /\ home \in [Disk -> [Block -> Value]] /\ phase = "boot"
  BY DEF Init, Disk
<1>3. \A b \in Block : Recovered(b) = home[0][b]
  BY <1>2, RecoveredIs, RecoveredHome, EmptyLog
<1>4. \A b \in Block : View(b) = Recovered(b)
  BY <1>1, <1>2, ViewClean DEF StoreInv, Dirty
<1>5. \A b \in Block : Recovered(b) \in Value
  BY <1>2, <1>3 DEF Disk
<1>6. /\ [b \in Block |-> Recovered(b)] \in [Block -> Value]
      /\ [b \in Block |-> View(b)] = [b \in Block |-> Recovered(b)]
  BY <1>4, <1>5
<1> QED
  BY <1>1, <1>6 DEF Store!Init, Open

\* The log implements the atomic store (log.c:6-12): what a crash at any moment,
\* also during recovery, leaves behind is the effect of whole groups of finished
\* calls, and readers see every write at once.  Disk 1 may fail at any time and
\* the flags may change between any two transfers.  Failures of disk 0 are left
\* out: bwrite() then writes the header to disk 1 only, and after a restart,
\* with the flags at -1 again, read_head() looks on disk 0.  So are calls that
\* use a block which recovery has installed since the machine came up: its
\* buffer is not pinned (log.c:80), and a logged write of it may be lost.
THEOREM LogImplementsAtomicStore ==
  Disk0Works /\ RecoveredLeftAlone => (Spec => AtomicCommit)
<1> SUFFICES ASSUME Disk0Works, RecoveredLeftAlone PROVE Spec => AtomicCommit
  OBVIOUS
<1>1. Init => Store!Init
  BY ConstantsAssumption, StoreStarts
<1>2. IInv /\ StoreInv /\ [Next]_vars => [Store!Next]_(Store!vars)
  BY ConstantsAssumption, StoreImplements
<1>3. Spec => [](IInv /\ StoreInv)
  BY Inductive, StoreAlways, PTL
<1> QED
  BY <1>1, <1>2, <1>3, PTL DEF Spec, AtomicCommit, Store!Spec

-----------------------------------------------------------------------------
\* No disk and no block is made to fail.
NothingFails == FailIds \subseteq {-1} /\ BadAddrs = {}

\* Both disks hold the same home block.
Agree(b) == home[0][b] = home[1][b]

\* The blocks install_trans() has done are the same on both disks.
MirrorInv ==
  /\ phase = "install" => \A i \in 1..tail : Agree(lh[i])
  /\ phase = "clear" => \A i \in 1..Len(head[0]) : Agree(head[0][i])

\* Each step keeps that, and with it the agreement of the disks.
LEMMA MirrorStep ==
  ASSUME ConstantsAssumption, NothingFails, IInv, StoreInv, MirrorInv, MirrorAgrees,
         [Next]_vars
  PROVE  MirrorInv' /\ MirrorAgrees'
<1>0. FlagInv /\ HeaderInv /\ CopyInv /\ TypeOK /\ QuietInv
  BY DEF StoreInv, IInv
<1>a. /\ home \in [Disk -> [Block -> Value]] /\ head \in [Disk -> Seq(Block)]
      /\ 0 \in Disk /\ 1 \in Disk /\ tail \in Nat /\ lh \in Seq(Block)
      /\ latest \in [Block -> Value \cup {NoVal}] /\ fid # 1
  BY <1>0 DEF TypeOK, Disk, NothingFails
<1>b. \A p \in Proc : pc[p] \in {"in", "logging"} => phase = "idle"
  BY <1>0 DEF QuietInv, Open
<1>1. ASSUME UNCHANGED <<home, latest>>, head'[0] = head[0] PROVE MirrorAgrees'
  BY <1>1 DEF MirrorAgrees, SeqRange
<1>2. ASSUME phase' \notin {"install", "clear"} PROVE MirrorInv'
  BY <1>2 DEF MirrorInv
<1>3. ASSUME UNCHANGED <<home, head, lh, phase, tail>> PROVE MirrorInv'
  BY <1>3 DEF MirrorInv, Agree
<1>4. ASSUME NEW p \in Proc, OpStep(p) PROVE MirrorInv' /\ MirrorAgrees'
  <2>1. CASE BeginOpSleep(p) \/ BeginOp(p)
    BY <1>1, <1>3, <2>1 DEF BeginOpSleep, BeginOp, disks, cvars
  <2>2. CASE LogAppend(p) \/ EndOp(p) \/ EndOpDone(p)
    <3>1. phase' \notin {"install", "clear"} /\ UNCHANGED <<home, head, latest>>
      BY <1>b, <2>2 DEF LogAppend, EndOp, EndOpDone, disks, cvars
    <3> QED
      BY <1>1, <1>2, <3>1
  <2> QED
    BY <1>4, <2>1, <2>2 DEF OpStep
<1>5. CASE \/ \E p \in Proc, b \in Block, v \in Value : FsWrite(p, b, v)
           \/ \E b \in Block : FsRead(b) \/ EvictHome(b)
           \/ \E i \in Slot : EvictSlot(i)
           \/ \E f \in FailIds : SetDiskFail(f)
           \/ \E a \in BadAddrs \cup {NoAddr} : SetBadBlock(a)
           \/ LoadLog \/ LoadHome \/ UNCHANGED vars
  <2>1. UNCHANGED <<home, head, lh, phase, tail, latest>>
    BY <1>5 DEF FsWrite, FsRead, EvictHome, EvictSlot, SetDiskFail, SetBadBlock,
       LoadLog, LoadHome, vars, disks, cvars
  <2> QED
    BY <1>1, <1>3, <2>1
<1>6. CASE BwritePbn0
  <2>0. UNCHANGED <<lh, phase, tail, latest>> /\ half = 1
    BY <1>6 DEF BwritePbn0
  <2>1. CASE phase = "log"
    <3>1. UNCHANGED <<home, head>>
      BY <1>6, <2>1 DEF BwritePbn0
    <3> QED
      BY <1>1, <1>3, <2>0, <3>1
  <2>2. CASE phase = "head"
    <3>1. UNCHANGED home /\ head[0] = <<>>
      BY <1>0, <1>6, <2>2 DEF BwritePbn0, HeaderInv
    <3>2. \A b \in Block : latest[b] # NoVal => Agree(b)
      BY <3>1, EmptyLog DEF MirrorAgrees, Agree
    <3> QED
      BY <1>2, <2>0, <2>2, <3>1, <3>2 DEF MirrorAgrees, Agree
  <2>3. CASE phase = "clear"
    <3>1. UNCHANGED home /\ head'[0] = <<>>
      BY <1>0, <1>a, <1>6, <2>3, PlainRead DEF BwritePbn0, HeaderInv
    <3>2. \A b \in SeqRange(head[0]) : Agree(b)
      BY <2>3 DEF MirrorInv, SeqRange
    <3>3. MirrorAgrees'
      BY <2>0, <3>1, <3>2 DEF MirrorAgrees, Agree
    <3> QED
      BY <2>0, <2>3, <3>1, <3>3, EmptyLog DEF MirrorInv
  <2>4. CASE phase = "install"
    <3>1. UNCHANGED head /\ head[0] = lh /\ Cur \in Block /\ Cur = lh[tail + 1]
      BY <1>0, <1>6, <2>4, AtBlock DEF BwritePbn0, HeaderInv
    <3>2. tail + 1 \in 1..Len(lh) /\ Cur \in SeqRange(lh)
      BY <2>4, AtBlock
    <3>3. \A b \in Block : b # Cur => /\ home'[0][b] = home[0][b]
                                     /\ home'[1][b] = home[1][b]
      <4>1. home' = home \/ home' = [home EXCEPT ![0][Cur] = cache[Cur]]
        BY <1>6, <2>4 DEF BwritePbn0
      <4> DEFINE g == [home[0] EXCEPT ![Cur] = cache[Cur]]
      <4>2. home' = home \/ home' = [home EXCEPT ![0] = g]
        BY <4>1
      <4>3. \A b \in Block : b # Cur => g[b] = home[0][b]
        BY <1>a
      <4> HIDE DEF g
      <4> QED
        BY <1>a, <4>2, <4>3
    <3>4. \A i \in 1..tail : lh[i] \in Block /\ lh[i] # Cur
      <4>1. \A i \in 1..tail : i \in 1..Len(lh) /\ i # tail + 1
        BY <1>a, <3>2
      <4> QED
        BY <1>0, <1>a, <3>1, <3>2, <4>1 DEF HeaderInv, NoRepeat
    <3>5. MirrorInv'
      BY <2>0, <2>4, <3>3, <3>4 DEF MirrorInv, Agree
    <3>6. MirrorAgrees'
      BY <2>0, <3>1, <3>2, <3>3 DEF MirrorAgrees
    <3> QED
      BY <3>5, <3>6
  <2> QED
    BY <1>6, <2>1, <2>2, <2>3, <2>4 DEF BwritePbn0
<1>7. CASE Pbn1Log \/ Pbn1Head \/ Pbn1Clear \/ ReadHead
  <2>1. head'[0] = head[0] /\ UNCHANGED <<home, latest>>
    BY <1>7, Disk0Same DEF Pbn1Log, Pbn1Head, Pbn1Clear, ReadHead, BwritePbn0, disks
  <2>2. CASE Pbn1Log \/ Pbn1Clear
    <3>1. phase' \notin {"install", "clear"}
      BY <2>2 DEF Pbn1Log, Pbn1Clear
    <3> QED
      BY <1>1, <1>2, <2>1, <3>1
  <2>3. CASE Pbn1Head
    <3>1. phase' = "install" /\ tail' = 0
      BY <2>3 DEF Pbn1Head
    <3>2. MirrorInv'
      BY <3>1 DEF MirrorInv
    <3> QED
      BY <1>1, <2>1, <3>2
  <2>4. CASE ReadHead
    <3>1. \/ phase' = "install" /\ tail' = 0
          \/ phase' = "clear" /\ head[0] = <<>>
      BY <2>4 DEF ReadHead
    <3>2. MirrorInv'
      BY <2>1, <3>1, EmptyLog DEF MirrorInv
    <3> QED
      BY <1>1, <2>1, <3>2
  <2> QED
    BY <1>7, <2>2, <2>3, <2>4
<1>8. CASE Pbn1Home
  <2>1. /\ phase = "install" /\ half = 2 /\ UNCHANGED head
        /\ home' = [home EXCEPT ![1][Cur] = cache[Cur]]
        /\ latest' = [latest EXCEPT ![Cur] = cache[Cur]]
    BY <1>8, <1>a DEF Pbn1Home, SkipsPbn1
  <2>2. /\ Cur \in Block /\ Cur = lh[tail + 1] /\ tail + 1 \in 1..Len(lh)
        /\ head[0] = lh
    BY <1>0, <2>1, AtBlock DEF HeaderInv
  <2>3. home[0][Cur] = cache[Cur]
    BY <1>0, <2>1 DEF CopyInv
  <2>4. /\ home'[0][Cur] = home'[1][Cur]
        /\ \A b \in Block : b # Cur => /\ home'[0][b] = home[0][b]
                                      /\ home'[1][b] = home[1][b]
    BY <1>a, <2>1, <2>2, <2>3
  <2>5. \A b \in Block : b # Cur => latest'[b] = latest[b]
    BY <1>a, <2>1, <2>2
  <2>6. MirrorAgrees'
    BY <2>1, <2>4, <2>5 DEF MirrorAgrees
  <2>7. \A i \in 1..tail + 1 : home'[0][lh[i]] = home'[1][lh[i]]
    <3>1. \A i \in 1..tail + 1 : lh[i] \in Block /\ (i \in 1..tail \/ i = tail + 1)
      <4>1. \A i \in 1..tail + 1 : i \in 1..Len(lh) /\ (i \in 1..tail \/ i = tail + 1)
        BY <1>a, <2>2
      <4> QED
        BY <1>a, <4>1
    <3> QED
      BY <2>1, <2>2, <2>4, <3>1 DEF MirrorInv, Agree
  <2>8. CASE tail + 1 < Len(lh)
    <3>1. phase' = "install" /\ tail' = tail + 1 /\ lh' = lh
      BY <1>8, <2>8 DEF Pbn1Home
    <3>2. MirrorInv'
      BY <2>7, <3>1 DEF MirrorInv, Agree
    <3> QED
      BY <2>6, <3>2
  <2>9. CASE ~(tail + 1 < Len(lh))
    <3>1. phase' = "clear"
      BY <1>8, <2>9 DEF Pbn1Home
    <3>2. 1..Len(lh) = 1..tail + 1
      BY <1>a, <2>2, <2>9
    <3>3. MirrorInv'
      BY <2>1, <2>2, <2>7, <3>1, <3>2 DEF MirrorInv, Agree
    <3> QED
      BY <2>6, <3>3
  <2> QED
    BY <2>8, <2>9
<1>9. CASE Crash
  <2>1. phase' = "boot" /\ UNCHANGED <<home, head, latest>>
    BY <1>9 DEF Crash, disks
  <2> QED
    BY <1>1, <1>2, <2>1
<1> QED
  BY <1>4, <1>5, <1>6, <1>7, <1>8, <1>9 DEF Next, CommitStep

\* When no failure is simulated, a block that has been written differs on the two
\* disks only while the header of disk 0 names it, whenever the machine crashes:
\* recovery then writes both copies again.  The blocks that recovery has
\* installed are left alone until the next restart, as in the two theorems above.
THEOREM MirrorsAgree ==
  NothingFails /\ RecoveredLeftAlone => (Spec => []MirrorAgrees)
<1> SUFFICES ASSUME NothingFails, RecoveredLeftAlone PROVE Spec => []MirrorAgrees
  OBVIOUS
<1>1. Init => MirrorInv /\ MirrorAgrees
  BY DEF Init, MirrorInv, MirrorAgrees
<1>2. IInv /\ StoreInv /\ MirrorInv /\ MirrorAgrees /\ [Next]_vars
        => MirrorInv' /\ MirrorAgrees'
  BY ConstantsAssumption, MirrorStep
<1>3. Spec => []StoreInv
  BY StoreAlways DEF NothingFails, Disk0Works
<1> QED
  BY <1>1, <1>2, <1>3, Inductive, PTL DEF Spec
=============================================================================
