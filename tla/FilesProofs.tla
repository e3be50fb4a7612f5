---------------------------- MODULE FilesProofs -----------------------------
(***************************************************************************)
(* Theorems of the open files of mp2, which the slab allocator holds       *)
(* (Slab), and of the files on the disk of mp4 (FileBlocks), for any       *)
(* processes, descriptors, pages, files, blocks and sizes.                 *)
(***************************************************************************)
EXTENDS Slab, FileBlocks, FiniteSetTheorems, WellFoundedInduction, TLAPS

Pages == Page \cup {CachePage}
Busy(o) == Places(o) # {} \/ InHand(o)
Live(s) == s = CachePage \/ s \in Slabs

\* What the processes know: who has which file, and how often.
OwnerInv ==
  /\ ref \in [Obj -> Nat]
  /\ ofile \in [Proc -> [Fd -> Obj \cup {NoObj}]]
  /\ step \in [Proc -> {"none", "alloc", "close"}]
  /\ cur \in [Proc -> Obj \cup {NoObj}]
  /\ \A p \in Proc : cur[p] = NoObj <=> step[p] = "none"
  /\ RefExact /\ ClosedOnce

\* What the cache knows: its slabs, their lists and counts.
CacheInv ==
  /\ \A s \in Slabs : in_use[s] <= ObjsPerSlab
  /\ freelist \in [Pages -> SUBSET Obj] /\ in_use \in [Page -> 0..Junk]
  /\ on \in [Page -> {"full", "partial", "free", "none"}]
  /\ kmem \subseteq Page /\ kmem \cap Slabs = {}
  /\ \A s \in Pages : freelist[s] \subseteq ObjsIn(s)
  /\ SlabsSorted

\* The two agree: what is not free is somebody's.
Agree == \A o \in Obj : IF Live(o[1]) THEN o \in freelist[o[1]] <=> ~Busy(o) ELSE ~Busy(o)

IInv == OwnerInv /\ CacheInv /\ Agree

-----------------------------------------------------------------------------
\* An object lies in one page.
LEMMA ObjHome ==
  ASSUME SlabAssumption
  PROVE  /\ \A o \in Obj : o[1] \in Pages /\ o \in ObjsIn(o[1])
         /\ \A s \in Pages : \A o \in ObjsIn(s) : o \in Obj /\ o[1] = s
         /\ NoObj \notin Obj
<1>1. ASSUME NEW s \in Pages, NEW o \in ObjsIn(s)
      PROVE  o \in Obj /\ o[1] = s
  BY <1>1 DEF SlabAssumption, Pages, ObjsIn, ObjsOf, InCacheObjs, Obj
<1>2. ASSUME NEW o \in Obj
      PROVE  o[1] \in Pages /\ o \in ObjsIn(o[1])
  <2>1. CASE o \in InCacheObjs
    BY <2>1 DEF Pages, ObjsIn, InCacheObjs
  <2>2. CASE o \in Page \X (1..ObjsPerSlab)
    BY <2>2 DEF SlabAssumption, Pages, ObjsIn, ObjsOf
  <2> QED
    BY <2>1, <2>2 DEF Obj
<1>3. NoObj \notin Obj
  BY DEF SlabAssumption, Obj, InCacheObjs
<1> QED
  BY <1>1, <1>2, <1>3

\* A slab has ObjsPerSlab objects.
LEMMA ObjsCount ==
  ASSUME SlabAssumption, NEW s
  PROVE  IsFiniteSet(ObjsOf(s)) /\ Cardinality(ObjsOf(s)) = ObjsPerSlab
<1>1. IsFiniteSet({s}) /\ Cardinality({s}) = 1
  BY FS_Singleton
<1>2. IsFiniteSet(1..ObjsPerSlab) /\ Cardinality(1..ObjsPerSlab) = ObjsPerSlab
  BY FS_Interval DEF SlabAssumption
<1>3. IsFiniteSet(ObjsOf(s)) /\ Cardinality(ObjsOf(s)) = 1 * ObjsPerSlab
  <2> DEFINE R == 1..ObjsPerSlab
  <2>1. IsFiniteSet({s}) /\ IsFiniteSet(R) /\ Cardinality({s}) = 1 /\ Cardinality(R) = ObjsPerSlab
    BY <1>1, <1>2
  <2>2. ObjsOf(s) = {s} \X R
    BY DEF ObjsOf
  <2> HIDE DEF R
  <2>3. /\ IsFiniteSet({s} \X R)
        /\ Cardinality({s} \X R) = Cardinality({s}) * Cardinality(R)
    BY <2>1, FS_Product
  <2> QED
    BY <2>1, <2>2, <2>3
<1> QED
  BY <1>3 DEF SlabAssumption

\* A file has finitely many places.
LEMMA PlacesFinite ==
  ASSUME SlabAssumption, NEW o
  PROVE  IsFiniteSet(Places(o)) /\ Cardinality(Places(o)) \in Nat
<1>1. IsFiniteSet(Proc \X Fd)
  BY FS_Product DEF SlabAssumption
<1>2. Places(o) \in SUBSET (Proc \X Fd)
  BY DEF Places
<1> QED
  BY <1>1, <1>2, FS_Subset, FS_CardinalityType

\* Storing v in one place moves that place, and no other, to v.
LEMMA PlacesPut ==
  ASSUME OwnerInv, NEW p \in Proc, NEW d \in Fd, NEW v \in Obj \cup {NoObj},
         ofile' = [ofile EXCEPT ![p][d] = v]
  PROVE  \A o \in Obj : Places(o)' = IF o = v THEN Places(o) \cup {<<p, d>>}
                                             ELSE Places(o) \ {<<p, d>>}
<1>1. ASSUME NEW q \in Proc, NEW e \in Fd
      PROVE  ofile'[q][e] = IF q = p /\ e = d THEN v ELSE ofile[q][e]
  BY DEF OwnerInv
<1>2. ASSUME NEW x \in Proc \X Fd
      PROVE  /\ x[1] \in Proc /\ x[2] \in Fd
             /\ ofile'[x[1]][x[2]] = IF x = <<p, d>> THEN v ELSE ofile[x[1]][x[2]]
  BY <1>1
<1> QED
  BY <1>2 DEF Places

-----------------------------------------------------------------------------
\* An object that nobody has becomes the caller's.
LEMMA OwnerAlloc ==
  ASSUME SlabAssumption, OwnerInv, NEW p \in Proc, NEW o \in Obj, ~Busy(o), Allocates(p, o)
  PROVE  OwnerInv' /\ \A x \in Obj : Busy(x)' <=> Busy(x) \/ x = o
<1>1. /\ step' = [step EXCEPT ![p] = "alloc"] /\ cur' = [cur EXCEPT ![p] = o]
      /\ ref' = ref /\ ofile' = ofile /\ cur[p] = NoObj
  BY DEF Allocates, files, OwnerInv
<1>2. \A x : Places(x)' = Places(x)
  BY <1>1 DEF Places
<1>3. o # NoObj
  BY ObjHome
<1>4. \A q \in Proc : cur'[q] = IF q = p THEN o ELSE cur[q]
  BY <1>1 DEF OwnerInv
<1>5. \A x \in Obj : InHand(x)' <=> InHand(x) \/ x = o
  BY <1>1, <1>4, ObjHome DEF InHand
<1>6. ClosedOnce'
  BY <1>2, <1>4 DEF OwnerInv, ClosedOnce, Busy, InHand
<1>7. RefExact'
  BY <1>1, <1>2 DEF OwnerInv, RefExact
<1> QED
  BY <1>1, <1>2, <1>3, <1>5, <1>6, <1>7 DEF OwnerInv, Busy

\* filealloc() hands the object over to its first pointer.
LEMMA OwnerFilealloc ==
  ASSUME SlabAssumption, OwnerInv, NEW p \in Proc, NEW d \in Fd, filealloc(p, d)
  PROVE  OwnerInv' /\ \A x \in Obj : Busy(x)' <=> Busy(x)
<1> DEFINE f == cur[p]
<1>1. /\ f \in Obj /\ Places(f) = {} /\ ofile[p][d] = NoObj
      /\ \A q \in Proc \ {p} : cur[q] # f
  BY ObjHome DEF filealloc, OwnerInv, ClosedOnce
<1>2. /\ ref' = [ref EXCEPT ![f] = 1] /\ ofile' = [ofile EXCEPT ![p][d] = f]
      /\ step' = [step EXCEPT ![p] = "none"] /\ cur' = [cur EXCEPT ![p] = NoObj]
  BY DEF filealloc
<1>3. \A x \in Obj : Places(x)' = IF x = f THEN {<<p, d>>} ELSE Places(x)
  <2>1. \A x \in Obj : <<p, d>> \notin Places(x)
    BY <1>1, ObjHome DEF Places
  <2>2. \A x \in Obj : Places(x)' = IF x = f THEN Places(x) \cup {<<p, d>>}
                                           ELSE Places(x) \ {<<p, d>>}
    BY <1>1, <1>2, PlacesPut
  <2> QED
    BY <1>1, <2>1, <2>2
<1>4. \A q \in Proc : cur'[q] = IF q = p THEN NoObj ELSE cur[q]
  BY <1>2 DEF OwnerInv
<1>5. \A x \in Obj : InHand(x)' <=> InHand(x) /\ x # f
  BY <1>1, <1>4, ObjHome DEF InHand
<1>6. RefExact'
  BY <1>1, <1>2, <1>3, FS_Singleton DEF OwnerInv, RefExact
<1>7. ClosedOnce'
  BY <1>1, <1>3, <1>4 DEF OwnerInv, ClosedOnce
<1>8. ofile' \in [Proc -> [Fd -> Obj \cup {NoObj}]]
  BY <1>1, <1>2 DEF OwnerInv
<1>9. ref' \in [Obj -> Nat]
  BY <1>2 DEF OwnerInv
<1>10. OwnerInv'
  BY <1>2, <1>6, <1>7, <1>8, <1>9 DEF OwnerInv
<1>11. \A x \in Obj : Busy(x)' <=> Busy(x)
  BY <1>3, <1>5 DEF Busy, InHand
<1> QED
  BY <1>10, <1>11

\* filedup() counts the pointer it gives out.
LEMMA OwnerFiledup ==
  ASSUME SlabAssumption, OwnerInv, NEW p \in Proc, NEW d \in Fd, NEW q \in Proc, NEW e \in Fd,
         filedup(p, d, q, e)
  PROVE  OwnerInv' /\ \A x \in Obj : Busy(x)' <=> Busy(x)
<1> DEFINE f == ofile[p][d]
<1>1. f \in Obj /\ ofile[q][e] = NoObj /\ <<p, d>> \in Places(f)
  BY DEF filedup, OwnerInv, Places
<1>2. /\ ref' = [ref EXCEPT ![f] = ref[f] + 1] /\ ofile' = [ofile EXCEPT ![q][e] = f]
      /\ step' = step /\ cur' = cur
  BY DEF filedup, DupRef
<1>3. \A x \in Obj : <<q, e>> \notin Places(x)
  BY <1>1, ObjHome DEF Places
<1>4. \A x \in Obj : Places(x)' = IF x = f THEN Places(f) \cup {<<q, e>>} ELSE Places(x)
  <2>1. \A x \in Obj : Places(x)' = IF x = f THEN Places(x) \cup {<<q, e>>}
                                           ELSE Places(x) \ {<<q, e>>}
    <3>1. f \in Obj \cup {NoObj} /\ ofile' = [ofile EXCEPT ![q][e] = f]
      BY <1>1, <1>2
    <3> HIDE DEF f
    <3> QED
      BY <3>1, PlacesPut
  <2> QED
    BY <1>3, <2>1
<1>5. Cardinality(Places(f) \cup {<<q, e>>}) = Cardinality(Places(f)) + 1
  <2>1. IsFiniteSet(Places(f)) /\ <<q, e>> \notin Places(f)
    BY <1>1, <1>3, PlacesFinite
  <2> QED
    BY <2>1, FS_AddElement
<1>6. RefExact'
  BY <1>1, <1>2, <1>4, <1>5 DEF OwnerInv, RefExact
<1>7. ClosedOnce'
  BY <1>1, <1>2, <1>4 DEF OwnerInv, ClosedOnce
<1>8. ofile' \in [Proc -> [Fd -> Obj \cup {NoObj}]]
  BY <1>1, <1>2 DEF OwnerInv
<1>9. ref' \in [Obj -> Nat]
  BY <1>1, <1>2 DEF OwnerInv
<1>10. OwnerInv'
  BY <1>2, <1>6, <1>7, <1>8, <1>9 DEF OwnerInv
<1>11. \A x \in Obj : Busy(x)' <=> Busy(x)
  BY <1>1, <1>2, <1>4 DEF Busy, InHand
<1> QED
  BY <1>10, <1>11

\* fileclose() takes a pointer back, and keeps the file in hand at the last.
LEMMA OwnerFileclose ==
  ASSUME SlabAssumption, OwnerInv, NEW p \in Proc, NEW d \in Fd, fileclose(p, d)
  PROVE  OwnerInv' /\ \A x \in Obj : Busy(x)' <=> Busy(x)
<1> DEFINE f == ofile[p][d]
<1>1. /\ f \in Obj /\ <<p, d>> \in Places(f) /\ cur[p] = NoObj /\ step[p] = "none"
      /\ ref[f] \in Nat /\ ref[f] >= 1 /\ f # NoObj
  BY DEF fileclose, OwnerInv, Places
<1>2. ofile' = [ofile EXCEPT ![p][d] = NoObj]
  BY DEF fileclose
<1>3. \A x \in Obj : x # f => <<p, d>> \notin Places(x)
  BY DEF Places
<1>4. \A x \in Obj : Places(x)' = IF x = f THEN Places(f) \ {<<p, d>>} ELSE Places(x)
  <2>1. \A x \in Obj : Places(x)' = IF x = NoObj THEN Places(x) \cup {<<p, d>>}
                                           ELSE Places(x) \ {<<p, d>>}
    BY <1>2, PlacesPut
  <2>2. NoObj \notin Obj
    BY ObjHome
  <2>3. ASSUME NEW x \in Obj
        PROVE  Places(x)' = IF x = f THEN Places(f) \ {<<p, d>>} ELSE Places(x)
    <3>1. Places(x)' = Places(x) \ {<<p, d>>}
      BY <2>1, <2>2
    <3>2. x # f => Places(x) \ {<<p, d>>} = Places(x)
      BY <1>3, Zenon
    <3> QED
      BY <3>1, <3>2
  <2> QED
    BY <2>3
<1>5. /\ Cardinality(Places(f) \ {<<p, d>>}) = ref[f] - 1 /\ IsFiniteSet(Places(f) \ {<<p, d>>})
  <2>1. IsFiniteSet(Places(f)) /\ Cardinality(Places(f)) = ref[f]
    BY <1>1, PlacesFinite DEF OwnerInv, RefExact
  <2> QED
    BY <1>1, <2>1, FS_RemoveElement
<1>6. \A q \in Proc : cur[q] # f
  BY <1>1 DEF OwnerInv, ClosedOnce
<1>7. ofile' \in [Proc -> [Fd -> Obj \cup {NoObj}]]
  BY <1>2 DEF OwnerInv
<1>8. CASE LastRef(f)
  <2>1. /\ ref' = [ref EXCEPT ![f] = 0] /\ ref[f] = 1
        /\ step' = [step EXCEPT ![p] = "close"] /\ cur' = [cur EXCEPT ![p] = f]
    BY <1>8 DEF fileclose, LastRef
  <2>2. Places(f) \ {<<p, d>>} = {}
    BY <1>5, <2>1, FS_EmptySet
  <2>3. \A q \in Proc : cur'[q] = IF q = p THEN f ELSE cur[q]
    BY <2>1 DEF OwnerInv
  <2>4. RefExact'
    <3>1. ASSUME NEW x \in Obj
          PROVE  ref'[x] = Cardinality(Places(x)')
      <4>1. CASE x = f
        <5>1. Places(x)' = Places(f) \ {<<p, d>>}
          BY <1>4, <4>1
        <5>2. Places(x)' = {} /\ ref'[x] = 0
          BY <1>1, <2>1, <2>2, <4>1, <5>1 DEF OwnerInv
        <5> QED
          BY <5>2, FS_EmptySet
      <4>2. CASE x # f
        BY <1>1, <1>4, <2>1, <4>2 DEF OwnerInv, RefExact
      <4> QED
        BY <4>1, <4>2
    <3> QED
      BY <3>1 DEF RefExact
  <2>5. ClosedOnce'
    BY <1>4, <1>6, <2>2, <2>3, <1>1 DEF OwnerInv, ClosedOnce
  <2>6. ref' \in [Obj -> Nat] /\ step' \in [Proc -> {"none", "alloc", "close"}]
        /\ cur' \in [Proc -> Obj \cup {NoObj}]
    BY <1>1, <2>1 DEF OwnerInv
  <2>7. \A q \in Proc : cur'[q] = NoObj <=> step'[q] = "none"
    BY <1>1, <2>1 DEF OwnerInv
  <2>8. OwnerInv'
    BY <1>7, <2>4, <2>5, <2>6, <2>7 DEF OwnerInv
  <2>9. \A x \in Obj : InHand(x)' <=> InHand(x) \/ x = f
    BY <1>1, <2>3, ObjHome DEF InHand
  <2> QED
    BY <1>1, <1>4, <2>8, <2>9 DEF Busy
<1>9. CASE ~LastRef(f)
  <2>1. ref' = [ref EXCEPT ![f] = ref[f] - 1] /\ step' = step /\ cur' = cur /\ ref[f] # 1
    BY <1>9 DEF fileclose, LastRef
  <2>2. Places(f) \ {<<p, d>>} # {}
    BY <1>1, <1>5, <2>1, FS_EmptySet
  <2>3. RefExact'
    BY <1>1, <1>4, <1>5, <2>1 DEF OwnerInv, RefExact
  <2>4. ClosedOnce'
    BY <1>4, <1>6, <2>1 DEF OwnerInv, ClosedOnce
  <2>5. ref' \in [Obj -> Nat]
    BY <1>1, <2>1 DEF OwnerInv
  <2>6. OwnerInv'
    BY <1>7, <2>1, <2>3, <2>4, <2>5 DEF OwnerInv
  <2> QED
    BY <1>1, <1>4, <2>1, <2>2, <2>6 DEF Busy, InHand
<1> QED
  BY <1>8, <1>9

\* After kmem_cache_free() nobody has the object.
LEMMA OwnerFree ==
  ASSUME SlabAssumption, OwnerInv, NEW p \in Proc, Frees(p)
  PROVE  /\ OwnerInv' /\ cur[p] \in Obj /\ Busy(cur[p])
         /\ \A x \in Obj : Busy(x)' <=> Busy(x) /\ x # cur[p]
<1> DEFINE f == cur[p]
<1>1. /\ f \in Obj /\ Places(f) = {} /\ \A q \in Proc \ {p} : cur[q] # f
  BY ObjHome DEF Frees, OwnerInv, ClosedOnce
<1>2. /\ ref' = ref /\ ofile' = ofile
      /\ step' = [step EXCEPT ![p] = "none"] /\ cur' = [cur EXCEPT ![p] = NoObj]
  BY DEF Frees, files
<1>3. \A x : Places(x)' = Places(x)
  BY <1>2 DEF Places
<1>4. \A q \in Proc : cur'[q] = IF q = p THEN NoObj ELSE cur[q]
  BY <1>2 DEF OwnerInv
<1>5. \A x \in Obj : InHand(x)' <=> InHand(x) /\ x # f
  BY <1>1, <1>4, ObjHome DEF InHand
<1>6. RefExact' /\ ClosedOnce'
  BY <1>2, <1>3, <1>4 DEF OwnerInv, RefExact, ClosedOnce
<1> QED
  BY <1>1, <1>2, <1>3, <1>5, <1>6 DEF OwnerInv, Busy, InHand

-----------------------------------------------------------------------------
\* What lies in the pages of other slabs is not touched.
LEMMA AgreeElsewhere ==
  ASSUME SlabAssumption, Agree, NEW s \in Pages, NEW f \in Obj,
         \A x \in Obj : x # f => (Busy(x)' <=> Busy(x)),
         \A t \in Pages \ {s} : freelist'[t] = freelist[t] /\ (Live(t)' <=> Live(t)),
         f[1] = s,
         \A x \in ObjsIn(s) : IF Live(s)' THEN x \in freelist'[s] <=> ~Busy(x)' ELSE ~Busy(x)'
  PROVE  Agree'
<1>1. ASSUME NEW x \in Obj
      PROVE  IF Live(x[1])' THEN x \in freelist'[x[1]] <=> ~Busy(x)' ELSE ~Busy(x)'
  <2>1. x[1] \in Pages /\ x \in ObjsIn(x[1])
    BY ObjHome
  <2>2. CASE x[1] = s
    <3>1. x \in ObjsIn(s)
      BY <2>1, <2>2
    <3>2. IF Live(s)' THEN x \in freelist'[s] <=> ~Busy(x)' ELSE ~Busy(x)'
      BY <3>1
    <3> QED
      BY <2>2, <3>2
  <2>3. CASE x[1] # s
    <3>1. x # f
      BY <2>3
    <3>2. (Busy(x)' <=> Busy(x)) /\ freelist'[x[1]] = freelist[x[1]] /\ (Live(x[1])' <=> Live(x[1]))
      BY <2>1, <2>3, <3>1
    <3> QED
      BY <3>2 DEF Agree
  <2> QED
    BY <2>2, <2>3
<1> QED
  BY <1>1 DEF Agree

\* Taking an object of slab s, from its free list or from a new page.
LEMMA TakeKeeps ==
  ASSUME SlabAssumption, IInv, NEW p \in Proc, NEW s \in Page, NEW avail, NEW n \in Nat,
         TakeFrom(p, s, avail, n), avail \subseteq ObjsOf(s), n + Cardinality(avail) = ObjsPerSlab,
         \A x \in ObjsOf(s) : x \in avail <=> ~Busy(x),
         kmem' \subseteq Page, kmem' \cap (Slabs \cup {s}) = {}
  PROVE  IInv'
<1>1. PICK o \in avail :
        /\ Allocates(p, o)
        /\ freelist' = [freelist EXCEPT ![s] = avail \ {o}]
        /\ in_use' = [in_use EXCEPT ![s] = n + 1]
        /\ on' = [on EXCEPT ![s] = IF n + 1 = ObjsPerSlab THEN "full" ELSE "partial"]
  BY DEF TakeFrom
<1>2. /\ s \in Pages /\ s # CachePage /\ ObjsIn(s) = ObjsOf(s)
      /\ o \in Obj /\ o[1] = s /\ o \in ObjsOf(s) /\ ~Busy(o)
  <2>1. s \in Pages /\ s # CachePage /\ ObjsIn(s) = ObjsOf(s)
    BY DEF SlabAssumption, Pages, ObjsIn
  <2>2. o \in ObjsOf(s) /\ ~Busy(o)
    BY <1>1
  <2> QED
    BY <2>1, <2>2, ObjHome
<1>3. OwnerInv' /\ \A x \in Obj : Busy(x)' <=> Busy(x) \/ x = o
  BY <1>1, <1>2, OwnerAlloc DEF IInv
<1>4. IsFiniteSet(avail) /\ Cardinality(avail \ {o}) = Cardinality(avail) - 1
      /\ Cardinality(avail \ {o}) \in Nat /\ Cardinality(avail) \in Nat
  <2>1. IsFiniteSet(avail)
    BY ObjsCount, FS_Subset
  <2>2. IsFiniteSet(avail \ {o}) /\ Cardinality(avail \ {o}) = Cardinality(avail) - 1
    BY <1>1, <2>1, FS_RemoveElement
  <2> QED
    BY <2>1, <2>2, FS_CardinalityType
<1>5. n + 1 \in 1..ObjsPerSlab /\ n + 1 + Cardinality(avail \ {o}) = ObjsPerSlab
  BY <1>4 DEF SlabAssumption
<1>6. Slabs' = Slabs \cup {s}
  BY <1>1 DEF Slabs, IInv, CacheInv
<1>7. CacheInv'
  <2>1. freelist' \in [Pages -> SUBSET Obj] /\ \A t \in Pages : freelist'[t] \subseteq ObjsIn(t)
    BY <1>1, <1>2, ObjHome DEF IInv, CacheInv
  <2>2. /\ in_use' \in [Page -> 0..Junk] /\ on' \in [Page -> {"full", "partial", "free", "none"}]
    BY <1>1, <1>5 DEF IInv, CacheInv, Junk, SlabAssumption
  <2>3. ASSUME NEW t \in Slabs'
        PROVE  /\ in_use'[t] <= ObjsPerSlab
               /\ in_use'[t] + Cardinality(freelist'[t]) = ObjsPerSlab
               /\ on'[t] = CASE in_use'[t] = 0 -> "free"
                             [] in_use'[t] = ObjsPerSlab -> "full"
                             [] OTHER -> "partial"
    <3>1. CASE t = s
      <4>1. in_use'[t] = n + 1 /\ freelist'[t] = avail \ {o}
            /\ on'[t] = IF n + 1 = ObjsPerSlab THEN "full" ELSE "partial"
        BY <1>1, <1>2, <3>1 DEF IInv, CacheInv
      <4> QED
        BY <1>5, <4>1
    <3>2. CASE t # s
      <4>1. t \in Slabs /\ t \in Pages /\ t \in Page
        BY <1>6, <3>2 DEF Slabs, Pages
      <4>2. in_use'[t] = in_use[t] /\ freelist'[t] = freelist[t] /\ on'[t] = on[t]
        BY <1>1, <3>2, <4>1 DEF IInv, CacheInv
      <4> QED
        BY <4>1, <4>2 DEF IInv, CacheInv, SlabsSorted
    <3> QED
      BY <3>1, <3>2
  <2>4. SlabsSorted'
    BY <2>3 DEF SlabsSorted
  <2> QED
    BY <1>6, <2>1, <2>2, <2>3, <2>4 DEF CacheInv
<1>8. Agree'
  <2>1. \A t \in Pages \ {s} : freelist'[t] = freelist[t] /\ (Live(t)' <=> Live(t))
    BY <1>1, <1>6 DEF IInv, CacheInv, Live
  <2>2. Live(s)' /\ freelist'[s] = avail \ {o}
    BY <1>1, <1>2, <1>6 DEF Live, IInv, CacheInv
  <2>3. ASSUME NEW x \in ObjsIn(s)
        PROVE  x \in freelist'[s] <=> ~Busy(x)'
    <3>1. x \in Obj /\ x \in ObjsOf(s)
      BY <1>2, ObjHome
    <3> QED
      BY <1>3, <2>2, <3>1
  <2>4. \A x \in Obj : x # o => (Busy(x)' <=> Busy(x))
    BY <1>3
  <2> QED
    BY <1>2, <2>1, <2>2, <2>3, <2>4, AgreeElsewhere DEF IInv
<1> QED
  BY <1>3, <1>7, <1>8 DEF IInv

\* Giving an object back to its slab, or the slab back to kalloc() with it.
LEMMA FreeKeeps ==
  ASSUME SlabAssumption, IInv, NEW p \in Proc, NEW s \in Page, FreeToSlab(p, s)
  PROVE  IInv'
<1> DEFINE f == cur[p]
           n == in_use[s] - 1
           give == freelist[s] \cup {f}
<1>1. Frees(p) /\ f \in ObjsOf(s)
  BY DEF FreeToSlab
<1>2. /\ OwnerInv' /\ f \in Obj /\ Busy(f)
      /\ \A x \in Obj : Busy(x)' <=> Busy(x) /\ x # f
  BY <1>1, OwnerFree DEF IInv
<1>3. s \in Pages /\ s # CachePage /\ ObjsIn(s) = ObjsOf(s) /\ f[1] = s
  <2>1. s \in Pages /\ s # CachePage /\ ObjsIn(s) = ObjsOf(s)
    BY DEF SlabAssumption, Pages, ObjsIn
  <2> QED
    BY <1>1, <2>1, ObjHome
<1>4. s \in Slabs /\ f \notin freelist[s] /\ freelist[s] \subseteq ObjsOf(s)
  BY <1>2, <1>3 DEF IInv, Agree, CacheInv, Live
<1>5. IsFiniteSet(freelist[s]) /\ Cardinality(give) = Cardinality(freelist[s]) + 1
      /\ Cardinality(freelist[s]) \in Nat /\ IsFiniteSet(give)
  <2>1. IsFiniteSet(freelist[s])
    BY <1>4, ObjsCount, FS_Subset
  <2>2. Cardinality(give) = Cardinality(freelist[s]) + 1 /\ IsFiniteSet(give)
    BY <1>4, <2>1, FS_AddElement
  <2> QED
    BY <2>1, <2>2, FS_CardinalityType
<1>6. in_use[s] \in Nat /\ in_use[s] + Cardinality(freelist[s]) = ObjsPerSlab
  BY <1>4 DEF IInv, CacheInv, SlabsSorted
<1>7. give \subseteq ObjsOf(s)
  BY <1>1, <1>4
<1>8. Cardinality(give) <= ObjsPerSlab
  BY <1>7, ObjsCount, FS_Subset
<1>9. n \in Nat /\ n < ObjsPerSlab /\ n + Cardinality(give) = ObjsPerSlab /\ ObjsPerSlab \in Nat
  BY <1>5, <1>6, <1>8 DEF SlabAssumption
<1>10. CASE Empty(n) /\ EnoughOthers(s)
  <2>1. /\ freelist' = [freelist EXCEPT ![s] = {}] /\ in_use' = [in_use EXCEPT ![s] = Junk]
        /\ on' = [on EXCEPT ![s] = "none"] /\ kmem' = kmem \cup {s}
    BY <1>10 DEF FreeToSlab
  <2>2. Slabs' = Slabs \ {s}
    BY <2>1 DEF Slabs, IInv, CacheInv
  <2>3. give = ObjsOf(s)
    <3>1. Cardinality(give) = Cardinality(ObjsOf(s)) /\ IsFiniteSet(ObjsOf(s))
      <4>1. n = 0
        BY <1>10 DEF Empty
      <4>2. Cardinality(give) \in Nat
        BY <1>5, FS_CardinalityType
      <4>3. Cardinality(give) = ObjsPerSlab
        <5> HIDE DEF n, give
        <5> QED
          BY <1>9, <4>1, <4>2
      <4> QED
        BY <4>3, ObjsCount
    <3> QED
      BY <1>7, <3>1, FS_Subset
  <2>4. \A x \in ObjsIn(s) : ~Busy(x)'
    <3>1. ASSUME NEW x \in ObjsIn(s)
          PROVE  ~Busy(x)'
      <4>1. x \in Obj /\ x[1] = s /\ (x = f \/ x \in freelist[s])
        BY <1>3, <2>3, ObjHome
      <4>2. x \in freelist[s] => ~Busy(x)
        BY <1>4, <4>1 DEF IInv, Agree, Live
      <4> QED
        BY <1>2, <4>1, <4>2
    <3> QED
      BY <3>1
  <2>5. \A t \in Pages \ {s} : freelist'[t] = freelist[t] /\ (Live(t)' <=> Live(t))
    BY <2>1, <2>2 DEF IInv, CacheInv, Live
  <2>6. ~Live(s)'
    BY <1>3, <2>2 DEF Live
  <2>7. Agree'
    BY <1>2, <1>3, <2>4, <2>5, <2>6, AgreeElsewhere DEF IInv
  <2>8. CacheInv'
    <3>1. freelist' \in [Pages -> SUBSET Obj] /\ \A t \in Pages : freelist'[t] \subseteq ObjsIn(t)
      BY <1>3, <2>1 DEF IInv, CacheInv
    <3>2. in_use' \in [Page -> 0..Junk] /\ on' \in [Page -> {"full", "partial", "free", "none"}]
      BY <1>9, <2>1 DEF IInv, CacheInv, Junk
    <3>3. \A t \in Slabs' : t \in Slabs /\ in_use'[t] = in_use[t] /\ freelist'[t] = freelist[t]
                            /\ on'[t] = on[t]
      BY <1>3, <2>1, <2>2 DEF IInv, CacheInv, Slabs, Pages
    <3>4. SlabsSorted' /\ \A t \in Slabs' : in_use'[t] <= ObjsPerSlab
      BY <3>3 DEF IInv, CacheInv, SlabsSorted
    <3> QED
      BY <2>1, <2>2, <3>1, <3>2, <3>4 DEF IInv, CacheInv
  <2> QED
    BY <1>2, <2>7, <2>8 DEF IInv
<1>11. CASE ~(Empty(n) /\ EnoughOthers(s))
  <2>1. /\ freelist' = [freelist EXCEPT ![s] = give] /\ in_use' = [in_use EXCEPT ![s] = n]
        /\ on' = [on EXCEPT ![s] = IF Empty(n) THEN "free" ELSE ListAfter(s, n)]
        /\ kmem' = kmem
    BY <1>11 DEF FreeToSlab
  <2>2. on'[s] = IF n = 0 THEN "free" ELSE "partial"
    <3>1. on[s] = IF in_use[s] = ObjsPerSlab THEN "full" ELSE "partial"
      BY <1>4, <1>6, <1>9 DEF IInv, CacheInv, SlabsSorted
    <3>2. on'[s] = IF Empty(n) THEN "free" ELSE ListAfter(s, n)
      BY <2>1 DEF IInv, CacheInv
    <3> QED
      BY <1>6, <1>9, <3>1, <3>2 DEF Empty, ListAfter
  <2>3. Slabs' = Slabs
    BY <1>4, <2>1, <2>2 DEF IInv, CacheInv, Slabs
  <2>4. CacheInv'
    <3>1. freelist' \in [Pages -> SUBSET Obj] /\ \A t \in Pages : freelist'[t] \subseteq ObjsIn(t)
      <4>1. give \in SUBSET Obj /\ give \subseteq ObjsIn(s)
        BY <1>3, <1>7, ObjHome
      <4>2. freelist \in [Pages -> SUBSET Obj] /\ \A t \in Pages : freelist[t] \subseteq ObjsIn(t)
        BY DEF IInv, CacheInv
      <4> HIDE DEF give
      <4> QED
        BY <1>3, <2>1, <4>1, <4>2
    <3>2. in_use' \in [Page -> 0..Junk] /\ on' \in [Page -> {"full", "partial", "free", "none"}]
      BY <1>9, <2>1, <2>2 DEF IInv, CacheInv, Junk
    <3>3. ASSUME NEW t \in Slabs'
          PROVE  /\ in_use'[t] <= ObjsPerSlab
                 /\ in_use'[t] + Cardinality(freelist'[t]) = ObjsPerSlab
                 /\ on'[t] = CASE in_use'[t] = 0 -> "free"
                               [] in_use'[t] = ObjsPerSlab -> "full"
                               [] OTHER -> "partial"
      <4>1. CASE t = s
        <5>1. in_use'[t] = n /\ freelist'[t] = give
          BY <1>3, <2>1, <4>1 DEF IInv, CacheInv
        <5> QED
          BY <1>9, <2>2, <4>1, <5>1
      <4>2. CASE t # s
        <5>1. t \in Slabs /\ t \in Page /\ t \in Pages
          BY <2>3 DEF Slabs, Pages
        <5>2. in_use'[t] = in_use[t] /\ freelist'[t] = freelist[t] /\ on'[t] = on[t]
          BY <2>1, <4>2, <5>1 DEF IInv, CacheInv
        <5> QED
          BY <5>1, <5>2 DEF IInv, CacheInv, SlabsSorted
      <4> QED
        BY <4>1, <4>2
    <3>4. SlabsSorted'
      BY <3>3 DEF SlabsSorted
    <3> QED
      BY <2>1, <2>3, <3>1, <3>2, <3>3, <3>4 DEF IInv, CacheInv
  <2>5. \A t \in Pages \ {s} : freelist'[t] = freelist[t] /\ (Live(t)' <=> Live(t))
    BY <2>1, <2>3 DEF IInv, CacheInv, Live
  <2>6. Live(s)' /\ Live(s) /\ freelist'[s] = give
    BY <1>3, <1>4, <2>1, <2>3 DEF Live, IInv, CacheInv
  <2>7. ASSUME NEW x \in ObjsIn(s)
        PROVE  x \in freelist'[s] <=> ~Busy(x)'
    <3>1. x \in Obj /\ x[1] = s
      BY <1>3, ObjHome
    <3>2. x \in freelist[s] <=> ~Busy(x)
      BY <2>6, <3>1 DEF IInv, Agree
    <3> QED
      BY <1>2, <2>6, <3>1, <3>2
  <2>8. Agree'
    BY <1>2, <1>3, <2>5, <2>6, <2>7, AgreeElsewhere DEF IInv
  <2> QED
    BY <1>2, <2>4, <2>8 DEF IInv
<1> QED
  BY <1>10, <1>11

-----------------------------------------------------------------------------
\* The cache starts with its own objects, and every page with kalloc().
LEMMA InitInv ==
  ASSUME SlabAssumption, Init
  PROVE  IInv
<1>1. NoObj \notin Obj /\ \A o : Places(o) # {} \/ InHand(o) => o = NoObj
  BY ObjHome DEF Init, Places, InHand
<1>2. Slabs = {}
  BY DEF Init, Slabs
<1>3. CacheInv
  <2>1. freelist \in [Pages -> SUBSET Obj] /\ \A s \in Pages : freelist[s] \subseteq ObjsIn(s)
    BY DEF SlabAssumption, Init, Pages, Obj, ObjsIn
  <2>2. in_use \in [Page -> 0..Junk]
    BY DEF SlabAssumption, Init, Junk
  <2> QED
    BY <1>2, <2>1, <2>2 DEF Init, CacheInv, SlabsSorted
<1>4. OwnerInv
  <2>1. RefExact
    BY <1>1, FS_EmptySet DEF Init, RefExact
  <2> QED
    BY <2>1 DEF Init, OwnerInv, ClosedOnce
<1>5. Agree
  <2>1. ASSUME NEW o \in Obj
        PROVE  IF Live(o[1]) THEN o \in freelist[o[1]] <=> ~Busy(o) ELSE ~Busy(o)
    <3>1. ~Busy(o)
      BY <1>1 DEF Busy
    <3>2. o \in ObjsIn(o[1])
      BY ObjHome
    <3>3. o[1] = CachePage => o \in freelist[o[1]]
      BY <3>2 DEF Init, ObjsIn
    <3> QED
      BY <1>2, <3>1, <3>3 DEF Live
  <2> QED
    BY <2>1 DEF Agree
<1> QED
  BY <1>3, <1>4, <1>5 DEF IInv

\* The pages of the cache are not touched by the files.
LEMMA FilesKeep ==
  ASSUME SlabAssumption, IInv, OwnerInv', UNCHANGED pages,
         \A x \in Obj : Busy(x)' <=> Busy(x)
  PROVE  IInv'
<1>1. CacheInv'
  BY DEF IInv, CacheInv, SlabsSorted, Slabs, pages
<1>2. \A s : Live(s)' <=> Live(s)
  BY DEF Live, Slabs, pages
<1>3. Agree'
  BY <1>2 DEF IInv, Agree, pages
<1> QED
  BY <1>1, <1>3 DEF IInv

\* Every step keeps the invariant.
LEMMA NextInv ==
  ASSUME SlabAssumption, IInv, [Next]_vars
  PROVE  IInv'
<1>1. ASSUME NEW s \in Page, KallocElsewhere(s) \/ KfreeElsewhere(s)
      PROVE  IInv'
  <2>1. freelist' = freelist /\ in_use' = in_use /\ on' = on /\ UNCHANGED <<files, step, cur>>
    BY <1>1 DEF KallocElsewhere, KfreeElsewhere
  <2>2. kmem' \subseteq Page /\ kmem' \cap Slabs = {}
    BY <1>1 DEF KallocElsewhere, KfreeElsewhere, IInv, CacheInv, Slabs
  <2>3. CacheInv'
    BY <2>1, <2>2 DEF IInv, CacheInv, SlabsSorted, Slabs
  <2>4. OwnerInv'
    BY <2>1 DEF IInv, OwnerInv, RefExact, ClosedOnce, Places, files
  <2>5. Agree'
    BY <2>1 DEF IInv, Agree, Live, Slabs, Busy, Places, InHand, files
  <2> QED
    BY <2>3, <2>4, <2>5 DEF IInv
<1>2. ASSUME NEW p \in Proc, AllocInCache(p)
      PROVE  IInv'
  <2>1. PICK o \in freelist[CachePage] :
          Allocates(p, o) /\ freelist' = [freelist EXCEPT ![CachePage] = @ \ {o}]
          /\ UNCHANGED <<in_use, on, kmem>>
    BY <1>2 DEF AllocInCache
  <2>2. CachePage \in Pages /\ ObjsIn(CachePage) = InCacheObjs /\ o \in ObjsIn(CachePage)
    BY <2>1 DEF Pages, ObjsIn, IInv, CacheInv
  <2>3. o \in Obj /\ o[1] = CachePage
    BY <2>2, ObjHome
  <2>4. ~Busy(o)
    BY <2>1, <2>3 DEF IInv, Agree, Live
  <2>5. OwnerInv' /\ \A x \in Obj : Busy(x)' <=> Busy(x) \/ x = o
    BY <2>1, <2>3, <2>4, OwnerAlloc DEF IInv
  <2>6. CachePage \notin Page
    BY DEF SlabAssumption
  <2>7. CacheInv'
    <3>1. freelist' \in [Pages -> SUBSET Obj] /\ \A t \in Pages : freelist'[t] \subseteq ObjsIn(t)
      BY <2>1, <2>2 DEF IInv, CacheInv
    <3>2. \A t \in Page : freelist'[t] = freelist[t]
      BY <2>1, <2>6 DEF IInv, CacheInv, Pages
    <3>3. Slabs' = Slabs /\ Slabs \subseteq Page
      BY <2>1 DEF Slabs
    <3> QED
      BY <2>1, <3>1, <3>2, <3>3 DEF IInv, CacheInv, SlabsSorted
  <2>8. \A t \in Pages \ {CachePage} : freelist'[t] = freelist[t] /\ (Live(t)' <=> Live(t))
    BY <2>1 DEF IInv, CacheInv, Live, Slabs
  <2>9. ASSUME NEW x \in ObjsIn(CachePage)
        PROVE  Live(CachePage)' /\ (x \in freelist'[CachePage] <=> ~Busy(x)')
    <3>1. x \in Obj /\ x[1] = CachePage
      BY <2>2, ObjHome
    <3>2. x \in freelist[CachePage] <=> ~Busy(x)
      BY <3>1 DEF IInv, Agree, Live
    <3>3. freelist'[CachePage] = freelist[CachePage] \ {o}
      BY <2>1, <2>2 DEF IInv, CacheInv
    <3> QED
      BY <2>5, <3>1, <3>2, <3>3 DEF Live
  <2>10. \A x \in Obj : x # o => (Busy(x)' <=> Busy(x))
    BY <2>5
  <2>11. Agree'
    BY <2>2, <2>3, <2>8, <2>9, <2>10, AgreeElsewhere DEF IInv
  <2> QED
    BY <2>5, <2>7, <2>11 DEF IInv
<1>3. ASSUME NEW p \in Proc, FreeInCache(p)
      PROVE  IInv'
  <2> DEFINE f == cur[p]
  <2>1. /\ Frees(p) /\ f \in InCacheObjs
        /\ freelist' = [freelist EXCEPT ![CachePage] = @ \cup {f}]
        /\ UNCHANGED <<in_use, on, kmem>>
    BY <1>3 DEF FreeInCache
  <2>2. CachePage \in Pages /\ ObjsIn(CachePage) = InCacheObjs
    BY DEF Pages, ObjsIn
  <2>3. f \in Obj /\ f[1] = CachePage
    BY <2>1, <2>2, ObjHome
  <2>4. OwnerInv' /\ \A x \in Obj : Busy(x)' <=> Busy(x) /\ x # f
    BY <2>1, OwnerFree DEF IInv
  <2>5. CachePage \notin Page
    BY DEF SlabAssumption
  <2>6. CacheInv'
    <3>1. freelist' \in [Pages -> SUBSET Obj] /\ \A t \in Pages : freelist'[t] \subseteq ObjsIn(t)
      BY <2>1, <2>2, <2>3 DEF IInv, CacheInv
    <3>2. \A t \in Page : freelist'[t] = freelist[t]
      BY <2>1, <2>5 DEF IInv, CacheInv, Pages
    <3>3. Slabs' = Slabs /\ Slabs \subseteq Page
      BY <2>1 DEF Slabs
    <3> QED
      BY <2>1, <3>1, <3>2, <3>3 DEF IInv, CacheInv, SlabsSorted
  <2>7. \A t \in Pages \ {CachePage} : freelist'[t] = freelist[t] /\ (Live(t)' <=> Live(t))
    BY <2>1 DEF IInv, CacheInv, Live, Slabs
  <2>8. ASSUME NEW x \in ObjsIn(CachePage)
        PROVE  Live(CachePage)' /\ (x \in freelist'[CachePage] <=> ~Busy(x)')
    <3>1. x \in Obj /\ x[1] = CachePage
      BY <2>2, ObjHome
    <3>2. x \in freelist[CachePage] <=> ~Busy(x)
      BY <3>1 DEF IInv, Agree, Live
    <3>3. freelist'[CachePage] = freelist[CachePage] \cup {f}
      BY <2>1, <2>2 DEF IInv, CacheInv
    <3> QED
      BY <2>4, <3>1, <3>2, <3>3 DEF Live
  <2>9. \A x \in Obj : x # f => (Busy(x)' <=> Busy(x))
    BY <2>4
  <2>10. Agree'
    BY <2>2, <2>3, <2>7, <2>8, <2>9, AgreeElsewhere DEF IInv
  <2> QED
    BY <2>4, <2>6, <2>10 DEF IInv
<1>4. ASSUME NEW p \in Proc, NEW s \in Page, AllocPartial(p, s) \/ AllocFree(p, s)
      PROVE  IInv'
  <2>1. /\ s \in Slabs /\ TakeFrom(p, s, freelist[s], in_use[s]) /\ kmem' = kmem
    BY <1>4 DEF AllocPartial, AllocFree, Slabs
  <2>2. s \in Pages /\ ObjsIn(s) = ObjsOf(s)
    BY DEF SlabAssumption, Pages, ObjsIn
  <2>3. freelist[s] \subseteq ObjsOf(s) /\ in_use[s] \in Nat
        /\ in_use[s] + Cardinality(freelist[s]) = ObjsPerSlab
    BY <2>1, <2>2 DEF IInv, CacheInv, SlabsSorted
  <2>4. \A x \in ObjsOf(s) : x \in freelist[s] <=> ~Busy(x)
    BY <2>1, <2>2, ObjHome DEF IInv, Agree, Live
  <2>5. kmem' \subseteq Page /\ kmem' \cap (Slabs \cup {s}) = {}
    BY <2>1 DEF IInv, CacheInv
  <2> QED
    BY <2>1, <2>3, <2>4, <2>5, TakeKeeps
<1>5. ASSUME NEW p \in Proc, NEW s \in Page, AllocNew(p, s)
      PROVE  IInv'
  <2>1. s \in kmem /\ kmem' = kmem \ {s} /\ TakeFrom(p, s, ObjsOf(s), 0)
    BY <1>5 DEF AllocNew, NewCount
  <2>2. s \in Pages /\ ObjsIn(s) = ObjsOf(s) /\ s # CachePage
    BY DEF SlabAssumption, Pages, ObjsIn
  <2>3. s \notin Slabs
    BY <2>1 DEF IInv, CacheInv
  <2>4. \A x \in ObjsOf(s) : ~Busy(x)
    BY <2>2, <2>3, ObjHome DEF IInv, Agree, Live
  <2>5. 0 + Cardinality(ObjsOf(s)) = ObjsPerSlab
    BY ObjsCount DEF SlabAssumption
  <2>6. kmem' \subseteq Page /\ kmem' \cap (Slabs \cup {s}) = {}
    BY <2>1 DEF IInv, CacheInv
  <2> QED
    BY <2>1, <2>4, <2>5, <2>6, TakeKeeps
<1>6. ASSUME NEW p \in Proc, NEW s \in Page, FreeToSlab(p, s)
      PROVE  IInv'
  BY <1>6, FreeKeeps
<1>7. ASSUME NEW p \in Proc, NEW d \in Fd, filealloc(p, d)
      PROVE  IInv'
  <2>1. OwnerInv' /\ \A x \in Obj : Busy(x)' <=> Busy(x)
    BY <1>7, OwnerFilealloc DEF IInv
  <2> QED
    BY <1>7, <2>1, FilesKeep DEF filealloc
<1>8. ASSUME NEW p \in Proc, NEW d \in Fd, fileclose(p, d)
      PROVE  IInv'
  <2>1. OwnerInv' /\ \A x \in Obj : Busy(x)' <=> Busy(x)
    BY <1>8, OwnerFileclose DEF IInv
  <2> QED
    BY <1>8, <2>1, FilesKeep DEF fileclose
<1>9. ASSUME NEW p \in Proc, NEW q \in Proc, NEW d \in Fd, NEW e \in Fd, filedup(p, d, q, e)
      PROVE  IInv'
  <2>1. OwnerInv' /\ \A x \in Obj : Busy(x)' <=> Busy(x)
    BY <1>9, OwnerFiledup DEF IInv
  <2>2. UNCHANGED pages
    BY <1>9 DEF filedup
  <2> QED
    BY <2>1, <2>2, FilesKeep
<1>10. CASE UNCHANGED vars
  <2>1. OwnerInv' /\ \A x \in Obj : Busy(x)' <=> Busy(x)
    BY <1>10 DEF vars, files, IInv, OwnerInv, RefExact, ClosedOnce, Busy, Places, InHand
  <2> QED
    BY <1>10, <2>1, FilesKeep DEF vars
<1> QED
  BY <1>1, <1>2, <1>3, <1>4, <1>5, <1>6, <1>7, <1>8, <1>9, <1>10 DEF Next

-----------------------------------------------------------------------------
\* The invariant holds in every reachable state.
THEOREM Inductive == Spec => []IInv
<1>1. Init => IInv
  BY InitInv, SlabAssumption
<1>2. IInv /\ [Next]_vars => IInv'
  BY NextInv, SlabAssumption
<1> QED
  BY <1>1, <1>2, PTL DEF Spec

\* Every slab is on the list its objects put it on, and in_use counts them,
\* so kmem_cache_alloc() never takes an object from an empty free list.
THEOREM SlabsStaySorted == Spec => []SlabsSorted
<1>1. IInv => SlabsSorted
  BY DEF IInv, CacheInv
<1> QED
  BY <1>1, Inductive, PTL

\* No struct file leaks, is given out twice, or outlives its slab.
THEOREM NoFileLost == Spec => []ObjectsAccounted
<1>1. ASSUME IInv
      PROVE  ObjectsAccounted
  <2>1. ASSUME NEW s \in Pages, NEW o \in ObjsIn(s)
        PROVE  IF s = CachePage \/ s \in Slabs
               THEN o \in freelist[s] <=> Places(o) = {} /\ ~InHand(o)
               ELSE Places(o) = {} /\ ~InHand(o)
    <3>1. o \in Obj /\ o[1] = s
      BY ObjHome, SlabAssumption
    <3> QED
      BY <1>1, <3>1 DEF IInv, Agree, Live, Busy
  <2> QED
    BY <2>1 DEF ObjectsAccounted, Pages
<1> QED
  BY <1>1, Inductive, PTL

\* f->ref is exact, so the panics of filedup() and fileclose() are not reached.
THEOREM RefsExact == Spec => []RefExact
<1>1. IInv => RefExact
  BY DEF IInv, OwnerInv
<1> QED
  BY <1>1, Inductive, PTL

\* The last fileclose() has the file alone until kmem_cache_free() has it.
THEOREM FilesClosedOnce == Spec => []ClosedOnce
<1>1. IInv => ClosedOnce
  BY DEF IInv, OwnerInv
<1> QED
  BY <1>1, Inductive, PTL

\* The state has its type, and in_use of a slab is never what kalloc() left.
THEOREM SlabWellTyped == Spec => []TypeOK
<1>1. IInv => TypeOK
  BY DEF IInv, OwnerInv, CacheInv, TypeOK, Pages
<1> QED
  BY <1>1, Inductive, PTL

\* kmem_cache_free() keeps at most MP2_MIN_AVAIL_SLAB slabs unused.
THEOREM FewSlabsUnused == Spec => []FewFree
<1> DEFINE unused == {s \in Page : on[s] = "free"}
<1>1. Init => FewFree
  <2>1. ASSUME Init PROVE unused = {}
    BY <2>1 DEF Init
  <2> QED
    BY <2>1, FS_EmptySet, SlabAssumption DEF SlabAssumption, FewFree
<1>2. ASSUME IInv, FewFree, [Next]_vars
      PROVE  FewFree'
  <2>1. IsFiniteSet(Page) /\ MP2_MIN_AVAIL_SLAB \in Nat
    BY SlabAssumption DEF SlabAssumption
  <2>2. on \in [Page -> {"full", "partial", "free", "none"}]
    BY <1>2 DEF IInv, CacheInv
  <2>3. CASE unused' \subseteq unused
    <3>1. IsFiniteSet(unused) /\ Cardinality(unused) \in Nat
      BY <2>1, FS_Subset, FS_CardinalityType
    <3>2. Cardinality(unused') <= Cardinality(unused) /\ Cardinality(unused') \in Nat
      BY <2>3, <3>1, FS_Subset, FS_CardinalityType
    <3> QED
      BY <1>2, <2>1, <3>1, <3>2 DEF FewFree
  <2>4. ASSUME NEW p \in Proc, NEW s \in Page, FreeToSlab(p, s),
               ~EnoughOthers(s), on'[s] = "free"
        PROVE  FewFree'
    <3> DEFINE others == {t \in Page \ {s} : on[t] \in {"partial", "free"}}
    <3>1. \A t \in Page \ {s} : on'[t] = on[t]
      BY <2>2, <2>4 DEF FreeToSlab
    <3>2. unused' \subseteq others \cup {s}
      BY <3>1
    <3>3. IsFiniteSet(others) /\ Cardinality(others) \in Nat
      BY <2>1, FS_Subset, FS_CardinalityType
    <3>4. ~(Cardinality(others) >= MP2_MIN_AVAIL_SLAB)
      BY <2>4 DEF EnoughOthers
    <3>5. IsFiniteSet(others \cup {s}) /\ Cardinality(others \cup {s}) = Cardinality(others) + 1
      BY <3>3, FS_AddElement
    <3>6. Cardinality(unused') <= Cardinality(others) + 1 /\ Cardinality(unused') \in Nat
      BY <3>2, <3>5, FS_Subset, FS_CardinalityType
    <3>7. Cardinality(unused') <= MP2_MIN_AVAIL_SLAB
      <4> HIDE DEF others, unused
      <4> QED
        BY <2>1, <3>3, <3>4, <3>6
    <3> QED
      BY <3>7 DEF FewFree
  <2>5. ASSUME NEW p \in Proc, NEW s \in Page, FreeToSlab(p, s)
        PROVE  FewFree'
    <3>1. \A t \in Page \ {s} : on'[t] = on[t]
      BY <2>2, <2>5 DEF FreeToSlab
    <3>2. CASE on'[s] = "free" /\ on[s] # "free"
      <4>1. ~EnoughOthers(s)
        BY <2>2, <2>5, <3>2 DEF FreeToSlab, ListAfter
      <4> QED
        BY <2>4, <2>5, <3>2, <4>1
    <3>3. CASE on'[s] # "free" \/ on[s] = "free"
      BY <2>3, <3>1, <3>3
    <3> QED
      BY <3>2, <3>3
  <2>6. ASSUME NEW p \in Proc, NEW s \in Page,
               AllocPartial(p, s) \/ AllocFree(p, s) \/ AllocNew(p, s)
        PROVE  FewFree'
    <3>1. on' = [on EXCEPT ![s] = "full"] \/ on' = [on EXCEPT ![s] = "partial"]
      BY <2>6 DEF AllocPartial, AllocFree, AllocNew, TakeFrom
    <3> QED
      BY <2>2, <2>3, <3>1
  <2>7. CASE on' = on
    BY <2>3, <2>7
  <2> QED
    BY <1>2, <2>5, <2>6, <2>7 DEF Next, KallocElsewhere, KfreeElsewhere, AllocInCache, FreeInCache,
       filealloc, fileclose, filedup, pages, vars
<1> QED
  BY <1>1, <1>2, Inductive, PTL DEF Spec

-----------------------------------------------------------------------------
(* FileBlocks *)

-----------------------------------------------------------------------------
(* The loop of writei() and readi() over the blocks of a run *)

\* What bmapAll() has after k blocks.
IsRun(f, d, first, m) ==
  f = [n \in 0..m |-> IF n = 0 THEN d ELSE bmap(f[n - 1], first + n - 1)]

\* A set of natural numbers that is not empty has a least element.
LEMMA LeastNat ==
  ASSUME NEW S \in SUBSET Nat, S # {}
  PROVE  \E x \in S : \A y \in S : x <= y
<1>1. IsWellFoundedOn(OpToRel(<, Nat), Nat)
  BY NatLessThanWellFounded
<1>2. PICK x \in S : \A y \in S : ~(<<y, x>> \in OpToRel(<, Nat))
  BY <1>1, WFMin
<1>3. \A y \in S : ~(y < x)
  BY <1>2 DEF OpToRel
<1> QED
  BY <1>3

\* The recursive definition has a solution.
LEMMA RunExists ==
  ASSUME NEW d, NEW first \in Nat, NEW m \in Nat
  PROVE  \E f : IsRun(f, d, first, m)
<1> DEFINE Bad == {n \in Nat : \A f : ~IsRun(f, d, first, n)}
<1>1. SUFFICES ASSUME Bad # {} PROVE FALSE
  BY DEF Bad
<1>2. PICK n \in Bad : \A y \in Bad : n <= y
  BY <1>1, LeastNat
<1>3. CASE n = 0
  <2> DEFINE g == [k \in 0..0 |-> d]
  <2>1. g = [k \in 0..0 |-> IF k = 0 THEN d ELSE bmap(g[k - 1], first + k - 1)]
    OBVIOUS
  <2> QED
    BY <1>3, <2>1 DEF IsRun
<1>4. CASE n > 0
  <2>1. n - 1 \in Nat /\ n - 1 \notin Bad
    BY <1>2, <1>4
  <2>2. PICK f : IsRun(f, d, first, n - 1)
    BY <2>1
  <2> DEFINE g == [k \in 0..n |-> IF k = n THEN bmap(f[n - 1], first + n - 1) ELSE f[k]]
  <2>3. f = [k \in 0..n - 1 |-> IF k = 0 THEN d ELSE bmap(f[k - 1], first + k - 1)]
    BY <2>2 DEF IsRun
  <2>4. ASSUME NEW k \in 0..n
        PROVE  g[k] = IF k = 0 THEN d ELSE bmap(g[k - 1], first + k - 1)
    <3>1. CASE k = n
      BY <1>4, <3>1
    <3>2. CASE k # n
      <4>1. k \in 0..n - 1 /\ (k # 0 => k - 1 \in 0..n - 1)
        BY <1>2, <3>2
      <4>2. g[k] = f[k] /\ (k # 0 => g[k - 1] = f[k - 1])
        BY <3>2, <4>1
      <4>3. f[k] = IF k = 0 THEN d ELSE bmap(f[k - 1], first + k - 1)
        BY <2>3, <4>1
      <4> QED
        BY <4>2, <4>3
    <3> QED
      BY <3>1, <3>2
  <2>5. g = [k \in 0..n |-> IF k = 0 THEN d ELSE bmap(g[k - 1], first + k - 1)]
    BY <2>4
  <2> QED
    BY <2>5 DEF IsRun
<1> QED
  BY <1>2, <1>3, <1>4

\* If bmap() takes what P[k] holds of to what P[k + 1] holds of, the run ends in
\* what the last holds of.
LEMMA RunInduction ==
  ASSUME NEW d, NEW first \in Nat, NEW last \in Nat, first <= last, NEW P,
         d \in P[0],
         \A k \in 0..last - first : \A e \in P[k] : bmap(e, first + k) \in P[k + 1]
  PROVE  bmapAll(d, first, last) \in P[last - first + 1]
<1> DEFINE m == last - first + 1
           f == CHOOSE g : IsRun(g, d, first, m)
<1>1. m \in Nat
  OBVIOUS
<1>2. f = [n \in 0..m |-> IF n = 0 THEN d ELSE bmap(f[n - 1], first + n - 1)]
  <2>1. \E g : IsRun(g, d, first, m)
    BY <1>1, RunExists
  <2>2. IsRun(f, d, first, m)
    BY <2>1, Zenon
  <2> QED
    BY <2>2 DEF IsRun
<1>3. bmapAll(d, first, last) = f[m]
  BY Zenon DEF bmapAll, IsRun
<1> HIDE DEF f
<1> DEFINE Bad == {n \in Nat : n <= m /\ f[n] \notin P[n]}
<1>4. SUFFICES ASSUME Bad # {} PROVE FALSE
  BY <1>1, <1>3
<1>5. PICK n \in Bad : \A y \in Bad : n <= y
  BY <1>4, LeastNat
<1>6. n # 0
  BY <1>1, <1>2, <1>5
<1>7. n - 1 \in Nat /\ f[n - 1] \in P[n - 1]
  BY <1>1, <1>5, <1>6
<1>8. n - 1 \in 0..last - first /\ first + (n - 1) = first + n - 1
  BY <1>5, <1>6
<1>9. f[n] = bmap(f[n - 1], first + n - 1)
  BY <1>1, <1>2, <1>5, <1>6
<1> QED
  BY <1>5, <1>7, <1>8, <1>9

-----------------------------------------------------------------------------
(* The addresses of an inode *)

\* The assumptions in the form the proofs use.
LEMMA BlockConstants ==
  /\ BSIZE \in Nat /\ BSIZE > 0 /\ NDIRECT \in Nat /\ NDIRECT > 0
  /\ NINDIRECT \in Nat /\ NINDIRECT > 0 /\ NBLOCKS \in Nat
  /\ MaxChunk \in Nat /\ MaxChunk > 0 /\ MaxBytes \in Nat /\ MaxCalls \in Nat
  /\ MAXFILE \in Nat /\ MAXFILE = NDIRECT + NINDIRECT
  /\ Block \subseteq Nat /\ 0 \notin Block
  /\ Zero \in Byte /\ InodeOf \in [File -> Inum]
  BY BlocksAssumption DEF MAXFILE, Block

\* addrs[0], ..., addrs[NDIRECT], and the entries of the indirect block behind them.
Spot == 0..MAXFILE
SpotOf(bn) == IF bn < NDIRECT THEN bn ELSE bn + 1

\* The address at a spot, 0 if there is none, given ip->addrs and what the indirect
\* blocks hold.
Addr(a, p, n) ==
  IF n <= NDIRECT THEN a[n]
  ELSE IF a[NDIRECT] = 0 THEN 0 ELSE p[a[NDIRECT]][n - NDIRECT - 1]
At(d, n) == Addr(d.addrs, d.ptr, n)

Panics == {"none", "balloc: out of blocks", "bmap: out of range"}
State ==
  [used : SUBSET Block, data : [Block -> [0..BSIZE - 1 -> Byte]],
   ptr : [Block -> [0..NINDIRECT - 1 -> Block \cup {0}]],
   addrs : [0..NDIRECT -> Block \cup {0}], new : Block \cup {0}, panic : Panics]

\* No block is at two spots, and those at a spot are in use.
Whole(d) ==
  /\ \A n \in Spot : At(d, n) # 0 => At(d, n) \in d.used
  /\ \A m, n \in Spot : At(d, m) # 0 /\ At(d, m) = At(d, n) => m = n

\* e is d with more blocks: those are new, they are at spots that were empty, and
\* nothing else has changed.
Grown(d, e) ==
  /\ d.used \subseteq e.used
  /\ \A n \in Spot : At(d, n) # 0 => At(e, n) = At(d, n)
  /\ \A n \in Spot : At(d, n) = 0 /\ At(e, n) # 0 => At(e, n) \in e.used \ d.used
  /\ \A b \in e.used \ d.used : \E n \in Spot : At(e, n) = b
  /\ \A b \in d.used : e.data[b] = d.data[b]
  /\ \A b \in d.used : b # d.addrs[NDIRECT] => e.ptr[b] = d.ptr[b]

\* One block more, at spot n.
Adds(d, e, n) ==
  /\ n \in Spot /\ e \in State /\ e.panic = "none"
  /\ At(d, n) = 0 /\ At(e, n) \in Block \ d.used
  /\ e.used = d.used \cup {At(e, n)}
  /\ \A m \in Spot : m # n => At(e, m) = At(d, m)
  /\ \A b \in d.used : e.data[b] = d.data[b]
  /\ \A b \in d.used : b # d.addrs[NDIRECT] => e.ptr[b] = d.ptr[b]

\* Addresses are blocks or 0.
LEMMA AddrType ==
  ASSUME NEW a \in [0..NDIRECT -> Block \cup {0}],
         NEW p \in [Block -> [0..NINDIRECT - 1 -> Block \cup {0}]], NEW n \in Spot
  PROVE  Addr(a, p, n) \in Block \cup {0}
<1>1. CASE n <= NDIRECT
  <2>1. n \in 0..NDIRECT
    BY <1>1, BlockConstants DEF Spot
  <2> QED
    BY <1>1, <2>1 DEF Addr
<1>2. CASE n > NDIRECT
  <2>1. n - NDIRECT - 1 \in 0..NINDIRECT - 1 /\ NDIRECT \in 0..NDIRECT
    BY <1>2, BlockConstants DEF Spot
  <2>2. a[NDIRECT] # 0 => p[a[NDIRECT]] \in [0..NINDIRECT - 1 -> Block \cup {0}]
    BY <2>1
  <2>3. ~(n <= NDIRECT)
    BY <1>2, BlockConstants DEF Spot
  <2> QED
    BY <2>1, <2>2, <2>3 DEF Addr
<1> QED
  BY <1>1, <1>2, BlockConstants DEF Spot

LEMMA AtType ==
  ASSUME NEW d \in State, NEW n \in Spot
  PROVE  At(d, n) \in Block \cup {0} /\ At(d, NDIRECT) = d.addrs[NDIRECT]
<1>1. /\ d.addrs \in [0..NDIRECT -> Block \cup {0}]
      /\ d.ptr \in [Block -> [0..NINDIRECT - 1 -> Block \cup {0}]]
  BY DEF State
<1> QED
  BY <1>1, AddrType, BlockConstants DEF At, Addr

\* The blocks of a file are at spots, and NDIRECT is the spot of none.
LEMMA MappedAt ==
  ASSUME NEW d, NEW bn \in 0..MAXFILE - 1
  PROVE  /\ SpotOf(bn) \in Spot /\ SpotOf(bn) # NDIRECT /\ Mapped(d, bn) = At(d, SpotOf(bn))
         /\ Mapped(d, bn) = Addr(d.addrs, d.ptr, SpotOf(bn))
<1>1. bn \in Nat /\ bn + 1 \in Spot /\ bn \in Spot
  BY BlockConstants DEF Spot
<1>2. CASE bn < NDIRECT
  BY <1>1, <1>2, BlockConstants DEF SpotOf, Mapped, At, Addr
<1>3. CASE ~(bn < NDIRECT)
  <2>1. ~(bn + 1 <= NDIRECT) /\ bn + 1 - NDIRECT - 1 = bn - NDIRECT
    BY <1>1, <1>3, BlockConstants
  <2> QED
    BY <1>1, <1>3, <2>1, BlockConstants DEF SpotOf, Mapped, At, Addr
<1> QED
  BY <1>2, <1>3

\* Different blocks of a file have different spots.
LEMMA SpotOfUnique ==
  ASSUME NEW m \in 0..MAXFILE - 1, NEW n \in 0..MAXFILE - 1, SpotOf(m) = SpotOf(n)
  PROVE  m = n
  BY BlockConstants DEF SpotOf

\* Every other spot is that of a block of the file.
LEMMA SpotsTaken ==
  ASSUME NEW n \in Spot, n # NDIRECT
  PROVE  \E bn \in 0..MAXFILE - 1 : n = SpotOf(bn)
<1>1. CASE n < NDIRECT
  <2>1. n \in 0..MAXFILE - 1 /\ n = SpotOf(n)
    BY <1>1, BlockConstants DEF Spot, SpotOf
  <2> QED
    BY <2>1
<1>2. CASE n > NDIRECT
  <2>1. n - 1 \in 0..MAXFILE - 1 /\ n = SpotOf(n - 1)
    BY <1>2, BlockConstants DEF Spot, SpotOf
  <2> QED
    BY <2>1
<1> QED
  BY <1>1, <1>2, BlockConstants DEF Spot

-----------------------------------------------------------------------------
(* balloc() and bmap() *)

\* The fields of a state.
LEMMA StateFields ==
  ASSUME NEW d \in State
  PROVE  /\ d.used \subseteq Block
         /\ d.data \in [Block -> [0..BSIZE - 1 -> Byte]]
         /\ d.ptr \in [Block -> [0..NINDIRECT - 1 -> Block \cup {0}]]
         /\ d.addrs \in [0..NDIRECT -> Block \cup {0}]
         /\ d.new \in Block \cup {0} /\ d.panic \in Panics
  BY DEF State

LEMMA EmptyBlocks ==
  /\ NoBytes \in [0..BSIZE - 1 -> Byte]
  /\ NoPtrs \in [0..NINDIRECT - 1 -> Block \cup {0}]
  /\ NoAddrs \in [0..NDIRECT -> Block \cup {0}]
  BY BlockConstants DEF NoBytes, NoPtrs, NoAddrs

LEMMA ZeroedFields ==
  ASSUME NEW d \in State, NEW b \in Block, NEW e, e = Zeroed(d, b)
  PROVE  /\ e \in State
         /\ e.used = d.used \cup {b} /\ e.new = b /\ e.addrs = d.addrs /\ e.panic = d.panic
         /\ e.ptr[b] = NoPtrs
         /\ \A c \in Block : c # b => e.ptr[c] = d.ptr[c] /\ e.data[c] = d.data[c]
<1> DEFINE D == [d.data EXCEPT ![b] = NoBytes]
           P == [d.ptr EXCEPT ![b] = NoPtrs]
<1>1. D \in [Block -> [0..BSIZE - 1 -> Byte]] /\ P \in [Block -> [0..NINDIRECT - 1 -> Block \cup {0}]]
  BY StateFields, EmptyBlocks
<1>2. e = [used |-> d.used \cup {b}, data |-> D, ptr |-> P, addrs |-> d.addrs, new |-> b,
           panic |-> d.panic]
  BY DEF Zeroed, State
<1>3. P[b] = NoPtrs /\ \A c \in Block : c # b => P[c] = d.ptr[c] /\ D[c] = d.data[c]
  BY StateFields
<1> HIDE DEF D, P
<1>4. e \in State
  BY <1>1, <1>2, StateFields DEF State
<1> QED
  BY <1>2, <1>3, <1>4

LEMMA PanicFields ==
  ASSUME NEW d \in State, NEW msg \in Panics, msg # "none"
  PROVE  [d EXCEPT !.panic = msg] \in State /\ [d EXCEPT !.panic = msg].panic # "none"
<1> DEFINE e == [d EXCEPT !.panic = msg]
<1>1. e = [used |-> d.used, data |-> d.data, ptr |-> d.ptr, addrs |-> d.addrs, new |-> d.new,
           panic |-> msg]
  BY DEF State
<1> HIDE DEF e
<1>2. e \in State /\ e.panic # "none"
  BY <1>1, StateFields DEF State
<1> QED
  BY <1>2 DEF e

\* A state with one address set.
WithAddr(g, k, b) == [g EXCEPT !.addrs[k] = b]
WithPtr(g, x, k, b) == [g EXCEPT !.ptr[x][k] = b]

LEMMA AddrSet ==
  ASSUME NEW g \in State, NEW k \in 0..NDIRECT, NEW b \in Block, NEW e,
         e = WithAddr(g, k, b)
  PROVE  /\ e \in State /\ e.used = g.used /\ e.data = g.data /\ e.ptr = g.ptr
         /\ e.panic = g.panic /\ e.addrs = [g.addrs EXCEPT ![k] = b]
<1> DEFINE A == [g.addrs EXCEPT ![k] = b]
<1>1. A \in [0..NDIRECT -> Block \cup {0}]
  BY StateFields
<1>2. e = [g EXCEPT !.addrs = A]
  BY DEF WithAddr
<1> HIDE DEF A
<1>3. e = [used |-> g.used, data |-> g.data, ptr |-> g.ptr, addrs |-> A, new |-> g.new,
           panic |-> g.panic]
  BY <1>2 DEF State
<1>a. /\ g.used \subseteq Block /\ g.data \in [Block -> [0..BSIZE - 1 -> Byte]]
      /\ g.ptr \in [Block -> [0..NINDIRECT - 1 -> Block \cup {0}]]
      /\ g.new \in Block \cup {0} /\ g.panic \in Panics
  BY StateFields
<1>4. e \in State
  BY <1>1, <1>3, <1>a DEF State
<1>5. /\ e.used = g.used /\ e.data = g.data /\ e.ptr = g.ptr /\ e.panic = g.panic
      /\ e.addrs = A
  BY <1>3
<1> QED
  BY <1>4, <1>5 DEF A

LEMMA PtrSet ==
  ASSUME NEW g \in State, NEW x \in Block, NEW k \in 0..NINDIRECT - 1, NEW b \in Block, NEW e,
         e = WithPtr(g, x, k, b)
  PROVE  /\ e \in State /\ e.used = g.used /\ e.data = g.data /\ e.addrs = g.addrs
         /\ e.panic = g.panic /\ e.ptr = [g.ptr EXCEPT ![x] = [g.ptr[x] EXCEPT ![k] = b]]
<1> DEFINE Q == [g.ptr[x] EXCEPT ![k] = b]
           P == [g.ptr EXCEPT ![x] = Q]
<1>0. Q \in [0..NINDIRECT - 1 -> Block \cup {0}]
  BY StateFields
<1>2. e = [g EXCEPT !.ptr = P]
  BY DEF WithPtr
<1> HIDE DEF Q
<1>1. P \in [Block -> [0..NINDIRECT - 1 -> Block \cup {0}]]
  BY <1>0, StateFields
<1> HIDE DEF P
<1>3. e = [used |-> g.used, data |-> g.data, ptr |-> P, addrs |-> g.addrs, new |-> g.new,
           panic |-> g.panic]
  BY <1>2 DEF State
<1>4. e \in State
  BY <1>1, <1>3, StateFields DEF State
<1>5. /\ e.used = g.used /\ e.data = g.data /\ e.ptr = P /\ e.panic = g.panic
      /\ e.addrs = g.addrs
  BY <1>3
<1> QED
  BY <1>4, <1>5 DEF P, Q

\* balloc() panics, or takes a block that is free, and clears it.
LEMMA BallocTakes ==
  ASSUME NEW d \in State, d.panic = "none", NEW e, e = balloc(d)
  PROVE  /\ e \in State
         /\ \/ e.panic # "none"
            \/ /\ e.panic = "none" /\ e.new \in Block \ d.used
               /\ e.used = d.used \cup {e.new} /\ e.addrs = d.addrs
               /\ e.ptr[e.new] = NoPtrs
               /\ \A c \in Block : c # e.new => e.ptr[c] = d.ptr[c] /\ e.data[c] = d.data[c]
<1>1. CASE d.used = Block
  <2>1. e = [d EXCEPT !.panic = "balloc: out of blocks"]
    BY <1>1, Zenon DEF balloc
  <2>2. "balloc: out of blocks" # "none" /\ "balloc: out of blocks" \in Panics
    BY DEF Panics
  <2> QED
    BY <2>1, <2>2, PanicFields
<1>2. CASE d.used # Block
  <2> DEFINE Least(b) == \A c \in Block \ d.used : b <= c
             b == CHOOSE x \in Block \ d.used : Least(x)
  <2>1. Block \ d.used \in SUBSET Nat /\ Block \ d.used # {}
    BY <1>2, StateFields, BlockConstants
  <2>2. \E x \in Block \ d.used : Least(x)
    BY <2>1, LeastNat
  <2>3. b \in Block \ d.used
    BY <2>2, Zenon
  <2>4. e = Zeroed(d, b)
    BY <1>2 DEF balloc
  <2> HIDE DEF b
  <2>5. b \in Block
    BY <2>3
  <2>6. /\ e \in State
        /\ e.used = d.used \cup {b} /\ e.new = b /\ e.addrs = d.addrs /\ e.panic = d.panic
        /\ e.ptr[b] = NoPtrs
        /\ \A c \in Block : c # b => e.ptr[c] = d.ptr[c] /\ e.data[c] = d.data[c]
    BY <2>4, <2>5, ZeroedFields
  <2> QED
    BY <2>3, <2>6
<1> QED
  BY <1>1, <1>2

\* What is at a spot among addrs, and at one in the indirect block.
LEMMA AtDirect ==
  ASSUME NEW d, NEW n \in 0..NDIRECT
  PROVE  n \in Spot /\ At(d, n) = d.addrs[n]
  BY BlockConstants DEF At, Addr, Spot

LEMMA AtIndirect ==
  ASSUME NEW d, NEW k \in 0..NINDIRECT - 1
  PROVE  /\ NDIRECT + 1 + k \in Spot /\ NDIRECT + 1 + k \notin 0..NDIRECT
         /\ At(d, NDIRECT + 1 + k) =
              IF d.addrs[NDIRECT] = 0 THEN 0 ELSE d.ptr[d.addrs[NDIRECT]][k]
<1>1. ~(NDIRECT + 1 + k <= NDIRECT) /\ NDIRECT + 1 + k - NDIRECT - 1 = k
  BY BlockConstants
<1> QED
  BY <1>1, BlockConstants DEF At, Addr, Spot

LEMMA SpotKinds ==
  ASSUME NEW n \in Spot, n \notin 0..NDIRECT
  PROVE  \E k \in 0..NINDIRECT - 1 : n = NDIRECT + 1 + k
<1>1. n - NDIRECT - 1 \in 0..NINDIRECT - 1 /\ n = NDIRECT + 1 + (n - NDIRECT - 1)
  BY BlockConstants DEF Spot
<1> QED
  BY <1>1

LEMMA InAddrsAdds ==
  ASSUME NEW d \in State, d.panic = "none", Whole(d), NEW k \in 0..NDIRECT,
         NEW e, e = InAddrs(d, k)
  PROVE  /\ e \in State
         /\ d.addrs[k] # 0 => e = d
         /\ d.addrs[k] = 0 => e.panic # "none" \/ Adds(d, e, k)
<1>1. CASE d.addrs[k] # 0
  BY <1>1 DEF InAddrs
<1>2. CASE d.addrs[k] = 0
  <2> DEFINE g == balloc(d)
  <2>1. /\ g \in State
        /\ \/ g.panic # "none"
           \/ /\ g.panic = "none" /\ g.new \in Block \ d.used
              /\ g.used = d.used \cup {g.new} /\ g.addrs = d.addrs
              /\ g.ptr[g.new] = NoPtrs
              /\ \A c \in Block : c # g.new => g.ptr[c] = d.ptr[c] /\ g.data[c] = d.data[c]
    BY BallocTakes
  <2>2. e = IF g.panic # "none" THEN g ELSE [g EXCEPT !.addrs[k] = g.new]
    BY <1>2 DEF InAddrs
  <2> HIDE DEF g
  <2>3. CASE g.panic # "none"
    BY <1>2, <2>1, <2>2, <2>3
  <2>4. CASE g.panic = "none"
    <3> DEFINE b == g.new
               A == [d.addrs EXCEPT ![k] = b]
    <3>1. /\ e \in State /\ e.used = g.used /\ e.data = g.data /\ e.ptr = g.ptr
          /\ e.panic = g.panic /\ e.addrs = [g.addrs EXCEPT ![k] = b]
      <4>1. e = WithAddr(g, k, b) /\ b \in Block /\ g \in State
        BY <2>1, <2>2, <2>4 DEF WithAddr
      <4> QED
        BY <4>1, AddrSet
    <3>2. A \in [0..NDIRECT -> Block \cup {0}] /\ A[k] = b /\ \A m \in 0..NDIRECT : m # k => A[m] = d.addrs[m]
      BY <2>1, <2>4, StateFields
    <3>3. b \in Block /\ b \notin d.used /\ b # 0
      BY <2>1, <2>4, BlockConstants
    <3> HIDE DEF A, b
    <3>4. e \in State
      BY <3>1
    <3>5. /\ e.panic = "none" /\ e.used = d.used \cup {b} /\ e.addrs = A /\ e.ptr = g.ptr
          /\ e.data = g.data
      BY <2>1, <2>4, <3>1 DEF b, A
    <3>6. \A c \in d.used : e.data[c] = d.data[c] /\ e.ptr[c] = d.ptr[c]
      BY <2>1, <2>4, <3>5, StateFields DEF b
    <3>7. k \in Spot /\ At(d, k) = 0 /\ At(e, k) = b
      BY <1>2, <3>2, <3>5, AtDirect, BlockConstants
    <3>8. ASSUME NEW m \in Spot, m # k PROVE At(e, m) = At(d, m)
      <4>1. CASE m \in 0..NDIRECT
        BY <3>2, <3>5, <3>8, <4>1, AtDirect, BlockConstants
      <4>2. CASE m \notin 0..NDIRECT
        <5>1. PICK j \in 0..NINDIRECT - 1 : m = NDIRECT + 1 + j
          BY <4>2, SpotKinds
        <5>2. /\ At(e, m) = IF A[NDIRECT] = 0 THEN 0 ELSE e.ptr[A[NDIRECT]][j]
              /\ At(d, m) = IF d.addrs[NDIRECT] = 0 THEN 0 ELSE d.ptr[d.addrs[NDIRECT]][j]
          BY <3>5, <5>1, AtIndirect
        <5>3. CASE k = NDIRECT
          <6>0. e.ptr[b] = NoPtrs
            BY <2>1, <2>4, <3>5 DEF b
          <6>1. e.ptr[b][j] = 0
            BY <6>0 DEF NoPtrs
          <6> QED
            BY <1>2, <3>2, <3>3, <5>2, <5>3, <6>1
        <5>4. CASE k # NDIRECT
          <6>1. NDIRECT \in 0..NDIRECT /\ A[NDIRECT] = d.addrs[NDIRECT]
            BY <3>2, <5>4, BlockConstants
          <6>2. d.addrs[NDIRECT] # 0 => d.addrs[NDIRECT] \in d.used
            BY <6>1, AtDirect DEF Whole
          <6> QED
            BY <3>6, <5>2, <6>1, <6>2
        <5> QED
          BY <5>3, <5>4
      <4> QED
        BY <4>1, <4>2
    <3>9. Adds(d, e, k)
      BY <3>3, <3>4, <3>5, <3>6, <3>7, <3>8 DEF Adds
    <3> QED
      BY <1>2, <3>4, <3>9
  <2> QED
    BY <2>3, <2>4
<1> QED
  BY <1>1, <1>2

LEMMA InIndirectAdds ==
  ASSUME NEW d \in State, d.panic = "none", Whole(d), d.addrs[NDIRECT] # 0,
         NEW k \in 0..NINDIRECT - 1, NEW e, e = InIndirect(d, k)
  PROVE  /\ e \in State
         /\ d.ptr[d.addrs[NDIRECT]][k] # 0 => e = d
         /\ d.ptr[d.addrs[NDIRECT]][k] = 0 => e.panic # "none" \/ Adds(d, e, NDIRECT + 1 + k)
<1> DEFINE x == d.addrs[NDIRECT]
<1>0. NDIRECT \in 0..NDIRECT /\ x \in Block /\ x \in d.used
  BY StateFields, AtDirect, BlockConstants DEF Whole
<1>1. CASE d.ptr[x][k] # 0
  BY <1>1 DEF InIndirect
<1>2. CASE d.ptr[x][k] = 0
  <2> DEFINE g == balloc(d)
  <2>1. /\ g \in State
        /\ \/ g.panic # "none"
           \/ /\ g.panic = "none" /\ g.new \in Block \ d.used
              /\ g.used = d.used \cup {g.new} /\ g.addrs = d.addrs
              /\ g.ptr[g.new] = NoPtrs
              /\ \A c \in Block : c # g.new => g.ptr[c] = d.ptr[c] /\ g.data[c] = d.data[c]
    BY BallocTakes
  <2>2. e = IF g.panic # "none" THEN g ELSE [g EXCEPT !.ptr[x][k] = g.new]
    BY <1>2 DEF InIndirect
  <2> HIDE DEF g
  <2>3. CASE g.panic # "none"
    BY <1>2, <2>1, <2>2, <2>3
  <2>4. CASE g.panic = "none"
    <3> DEFINE b == g.new
               Q == [d.ptr[x] EXCEPT ![k] = b]
               P == [g.ptr EXCEPT ![x] = Q]
    <3>3. b \in Block /\ b \notin d.used /\ b # 0 /\ b # x
      BY <1>0, <2>1, <2>4, BlockConstants
    <3>a. g.ptr[x] = d.ptr[x]
      BY <1>0, <2>1, <2>4, <3>3
    <3>1. /\ e \in State /\ e.used = g.used /\ e.data = g.data /\ e.addrs = g.addrs
          /\ e.panic = g.panic /\ e.ptr = [g.ptr EXCEPT ![x] = [g.ptr[x] EXCEPT ![k] = b]]
      <4>1. e = WithPtr(g, x, k, b) /\ b \in Block /\ x \in Block /\ g \in State
        BY <1>0, <2>1, <2>2, <2>4 DEF WithPtr
      <4> QED
        BY <4>1, PtrSet
    <3>b. d.ptr[x] \in [0..NINDIRECT - 1 -> Block \cup {0}]
      BY <1>0, StateFields
    <3>c. Q \in [0..NINDIRECT - 1 -> Block \cup {0}] /\ Q[k] = b
          /\ \A j \in 0..NINDIRECT - 1 : j # k => Q[j] = d.ptr[x][j]
      BY <3>3, <3>b
    <3> HIDE DEF Q
    <3>2. /\ P \in [Block -> [0..NINDIRECT - 1 -> Block \cup {0}]]
          /\ P[x] = Q /\ \A c \in Block : c # x => P[c] = g.ptr[c]
      BY <1>0, <2>1, <3>c, StateFields
    <3> HIDE DEF P, b
    <3>4. e \in State
      BY <3>1
    <3>5. /\ e.panic = "none" /\ e.used = d.used \cup {b} /\ e.addrs = d.addrs /\ e.ptr = P
          /\ e.data = g.data
      BY <2>1, <2>4, <3>1, <3>a DEF b, P, Q
    <3>6. \A c \in d.used : e.data[c] = d.data[c] /\ (c # x => e.ptr[c] = d.ptr[c])
      BY <2>1, <2>4, <3>2, <3>5, StateFields DEF b
    <3>7. /\ NDIRECT + 1 + k \in Spot
          /\ At(d, NDIRECT + 1 + k) = 0 /\ At(e, NDIRECT + 1 + k) = b
      <4>1. /\ NDIRECT + 1 + k \in Spot
            /\ At(d, NDIRECT + 1 + k) = IF d.addrs[NDIRECT] = 0 THEN 0 ELSE d.ptr[d.addrs[NDIRECT]][k]
            /\ At(e, NDIRECT + 1 + k) = IF e.addrs[NDIRECT] = 0 THEN 0 ELSE e.ptr[e.addrs[NDIRECT]][k]
        BY AtIndirect
      <4>2. e.addrs[NDIRECT] = x /\ e.ptr[x][k] = b
        BY <3>2, <3>c, <3>5
      <4> QED
        BY <1>2, <4>1, <4>2
    <3>8. ASSUME NEW m \in Spot, m # NDIRECT + 1 + k PROVE At(e, m) = At(d, m)
      <4>1. CASE m \in 0..NDIRECT
        BY <3>5, <4>1, AtDirect
      <4>2. CASE m \notin 0..NDIRECT
        <5>1. PICK j \in 0..NINDIRECT - 1 : m = NDIRECT + 1 + j
          BY <4>2, SpotKinds
        <5>2. /\ At(e, m) = IF d.addrs[NDIRECT] = 0 THEN 0 ELSE e.ptr[x][j]
              /\ At(d, m) = IF d.addrs[NDIRECT] = 0 THEN 0 ELSE d.ptr[x][j]
          BY <3>5, <5>1, AtIndirect
        <5>3. j # k
          BY <3>8, <5>1
        <5> QED
          BY <3>2, <3>5, <3>c, <5>2, <5>3
      <4> QED
        BY <4>1, <4>2
    <3>9. Adds(d, e, NDIRECT + 1 + k)
      BY <3>3, <3>4, <3>5, <3>6, <3>7, <3>8 DEF Adds
    <3> QED
      BY <1>2, <3>4, <3>9
  <2> QED
    BY <2>3, <2>4
<1> QED
  BY <1>1, <1>2

LEMMA AddsWhole ==
  ASSUME NEW d \in State, Whole(d), NEW n, NEW e, Adds(d, e, n)
  PROVE  Whole(e)
<1>1. ASSUME NEW m \in Spot, At(e, m) # 0 PROVE At(e, m) \in e.used
  BY <1>1 DEF Whole, Adds
<1>2. ASSUME NEW j \in Spot, NEW m \in Spot, At(e, j) # 0, At(e, j) = At(e, m) PROVE j = m
  BY <1>2 DEF Whole, Adds
<1> QED
  BY <1>1, <1>2 DEF Whole

LEMMA AddsGrown ==
  ASSUME NEW d \in State, NEW n, NEW e, Adds(d, e, n)
  PROVE  Grown(d, e)
<1>1. /\ n \in Spot /\ At(d, n) = 0 /\ At(e, n) \in Block \ d.used
      /\ e.used = d.used \cup {At(e, n)} /\ \A m \in Spot : m # n => At(e, m) = At(d, m)
  BY DEF Adds
<1>2. /\ \A b \in d.used : e.data[b] = d.data[b]
      /\ \A b \in d.used : b # d.addrs[NDIRECT] => e.ptr[b] = d.ptr[b]
  BY DEF Adds
<1>3. /\ d.used \subseteq e.used
      /\ \A m \in Spot : At(d, m) # 0 => At(e, m) = At(d, m)
      /\ \A m \in Spot : At(d, m) = 0 /\ At(e, m) # 0 => At(e, m) \in e.used \ d.used
      /\ \A b \in e.used \ d.used : \E m \in Spot : At(e, m) = b
  BY <1>1
<1> QED
  BY <1>2, <1>3 DEF Grown

LEMMA GrownRefl ==
  ASSUME NEW d \in State
  PROVE  Grown(d, d)
  BY DEF Grown

LEMMA GrownTrans ==
  ASSUME NEW d \in State, NEW e \in State, NEW f \in State, Grown(d, e), Grown(e, f)
  PROVE  Grown(d, f)
<1>1. d.used \subseteq f.used
  BY DEF Grown
<1>2. ASSUME NEW n \in Spot, At(d, n) # 0 PROVE At(f, n) = At(d, n)
  BY <1>2 DEF Grown
<1>3. ASSUME NEW n \in Spot, At(d, n) = 0, At(f, n) # 0 PROVE At(f, n) \in f.used \ d.used
  <2>1. CASE At(e, n) = 0
    BY <1>3, <2>1 DEF Grown
  <2>2. CASE At(e, n) # 0
    BY <1>3, <2>2 DEF Grown
  <2> QED
    BY <2>1, <2>2
<1>4. ASSUME NEW b \in f.used \ d.used PROVE \E n \in Spot : At(f, n) = b
  <2>1. CASE b \in e.used
    <3>1. PICK n \in Spot : At(e, n) = b
      BY <1>4, <2>1 DEF Grown
    <3>2. b # 0
      BY <2>1, StateFields, BlockConstants
    <3> QED
      BY <3>1, <3>2 DEF Grown
  <2>2. CASE b \notin e.used
    BY <1>4, <2>2 DEF Grown
  <2> QED
    BY <2>1, <2>2
<1>5. ASSUME NEW b \in d.used PROVE f.data[b] = d.data[b]
  BY <1>5 DEF Grown
<1>6. ASSUME NEW b \in d.used, b # d.addrs[NDIRECT] PROVE f.ptr[b] = d.ptr[b]
  <2>1. NDIRECT \in Spot /\ At(d, NDIRECT) = d.addrs[NDIRECT] /\ At(e, NDIRECT) = e.addrs[NDIRECT]
    BY AtDirect, BlockConstants
  <2>2. b # e.addrs[NDIRECT]
    <3>1. CASE At(d, NDIRECT) # 0
      BY <1>6, <2>1, <3>1 DEF Grown
    <3>2. CASE At(d, NDIRECT) = 0
      <4>1. b # 0
        BY StateFields, BlockConstants
      <4> QED
        BY <2>1, <3>2, <4>1 DEF Grown
    <3> QED
      BY <3>1, <3>2
  <2> QED
    BY <1>6, <2>2 DEF Grown
<1> QED
  BY <1>1, <1>2, <1>3, <1>4, <1>5, <1>6 DEF Grown

\* What bmap() has made of d: its panic, or d with more blocks.
Extends(d, e) ==
  e \in State /\ (e.panic = "none" => Whole(e) /\ Grown(d, e))

LEMMA AddsExtends ==
  ASSUME NEW d \in State, d.panic = "none", Whole(d), NEW n, NEW e,
         Adds(d, e, n)
  PROVE  Extends(d, e) /\ e.panic = "none" /\ At(e, n) # 0
<1>1. Whole(e) /\ Grown(d, e)
  BY AddsWhole, AddsGrown
<1>2. e \in State /\ e.panic = "none" /\ At(e, n) # 0
  BY BlockConstants DEF Adds
<1> QED
  BY <1>1, <1>2 DEF Extends

LEMMA SelfExtends ==
  ASSUME NEW d \in State, d.panic = "none", Whole(d)
  PROVE  Extends(d, d)
  BY GrownRefl DEF Extends

LEMMA PanickedExtends ==
  ASSUME NEW d, NEW e \in State, e.panic # "none"
  PROVE  Extends(d, e)
  BY DEF Extends

\* bmap() gives block bn an address, and changes nothing if it has one.
LEMMA BmapMaps ==
  ASSUME NEW d \in State, d.panic = "none", Whole(d), NEW bn \in 0..MAXFILE - 1,
         NEW e, e = bmap(d, bn)
  PROVE  /\ Extends(d, e)
         /\ e.panic = "none" => Mapped(e, bn) # 0
         /\ Mapped(d, bn) # 0 => e = d
<1>1. CASE bn < NDIRECT
  <2>1. e = InAddrs(d, bn) /\ bn \in 0..NDIRECT
    BY <1>1, BlockConstants DEF bmap
  <2>2. /\ e \in State
        /\ d.addrs[bn] # 0 => e = d
        /\ d.addrs[bn] = 0 => e.panic # "none" \/ Adds(d, e, bn)
    BY <2>1, InAddrsAdds
  <2>3. Mapped(d, bn) = d.addrs[bn] /\ Mapped(e, bn) = e.addrs[bn] /\ At(e, bn) = e.addrs[bn]
    BY <1>1, <2>1, AtDirect DEF Mapped
  <2>4. CASE d.addrs[bn] # 0
    BY <2>2, <2>3, <2>4, SelfExtends
  <2>5. CASE d.addrs[bn] = 0 /\ e.panic # "none"
    BY <2>2, <2>3, <2>5, PanickedExtends
  <2>6. CASE d.addrs[bn] = 0 /\ Adds(d, e, bn)
    BY <2>3, <2>6, AddsExtends
  <2> QED
    BY <2>2, <2>4, <2>5, <2>6
<1>2. CASE ~(bn < NDIRECT)
  <2> DEFINE g == InAddrs(d, NDIRECT)
             k == bn - NDIRECT
  <2>1. bn < MAXFILE /\ NDIRECT \in 0..NDIRECT /\ k \in 0..NINDIRECT - 1
    BY <1>2, BlockConstants
  <2>2. e = IF g.panic # "none" THEN g ELSE InIndirect(g, k)
    BY <1>2, <2>1 DEF bmap
  <2>3. /\ g \in State
        /\ d.addrs[NDIRECT] # 0 => g = d
        /\ d.addrs[NDIRECT] = 0 => g.panic # "none" \/ Adds(d, g, NDIRECT)
    BY <2>1, InAddrsAdds
  <2>4. Mapped(d, bn) = IF d.addrs[NDIRECT] = 0 THEN 0 ELSE d.ptr[d.addrs[NDIRECT]][k]
    BY <1>2 DEF Mapped
  <2> HIDE DEF g
  <2>5. CASE g.panic # "none"
    <3>1. d.addrs[NDIRECT] = 0 /\ e = g
      BY <2>2, <2>3, <2>5
    <3> QED
      BY <2>3, <2>4, <2>5, <3>1, PanickedExtends
  <2>6. CASE g.panic = "none"
    <3>1. Extends(d, g) /\ Whole(g) /\ Grown(d, g) /\ g.addrs[NDIRECT] # 0
      <4>1. CASE d.addrs[NDIRECT] # 0
        BY <2>3, <4>1, GrownRefl, SelfExtends
      <4>2. CASE d.addrs[NDIRECT] = 0
        <5>1. Adds(d, g, NDIRECT)
          BY <2>3, <2>6, <4>2
        <5>2. At(g, NDIRECT) = g.addrs[NDIRECT]
          BY <2>1, AtDirect
        <5>3. Extends(d, g) /\ At(g, NDIRECT) # 0
          BY <5>1, AddsExtends
        <5> QED
          BY <2>6, <5>2, <5>3 DEF Extends
      <4> QED
        BY <4>1, <4>2
    <3>2. e = InIndirect(g, k)
      BY <2>2, <2>6
    <3>3. /\ e \in State
          /\ g.ptr[g.addrs[NDIRECT]][k] # 0 => e = g
          /\ g.ptr[g.addrs[NDIRECT]][k] = 0 => e.panic # "none" \/ Adds(g, e, NDIRECT + 1 + k)
      BY <2>1, <2>3, <2>6, <3>1, <3>2, InIndirectAdds
    <3>4. Mapped(e, bn) = IF e.addrs[NDIRECT] = 0 THEN 0 ELSE e.ptr[e.addrs[NDIRECT]][k]
      BY <1>2 DEF Mapped
    <3>5. CASE g.ptr[g.addrs[NDIRECT]][k] # 0
      <4>1. Mapped(d, bn) # 0 => e = d
        BY <2>3, <2>4, <3>3, <3>5
      <4> QED
        BY <3>1, <3>3, <3>4, <3>5, <4>1
    <3>6. CASE g.ptr[g.addrs[NDIRECT]][k] = 0
      <4>1. Mapped(d, bn) = 0
        BY <2>3, <2>4, <3>6
      <4>2. CASE e.panic # "none"
        BY <3>3, <4>1, <4>2, PanickedExtends
      <4>3. CASE Adds(g, e, NDIRECT + 1 + k)
        <5>1. Extends(g, e) /\ e.panic = "none" /\ At(e, NDIRECT + 1 + k) # 0
          BY <2>3, <2>6, <3>1, <4>3, AddsExtends
        <5>2. At(e, NDIRECT + 1 + k) =
                IF e.addrs[NDIRECT] = 0 THEN 0 ELSE e.ptr[e.addrs[NDIRECT]][k]
          BY <2>1, AtIndirect
        <5>3. Grown(g, e) /\ Whole(e)
          BY <5>1 DEF Extends
        <5>4. Grown(d, e)
          BY <2>3, <3>1, <3>3, <5>3, GrownTrans
        <5> QED
          BY <3>3, <3>4, <4>1, <5>1, <5>2, <5>3, <5>4 DEF Extends
      <4> QED
        BY <3>3, <3>6, <4>2, <4>3
    <3> QED
      BY <3>5, <3>6
  <2> QED
    BY <2>5, <2>6
<1> QED
  BY <1>1, <1>2

\* After a panic nothing more is done.
LEMMA BmapPanicked ==
  ASSUME NEW d \in State, d.panic # "none", NEW bn \in 0..MAXFILE - 1
  PROVE  bmap(d, bn) = d
<1>1. CASE bn < NDIRECT
  BY <1>1 DEF bmap, InAddrs
<1>2. CASE ~(bn < NDIRECT)
  <2>1. InAddrs(d, NDIRECT) = d /\ bn < MAXFILE
    BY BlockConstants DEF InAddrs
  <2> QED
    BY <1>2, <2>1 DEF bmap
<1> QED
  BY <1>1, <1>2

\* Behind the last block bmap() panics.
LEMMA BmapOutOfRange ==
  ASSUME NEW d \in State
  PROVE  bmap(d, MAXFILE).panic # "none" /\ bmap(d, MAXFILE) \in State
<1>1. bmap(d, MAXFILE) = [d EXCEPT !.panic = "bmap: out of range"]
  <2>1. ~(MAXFILE < NDIRECT) /\ ~(MAXFILE < MAXFILE)
    BY BlockConstants
  <2> QED
    BY <2>1, Zenon DEF bmap
<1>2. "bmap: out of range" \in Panics /\ "bmap: out of range" # "none"
  BY DEF Panics
<1> QED
  BY <1>1, <1>2, PanicFields

\* A block that is mapped stays where it is.
LEMMA GrownMapped ==
  ASSUME NEW d, NEW e, Grown(d, e), NEW bn \in 0..MAXFILE - 1, Mapped(d, bn) # 0
  PROVE  Mapped(e, bn) = Mapped(d, bn)
  BY MappedAt DEF Grown

LEMMA ExtendsTrans ==
  ASSUME NEW d \in State, NEW e \in State, NEW f, Extends(d, e), e.panic = "none", Extends(e, f)
  PROVE  Extends(d, f)
  BY GrownTrans DEF Extends

\* The loop maps every block of the run.
LEMMA BmapAllMaps ==
  ASSUME NEW d \in State, d.panic = "none", Whole(d), NEW first \in Nat, NEW last \in Nat,
         first <= last, last < MAXFILE, NEW e, e = bmapAll(d, first, last)
  PROVE  /\ Extends(d, e)
         /\ e.panic = "none" => \A bn \in first..last : Mapped(e, bn) # 0
<1> DEFINE Q(k) == {g \in State : Extends(d, g) /\ (g.panic = "none" =>
                                  \A bn \in first..first + k - 1 : Mapped(g, bn) # 0)}
           P == [k \in 0..last - first + 1 |-> Q(k)]
<1>0. \A k \in 0..last - first + 1 : P[k] = Q(k)
  OBVIOUS
<1>1. d \in P[0]
  <2>1. Extends(d, d) /\ 0 \in 0..last - first + 1 /\ \A bn \in first..first + 0 - 1 : FALSE
    BY SelfExtends
  <2>2. d \in Q(0)
    BY <2>1
  <2> QED
    BY <1>0, <2>1, <2>2
<1>2. ASSUME NEW k \in 0..last - first, NEW g \in P[k]
      PROVE  bmap(g, first + k) \in P[k + 1]
  <2> DEFINE bn == first + k
             h == bmap(g, bn)
  <2>1. k \in 0..last - first + 1 /\ k + 1 \in 0..last - first + 1 /\ bn \in 0..MAXFILE - 1
    BY BlockConstants
  <2>2. g \in Q(k)
    BY <1>0, <2>1
  <2>3. h \in Q(k + 1)
    <3>1. CASE g.panic # "none"
      BY <2>1, <2>2, <3>1, BmapPanicked
    <3>2. CASE g.panic = "none"
      <4>0. g \in State /\ Whole(g)
        BY <2>2, <3>2 DEF Extends
      <4>1. Extends(g, h) /\ (h.panic = "none" => Mapped(h, bn) # 0)
        BY <2>1, <3>2, <4>0, BmapMaps
      <4>2. Extends(d, h)
        BY <2>2, <3>2, <4>0, <4>1, ExtendsTrans
      <4>3. ASSUME h.panic = "none", NEW c \in first..first + (k + 1) - 1
            PROVE  Mapped(h, c) # 0
        <5>1. CASE c = bn
          BY <4>1, <4>3, <5>1
        <5>2. CASE c # bn
          <6>1. c \in first..first + k - 1 /\ c \in 0..MAXFILE - 1
            BY <2>1, <5>2, BlockConstants
          <6>2. Mapped(g, c) # 0
            BY <2>2, <3>2, <6>1
          <6>3. Grown(g, h)
            BY <4>1, <4>3 DEF Extends
          <6> QED
            BY <6>1, <6>2, <6>3, GrownMapped
        <5> QED
          BY <5>1, <5>2
      <4>4. h \in State
        BY <4>1 DEF Extends
      <4> QED
        BY <4>2, <4>3, <4>4
    <3> QED
      BY <3>1, <3>2
  <2> QED
    BY <1>0, <2>1, <2>3
<1>3. \A k \in 0..last - first : \A g \in P[k] : bmap(g, first + k) \in P[k + 1]
  BY <1>2
<1> HIDE DEF P
<1>4. e \in P[last - first + 1]
  BY <1>1, <1>3, RunInduction
<1>5. e \in Q(last - first + 1)
  BY <1>0, <1>4
<1>6. first + (last - first + 1) - 1 = last
  OBVIOUS
<1> QED
  BY <1>5, <1>6

\* Over blocks that are mapped it changes nothing.
LEMMA BmapAllKeeps ==
  ASSUME NEW d \in State, d.panic = "none", Whole(d), NEW first \in Nat, NEW last \in Nat,
         first <= last, last < MAXFILE, \A bn \in first..last : Mapped(d, bn) # 0
  PROVE  bmapAll(d, first, last) = d
<1> DEFINE P == [k \in 0..last - first + 1 |-> {d}]
<1>1. d \in P[0]
  OBVIOUS
<1>2. ASSUME NEW k \in 0..last - first, NEW g \in P[k]
      PROVE  bmap(g, first + k) \in P[k + 1]
  <2>1. g = d /\ first + k \in first..last /\ first + k \in 0..MAXFILE - 1 /\ P[k + 1] = {d}
    BY BlockConstants
  <2> QED
    BY <2>1, BmapMaps
<1>3. \A k \in 0..last - first : \A g \in P[k] : bmap(g, first + k) \in P[k + 1]
  BY <1>2
<1>4. P[last - first + 1] = {d}
  OBVIOUS
<1> HIDE DEF P
<1> QED
  BY <1>1, <1>3, <1>4, RunInduction

-----------------------------------------------------------------------------
(* The inductive invariant: A, Z, S, P, U and L stand for addrs, daddrs, size, ptr, *)
(* used and byLbn.                                                                  *)

AddrsType == [Inum -> [0..NDIRECT -> Block \cup {0}]]
PtrType == [Block -> [0..NINDIRECT - 1 -> Block \cup {0}]]

\* A block is at one spot of one inode, and in use.
Apart(A, P, U) ==
  /\ \A i \in Inum, n \in Spot : Addr(A[i], P, n) # 0 => Addr(A[i], P, n) \in U
  /\ \A i, j \in Inum : \A m, n \in Spot :
       Addr(A[i], P, m) # 0 /\ Addr(A[i], P, m) = Addr(A[j], P, n) => i = j /\ m = n

\* A block in use is at a spot, or get_disk_lbn() allocated it.
Accounted(A, P, U, L) ==
  \A b \in U : b \in L \/ \E i \in Inum, n \in Spot : Addr(A[i], P, n) = b

\* The inode on the disk has what the cached one has, get_disk_lbn()'s blocks excepted.
Saved(A, Z, P, L) ==
  \A i \in Inum, n \in Spot :
    \/ Addr(Z[i], P, n) = Addr(A[i], P, n)
    \/ Addr(Z[i], P, n) = 0 /\ Addr(A[i], P, n) \in L

\* Below the size of a file there is no hole, on the disk either.
NoHole(Z, P, S) ==
  \A i \in Inum, bn \in 0..MAXFILE - 1 : bn * BSIZE < S[i] => Addr(Z[i], P, SpotOf(bn)) # 0

BlocksTypes ==
  /\ BlocksTypeOK
  /\ daddrs \in AddrsType
  /\ off \in [File -> Nat]
  /\ ctx \in [Writer -> {Idle} \cup [file : File, left : Nat \ {0}]]

BlocksInductive ==
  /\ BlocksTypes
  /\ Apart(addrs, ptr, used)
  /\ Accounted(addrs, ptr, used, byLbn)
  /\ Saved(addrs, daddrs, ptr, byLbn)
  /\ NoHole(daddrs, ptr, size)

\* What BlocksTypeOK says, in these words.
LEMMA TypesOf ==
  ASSUME BlocksTypes
  PROVE  /\ used \in SUBSET Block /\ byLbn \in SUBSET Block
         /\ data \in [Block -> [0..BSIZE - 1 -> Byte]] /\ kept \in [Block -> [0..BSIZE - 1 -> Byte]]
         /\ ptr \in PtrType
         /\ addrs \in AddrsType /\ daddrs \in AddrsType
         /\ size \in [Inum -> 0..MAXFILE * BSIZE]
         /\ off \in [File -> Nat] /\ ctx \in [Writer -> {Idle} \cup [file : File, left : Nat \ {0}]]
  BY DEF BlocksTypes, BlocksTypeOK, AddrsType, PtrType

\* The state of the disk with one inode.
LEMMA DiskFields ==
  ASSUME NEW i
  PROVE  /\ Disk(i).used = used /\ Disk(i).data = data /\ Disk(i).ptr = ptr
         /\ Disk(i).addrs = addrs[i] /\ Disk(i).new = 0 /\ Disk(i).panic = panic
  BY DEF Disk

LEMMA DiskAt ==
  ASSUME NEW i, NEW n
  PROVE  At(Disk(i), n) = Addr(addrs[i], ptr, n)
  BY DiskFields DEF At

LEMMA DiskState ==
  ASSUME BlocksTypes, Running, NEW i \in Inum
  PROVE  Disk(i) \in State /\ Disk(i).panic = "none"
<1>1. addrs[i] \in [0..NDIRECT -> Block \cup {0}] /\ panic \in Panics
  BY TypesOf DEF AddrsType, Running, Panics
<1>2. Disk(i) \in State
  BY <1>1, TypesOf DEF Disk, State, PtrType
<1> QED
  BY <1>2, DiskFields DEF Running

LEMMA DiskWhole ==
  ASSUME BlocksTypes, Apart(addrs, ptr, used), NEW i \in Inum
  PROVE  Whole(Disk(i))
<1>1. \A n \in Spot : At(Disk(i), n) # 0 => At(Disk(i), n) \in Disk(i).used
  BY DiskAt, DiskFields DEF Apart
<1>2. \A m, n \in Spot : At(Disk(i), m) # 0 /\ At(Disk(i), m) = At(Disk(i), n) => m = n
  BY DiskAt DEF Apart
<1> QED
  BY <1>1, <1>2 DEF Whole

-----------------------------------------------------------------------------
(* A step that gives blocks to inode i: A and P become B and Q. *)

Gives(i, A, P, U, e) ==
  /\ e \in State /\ U \subseteq e.used /\ Whole(e)
  /\ \A n \in Spot : Addr(A[i], P, n) # 0 => At(e, n) = Addr(A[i], P, n)
  /\ \A n \in Spot : Addr(A[i], P, n) = 0 /\ At(e, n) # 0 => At(e, n) \in e.used \ U
  /\ \A b \in e.used \ U : \E n \in Spot : At(e, n) = b
  /\ \A b \in U : b # A[i][NDIRECT] => e.ptr[b] = P[b]

LEMMA GrownGives ==
  ASSUME NEW d, NEW e, NEW i, NEW A, NEW P, NEW U,
         d.addrs = A[i], d.ptr = P, d.used = U, e \in State, Grown(d, e), Whole(e)
  PROVE  Gives(i, A, P, U, e)
<1>1. \A n \in Spot : At(d, n) = Addr(A[i], P, n)
  BY DEF At
<1> QED
  BY <1>1 DEF Grown, Gives

\* Another inode, or an old copy of one, does not notice: X is its addresses.
LEMMA GivesOthers ==
  ASSUME NEW i, NEW A, NEW P, NEW U, NEW e, Gives(i, A, P, U, e), NEW X,
         X[NDIRECT] # 0 => X[NDIRECT] \in U /\ X[NDIRECT] # A[i][NDIRECT], NEW n
  PROVE  Addr(X, e.ptr, n) = Addr(X, P, n)
<1>0. \A b \in U : b # A[i][NDIRECT] => e.ptr[b] = P[b]
  BY DEF Gives
<1>1. X[NDIRECT] # 0 => e.ptr[X[NDIRECT]] = P[X[NDIRECT]]
  BY <1>0
<1> QED
  BY <1>1 DEF Addr

LEMMA AddrIndirect ==
  ASSUME NEW X, NEW P
  PROVE  NDIRECT \in Spot /\ Addr(X, P, NDIRECT) = X[NDIRECT]
  BY BlockConstants DEF Addr, Spot

\* Where the addresses are after the step.
Placed(i, A, P, e, B) ==
  \A j \in Inum, n \in Spot :
    Addr(B[j], e.ptr, n) = IF j = i THEN At(e, n) ELSE Addr(A[j], P, n)

LEMMA GivesAddr ==
  ASSUME NEW i \in Inum, NEW A \in AddrsType, NEW P \in PtrType, NEW U \in SUBSET Block, NEW e,
         Gives(i, A, P, U, e), Apart(A, P, U),
         NEW B, B = [A EXCEPT ![i] = e.addrs]
  PROVE  Placed(i, A, P, e, B)
<1> SUFFICES ASSUME NEW j \in Inum, NEW n \in Spot
             PROVE  Addr(B[j], e.ptr, n) = IF j = i THEN At(e, n) ELSE Addr(A[j], P, n)
  BY DEF Placed
<1>1. CASE j = i
  BY <1>1 DEF At, AddrsType
<1>2. CASE j # i
  <2>1. A[j][NDIRECT] # 0 => A[j][NDIRECT] \in U /\ A[j][NDIRECT] # A[i][NDIRECT]
    BY <1>2, AddrIndirect DEF Apart
  <2>2. B[j] = A[j]
    BY <1>2 DEF AddrsType
  <2>3. Addr(A[j], e.ptr, n) = Addr(A[j], P, n)
    BY <2>1, GivesOthers
  <2> QED
    BY <1>2, <2>2, <2>3
<1> QED
  BY <1>1, <1>2

LEMMA GivesApart ==
  ASSUME NEW i \in Inum, NEW A \in AddrsType, NEW P \in PtrType, NEW U \in SUBSET Block, NEW e,
         Gives(i, A, P, U, e), Apart(A, P, U), NEW B, B = [A EXCEPT ![i] = e.addrs]
  PROVE  Apart(B, e.ptr, e.used)
<1> DEFINE a(j, n) == Addr(A[j], P, n)
           b(j, n) == Addr(B[j], e.ptr, n)
<1>1. \A j \in Inum, n \in Spot : b(j, n) = IF j = i THEN At(e, n) ELSE a(j, n)
  <2>1. Placed(i, A, P, e, B)
    BY GivesAddr
  <2> QED
    BY <2>1 DEF Placed
<1>2. /\ U \subseteq e.used
      /\ \A n \in Spot : a(i, n) # 0 => At(e, n) = a(i, n)
      /\ \A n \in Spot : a(i, n) = 0 /\ At(e, n) # 0 => At(e, n) \in e.used \ U
  BY DEF Gives
<1>3. /\ \A n \in Spot : At(e, n) # 0 => At(e, n) \in e.used
      /\ \A m, n \in Spot : At(e, m) # 0 /\ At(e, m) = At(e, n) => m = n
  BY DEF Gives, Whole
<1>4. /\ \A j \in Inum, n \in Spot : a(j, n) # 0 => a(j, n) \in U
      /\ \A j, k \in Inum : \A m, n \in Spot : a(j, m) # 0 /\ a(j, m) = a(k, n) => j = k /\ m = n
  BY DEF Apart
<1> HIDE DEF a, b
<1>5. ASSUME NEW j \in Inum, NEW n \in Spot, b(j, n) # 0 PROVE b(j, n) \in e.used
  BY <1>1, <1>2, <1>3, <1>4, <1>5
<1>6. ASSUME NEW j \in Inum, j # i, NEW m \in Spot, NEW n \in Spot, At(e, n) # 0
      PROVE  a(j, m) # At(e, n)
  BY <1>2, <1>4, <1>6
<1>7. ASSUME NEW j \in Inum, NEW k \in Inum, NEW m \in Spot, NEW n \in Spot,
             b(j, m) # 0, b(j, m) = b(k, n)
      PROVE  j = k /\ m = n
  <2>1. CASE j = i /\ k = i
    BY <1>1, <1>3, <1>7, <2>1
  <2>2. CASE j # i /\ k # i
    BY <1>1, <1>4, <1>7, <2>2
  <2>3. CASE j # i /\ k = i
    BY <1>1, <1>6, <1>7, <2>3
  <2>4. CASE j = i /\ k # i
    BY <1>1, <1>6, <1>7, <2>4
  <2> QED
    BY <2>1, <2>2, <2>3, <2>4
<1> QED
  BY <1>5, <1>7 DEF Apart, b

\* What was at a spot still is, and what is new is at one.
LEMMA GivesAccounted ==
  ASSUME NEW i \in Inum, NEW A \in AddrsType, NEW P \in PtrType, NEW U \in SUBSET Block, NEW e,
         Gives(i, A, P, U, e), Apart(A, P, U), NEW B, B = [A EXCEPT ![i] = e.addrs],
         NEW L, Accounted(A, P, U, L)
  PROVE  Accounted(B, e.ptr, e.used, L)
<1>1. \A j \in Inum, n \in Spot : Addr(B[j], e.ptr, n) = IF j = i THEN At(e, n) ELSE Addr(A[j], P, n)
  <2>1. Placed(i, A, P, e, B)
    BY GivesAddr
  <2> QED
    BY <2>1 DEF Placed
<1>2. /\ \A n \in Spot : Addr(A[i], P, n) # 0 => At(e, n) = Addr(A[i], P, n)
      /\ \A b \in e.used \ U : \E n \in Spot : At(e, n) = b
  BY DEF Gives
<1>3. ASSUME NEW b \in e.used, b \notin L
      PROVE  \E j \in Inum, n \in Spot : Addr(B[j], e.ptr, n) = b
  <2>1. CASE b \in U
    <3>1. PICK j \in Inum, n \in Spot : Addr(A[j], P, n) = b
      BY <1>3, <2>1 DEF Accounted
    <3>2. b # 0
      BY <2>1, BlockConstants
    <3>3. Addr(B[j], e.ptr, n) = b
      BY <1>1, <1>2, <3>1, <3>2
    <3> QED
      BY <3>3
  <2>2. CASE b \notin U
    BY <1>1, <1>2, <1>3, <2>2
  <2> QED
    BY <2>1, <2>2
<1> QED
  BY <1>3 DEF Accounted

\* The copies on the disk: of another inode.
LEMMA GivesOldOther ==
  ASSUME NEW i \in Inum, NEW A, NEW Z, NEW P, NEW U, NEW L, NEW e, Gives(i, A, P, U, e),
         Apart(A, P, U), Saved(A, Z, P, L), NEW j \in Inum, j # i, NEW n \in Spot
  PROVE  Addr(Z[j], e.ptr, n) = Addr(Z[j], P, n)
<1>1. Z[j][NDIRECT] # 0 => Z[j][NDIRECT] = A[j][NDIRECT]
  BY AddrIndirect DEF Saved
<1>2. A[j][NDIRECT] # 0 => A[j][NDIRECT] \in U /\ A[j][NDIRECT] # A[i][NDIRECT]
  BY AddrIndirect DEF Apart
<1>3. Z[j][NDIRECT] # 0 => Z[j][NDIRECT] \in U /\ Z[j][NDIRECT] # A[i][NDIRECT]
  BY <1>1, <1>2
<1> QED
  BY <1>3, GivesOthers

\* And of the inode itself, which lacks what get_disk_lbn() allocates.
LEMMA GivesOldSelf ==
  ASSUME NEW i \in Inum, NEW A, NEW Z, NEW P, NEW U, NEW L, NEW e, Gives(i, A, P, U, e),
         Saved(A, Z, P, L), NEW n \in Spot
  PROVE  /\ \/ Addr(Z[i], e.ptr, n) = At(e, n)
            \/ Addr(Z[i], e.ptr, n) = 0 /\ At(e, n) \in L \cup (e.used \ U)
         /\ Addr(Z[i], P, n) # 0 => Addr(Z[i], e.ptr, n) # 0
<1> DEFINE z == Addr(Z[i], P, n)
           a == Addr(A[i], P, n)
<1>1. /\ z = a \/ (z = 0 /\ a \in L)
      /\ a # 0 => At(e, n) = a
      /\ a = 0 /\ At(e, n) # 0 => At(e, n) \in e.used \ U
  BY DEF Saved, Gives
<1>2. CASE n <= NDIRECT
  <2>1. Addr(Z[i], e.ptr, n) = z
    BY <1>2 DEF Addr
  <2> HIDE DEF z, a
  <2> QED
    BY <1>1, <2>1 DEF z
<1>3. CASE ~(n <= NDIRECT) /\ Z[i][NDIRECT] = 0
  <2>1. Addr(Z[i], e.ptr, n) = 0 /\ z = 0
    BY <1>3 DEF Addr
  <2> HIDE DEF z, a
  <2> QED
    BY <1>1, <2>1 DEF z
<1>4. CASE ~(n <= NDIRECT) /\ Z[i][NDIRECT] # 0
  <2>1. Z[i][NDIRECT] = A[i][NDIRECT]
    BY <1>4, AddrIndirect DEF Saved
  <2>2. e.addrs[NDIRECT] = A[i][NDIRECT]
    <3>1. Addr(A[i], P, NDIRECT) # 0
      BY <1>4, <2>1, AddrIndirect
    <3>2. At(e, NDIRECT) = Addr(A[i], P, NDIRECT)
      BY <3>1, AddrIndirect DEF Gives
    <3> QED
      BY <3>2, AddrIndirect DEF At
  <2>3. Addr(Z[i], e.ptr, n) = At(e, n) /\ z = a
    BY <1>4, <2>1, <2>2 DEF Addr, At
  <2> HIDE DEF z, a
  <2> QED
    BY <1>1, <2>3 DEF z
<1> QED
  BY <1>2, <1>3, <1>4

\* A write saves the inode it writes.
LEMMA WriteSaves ==
  ASSUME NEW i \in Inum, NEW A \in AddrsType, NEW Z \in AddrsType, NEW P \in PtrType,
         NEW U \in SUBSET Block, NEW L, NEW e, Gives(i, A, P, U, e),
         Apart(A, P, U), Saved(A, Z, P, L),
         NEW B, B = [A EXCEPT ![i] = e.addrs], NEW Y, Y = [Z EXCEPT ![i] = e.addrs]
  PROVE  Saved(B, Y, e.ptr, L)
<1>1. SUFFICES ASSUME NEW j \in Inum, NEW n \in Spot
               PROVE  \/ Addr(Y[j], e.ptr, n) = Addr(B[j], e.ptr, n)
                      \/ Addr(Y[j], e.ptr, n) = 0 /\ Addr(B[j], e.ptr, n) \in L
  BY DEF Saved
<1>2. CASE j = i
  BY <1>2 DEF AddrsType
<1>3. CASE j # i
  <2>1. Placed(i, A, P, e, B)
    BY GivesAddr
  <2>2. Addr(B[j], e.ptr, n) = Addr(A[j], P, n)
    BY <1>3, <2>1 DEF Placed
  <2>3. Y[j] = Z[j]
    BY <1>3 DEF AddrsType
  <2>4. Addr(Z[j], e.ptr, n) = Addr(Z[j], P, n)
    BY <1>3, GivesOldOther
  <2> QED
    BY <2>2, <2>3, <2>4 DEF Saved
<1> QED
  BY <1>2, <1>3

\* And leaves no hole below the size it sets.
Fills(i, e, S, T) ==
  /\ \A j \in Inum : j # i => T[j] = S[j]
  /\ \A bn \in 0..MAXFILE - 1 : bn * BSIZE < T[i] => bn * BSIZE < S[i] \/ Mapped(e, bn) # 0

LEMMA WriteFills ==
  ASSUME NEW i \in Inum, NEW A \in AddrsType, NEW Z \in AddrsType, NEW P \in PtrType,
         NEW U \in SUBSET Block, NEW L, NEW e, Gives(i, A, P, U, e),
         Apart(A, P, U), Saved(A, Z, P, L), NEW Y, Y = [Z EXCEPT ![i] = e.addrs],
         NEW S, NEW T, NoHole(Z, P, S), Fills(i, e, S, T)
  PROVE  NoHole(Y, e.ptr, T)
<1>0. /\ \A j \in Inum : j # i => T[j] = S[j]
      /\ \A bn \in 0..MAXFILE - 1 :
           bn * BSIZE < T[i] => bn * BSIZE < S[i] \/ Mapped(e, bn) # 0
  BY DEF Fills
<1>1. SUFFICES ASSUME NEW j \in Inum, NEW bn \in 0..MAXFILE - 1, bn * BSIZE < T[j]
               PROVE  Addr(Y[j], e.ptr, SpotOf(bn)) # 0
  BY DEF NoHole
<1> DEFINE n == SpotOf(bn)
<1>2. n \in Spot
  BY MappedAt
<1>3. CASE j = i
  <2>1. Addr(Y[j], e.ptr, n) = At(e, n)
    BY <1>3 DEF AddrsType, At
  <2>2. CASE bn * BSIZE < S[i]
    <3>1. Addr(Z[i], P, n) # 0
      BY <2>2 DEF NoHole
    <3>2. Addr(A[i], P, n) # 0
      BY <1>2, <3>1 DEF Saved
    <3>3. At(e, n) # 0
      BY <1>2, <3>2 DEF Gives
    <3> QED
      BY <2>1, <3>3
  <2>3. CASE Mapped(e, bn) # 0
    BY <2>1, <2>3, MappedAt
  <2> QED
    BY <1>0, <1>1, <1>3, <2>2, <2>3
<1>4. CASE j # i
  <2>1. Addr(Z[j], e.ptr, n) = Addr(Z[j], P, n)
    BY <1>2, <1>4, GivesOldOther
  <2>2. Addr(Z[j], P, n) # 0
    BY <1>0, <1>1, <1>4 DEF NoHole
  <2>3. Y[j] = Z[j]
    BY <1>4 DEF AddrsType
  <2> QED
    BY <2>1, <2>2, <2>3
<1> QED
  BY <1>3, <1>4

\* get_disk_lbn() saves nothing.
LEMMA LbnSaves ==
  ASSUME NEW i \in Inum, NEW A \in AddrsType, NEW Z \in AddrsType, NEW P \in PtrType,
         NEW U \in SUBSET Block, NEW L, NEW e, Gives(i, A, P, U, e),
         Apart(A, P, U), Saved(A, Z, P, L), NEW B, B = [A EXCEPT ![i] = e.addrs]
  PROVE  Saved(B, Z, e.ptr, L \cup (e.used \ U))
<1>1. SUFFICES ASSUME NEW j \in Inum, NEW n \in Spot
               PROVE  \/ Addr(Z[j], e.ptr, n) = Addr(B[j], e.ptr, n)
                      \/ /\ Addr(Z[j], e.ptr, n) = 0
                         /\ Addr(B[j], e.ptr, n) \in L \cup (e.used \ U)
  BY DEF Saved
<1>2. Placed(i, A, P, e, B)
  BY GivesAddr
<1>3. CASE j = i
  <2>1. Addr(B[j], e.ptr, n) = At(e, n)
    BY <1>2, <1>3 DEF Placed
  <2> QED
    BY <1>3, <2>1, GivesOldSelf
<1>4. CASE j # i
  <2>1. Addr(B[j], e.ptr, n) = Addr(A[j], P, n)
    BY <1>2, <1>4 DEF Placed
  <2>2. Addr(Z[j], e.ptr, n) = Addr(Z[j], P, n)
    BY <1>4, GivesOldOther
  <2> QED
    BY <2>1, <2>2 DEF Saved
<1> QED
  BY <1>3, <1>4

LEMMA LbnFills ==
  ASSUME NEW i \in Inum, NEW A \in AddrsType, NEW Z \in AddrsType, NEW P \in PtrType,
         NEW U \in SUBSET Block, NEW L, NEW e, Gives(i, A, P, U, e),
         Apart(A, P, U), Saved(A, Z, P, L), NEW S, NoHole(Z, P, S)
  PROVE  NoHole(Z, e.ptr, S)
<1>1. SUFFICES ASSUME NEW j \in Inum, NEW bn \in 0..MAXFILE - 1, bn * BSIZE < S[j]
               PROVE  Addr(Z[j], e.ptr, SpotOf(bn)) # 0
  BY DEF NoHole
<1>2. SpotOf(bn) \in Spot
  BY MappedAt
<1>3. Addr(Z[j], P, SpotOf(bn)) # 0
  BY <1>1 DEF NoHole
<1>4. CASE j = i
  BY <1>2, <1>3, <1>4, GivesOldSelf
<1>5. CASE j # i
  BY <1>2, <1>3, <1>5, GivesOldOther
<1> QED
  BY <1>4, <1>5

-----------------------------------------------------------------------------
(* itrunc(), and an inode that is read from the disk again *)

LEMMA NoAddrsAddr ==
  ASSUME NEW P, NEW n \in Spot
  PROVE  Addr(NoAddrs, P, n) = 0
<1>1. NDIRECT \in 0..NDIRECT /\ (n <= NDIRECT => n \in 0..NDIRECT)
  BY BlockConstants DEF Spot
<1> QED
  BY <1>1 DEF Addr, NoAddrs

\* itrunc() frees what is at a spot of the inode.
LEMMA InMapIs ==
  ASSUME BlocksTypes, NEW i \in Inum, NEW b
  PROVE  b \in InMap(Disk(i)) <=> b # 0 /\ \E n \in Spot : Addr(addrs[i], ptr, n) = b
<1> DEFINE d == Disk(i)
<1>1. d.addrs[NDIRECT] = Addr(addrs[i], ptr, NDIRECT) /\ NDIRECT \in Spot
  BY DiskFields, AddrIndirect
<1>2. \A bn \in 0..MAXFILE - 1 :
        SpotOf(bn) \in Spot /\ Mapped(d, bn) = Addr(addrs[i], ptr, SpotOf(bn))
  BY MappedAt, DiskFields
<1>3. \A n \in Spot : n # NDIRECT => \E bn \in 0..MAXFILE - 1 : n = SpotOf(bn)
  BY SpotsTaken
<1>4. b \in InMap(d) <=> b # 0 /\ ((\E bn \in 0..MAXFILE - 1 : Mapped(d, bn) = b) \/ d.addrs[NDIRECT] = b)
  BY DEF InMap
<1> HIDE DEF d
<1> QED
  BY <1>1, <1>2, <1>3, <1>4 DEF d

\* F is what is at the spots of inode i.
Freed(i, A, P, F) ==
  \A b : b \in F <=> b # 0 /\ \E n \in Spot : Addr(A[i], P, n) = b

LEMMA TruncApart ==
  ASSUME NEW i \in Inum, NEW A \in AddrsType, NEW P, NEW U, NEW L, NEW F,
         Freed(i, A, P, F), Apart(A, P, U), Accounted(A, P, U, L),
         NEW B, B = [A EXCEPT ![i] = NoAddrs]
  PROVE  Apart(B, P, U \ F) /\ Accounted(B, P, U \ F, L)
<1>1. \A j \in Inum, n \in Spot : Addr(B[j], P, n) = IF j = i THEN 0 ELSE Addr(A[j], P, n)
  BY NoAddrsAddr DEF AddrsType
<1>2. ASSUME NEW j \in Inum, NEW n \in Spot, Addr(B[j], P, n) # 0
      PROVE  Addr(B[j], P, n) \in U \ F
  <2>1. j # i /\ Addr(B[j], P, n) = Addr(A[j], P, n)
    BY <1>1, <1>2
  <2>2. Addr(A[j], P, n) \in U
    BY <1>2, <2>1 DEF Apart
  <2>3. Addr(A[j], P, n) \notin F
    BY <1>2, <2>1 DEF Apart, Freed
  <2> QED
    BY <2>1, <2>2, <2>3
<1>3. ASSUME NEW j \in Inum, NEW k \in Inum, NEW m \in Spot, NEW n \in Spot,
             Addr(B[j], P, m) # 0, Addr(B[j], P, m) = Addr(B[k], P, n)
      PROVE  j = k /\ m = n
  <2>1. Addr(A[j], P, m) # 0 /\ Addr(A[j], P, m) = Addr(A[k], P, n)
    BY <1>1, <1>3
  <2> QED
    BY <2>1 DEF Apart
<1>4. ASSUME NEW b \in U \ F, b \notin L
      PROVE  \E j \in Inum, n \in Spot : Addr(B[j], P, n) = b
  <2>1. PICK j \in Inum, n \in Spot : Addr(A[j], P, n) = b
    BY <1>4 DEF Accounted
  <2>2. CASE b # 0
    <3>1. j # i
      BY <1>4, <2>1, <2>2 DEF Freed
    <3> QED
      BY <1>1, <2>1, <3>1
  <2>3. CASE b = 0
    BY <1>1, <2>1, <2>3
  <2> QED
    BY <2>2, <2>3
<1>5. Apart(B, P, U \ F)
  BY <1>2, <1>3 DEF Apart
<1>6. Accounted(B, P, U \ F, L)
  BY <1>4 DEF Accounted
<1> QED
  BY <1>5, <1>6

LEMMA TruncSaved ==
  ASSUME NEW i \in Inum, NEW A \in AddrsType, NEW Z \in AddrsType, NEW P, NEW L,
         NEW S \in [Inum -> Nat], Saved(A, Z, P, L), NoHole(Z, P, S)
  PROVE  /\ Saved([A EXCEPT ![i] = NoAddrs], [Z EXCEPT ![i] = NoAddrs], P, L)
         /\ NoHole([Z EXCEPT ![i] = NoAddrs], P, [S EXCEPT ![i] = 0])
<1> DEFINE B == [A EXCEPT ![i] = NoAddrs]
           Y == [Z EXCEPT ![i] = NoAddrs]
           T == [S EXCEPT ![i] = 0]
<1>1. ASSUME NEW j \in Inum
      PROVE  IF j = i THEN B[j] = NoAddrs /\ Y[j] = NoAddrs /\ T[j] = 0
             ELSE B[j] = A[j] /\ Y[j] = Z[j] /\ T[j] = S[j]
  BY DEF AddrsType
<1> HIDE DEF B, Y, T
<1>2. Saved(B, Y, P, L)
  BY <1>1 DEF Saved
<1>3. ASSUME NEW j \in Inum, NEW bn \in 0..MAXFILE - 1, bn * BSIZE < T[j]
      PROVE  Addr(Y[j], P, SpotOf(bn)) # 0
  <2>1. j # i
    <3>1. bn * BSIZE >= 0
      BY BlockConstants
    <3> QED
      BY <1>1, <1>3, <3>1, BlockConstants
  <2> QED
    BY <1>1, <1>3, <2>1 DEF NoHole
<1>4. NoHole(Y, P, T)
  BY <1>3 DEF NoHole
<1> QED
  BY <1>2, <1>4 DEF B, Y, T

LEMMA ReopenApart ==
  ASSUME NEW i \in Inum, NEW A \in AddrsType, NEW Z \in AddrsType, NEW P, NEW U, NEW L,
         Saved(A, Z, P, L), Apart(A, P, U), Accounted(A, P, U, L),
         NEW B, B = [A EXCEPT ![i] = Z[i]]
  PROVE  Apart(B, P, U) /\ Accounted(B, P, U, L) /\ Saved(B, Z, P, L)
<1>1. \A j \in Inum : B[j] = IF j = i THEN Z[j] ELSE A[j]
  BY DEF AddrsType
<1>2. \A j \in Inum, n \in Spot :
        \/ Addr(B[j], P, n) = Addr(A[j], P, n)
        \/ Addr(B[j], P, n) = 0 /\ Addr(A[j], P, n) \in L
  BY <1>1 DEF Saved
<1>3. Apart(B, P, U)
  <2>1. \A j \in Inum, n \in Spot : Addr(B[j], P, n) # 0 => Addr(B[j], P, n) = Addr(A[j], P, n)
    BY <1>2
  <2>2. \A j \in Inum, n \in Spot : Addr(B[j], P, n) # 0 => Addr(B[j], P, n) \in U
    BY <2>1 DEF Apart
  <2>3. ASSUME NEW j \in Inum, NEW k \in Inum, NEW m \in Spot, NEW n \in Spot,
               Addr(B[j], P, m) # 0, Addr(B[j], P, m) = Addr(B[k], P, n)
        PROVE  j = k /\ m = n
    <3>1. Addr(A[j], P, m) # 0 /\ Addr(A[j], P, m) = Addr(A[k], P, n)
      BY <2>1, <2>3
    <3> QED
      BY <3>1 DEF Apart
  <2> QED
    BY <2>2, <2>3 DEF Apart
<1>4. ASSUME NEW b \in U, b \notin L
      PROVE  \E j \in Inum, n \in Spot : Addr(B[j], P, n) = b
  <2>1. PICK j \in Inum, n \in Spot : Addr(A[j], P, n) = b
    BY <1>4 DEF Accounted
  <2>2. Addr(B[j], P, n) = b
    BY <1>2, <1>4, <2>1
  <2> QED
    BY <2>2
<1>5. Accounted(B, P, U, L)
  BY <1>4 DEF Accounted
<1>6. Saved(B, Z, P, L)
  BY <1>1 DEF Saved
<1> QED
  BY <1>3, <1>5, <1>6

-----------------------------------------------------------------------------
(* Offsets and blocks *)

LEMMA BlockOf ==
  ASSUME NEW x \in Nat
  PROVE  /\ x \div BSIZE \in Nat /\ x % BSIZE \in 0..BSIZE - 1
         /\ x = (x \div BSIZE) * BSIZE + (x % BSIZE)
<1>1. x % BSIZE \in 0..BSIZE - 1 /\ x \div BSIZE \in Int /\ x = BSIZE * (x \div BSIZE) + (x % BSIZE)
  BY BlockConstants
<1>2. x \div BSIZE >= 0
  BY BlockConstants
<1> DEFINE q == x \div BSIZE
           r == x % BSIZE
<1> HIDE DEF q, r
<1>3. r \in 0..BSIZE - 1 /\ q \in Nat /\ x = BSIZE * q + r
  BY <1>1, <1>2 DEF q, r
<1>4. BSIZE * q = q * BSIZE
  <2>1. \A a, b \in Nat : a * b = b * a
    OBVIOUS
  <2> QED
    BY <1>3, <2>1, BlockConstants
<1>5. q \in Nat /\ r \in 0..BSIZE - 1 /\ x = q * BSIZE + r
  BY <1>3, <1>4
<1> QED
  BY <1>5 DEF q, r

\* Whole blocks keep the order of their numbers.
LEMMA BlockOrder ==
  ASSUME NEW m \in Nat, NEW n \in Nat
  PROVE  m < n <=> m * BSIZE + BSIZE <= n * BSIZE
<1>1. CASE m < n
  <2>1. n - m - 1 \in Nat /\ n * BSIZE = m * BSIZE + BSIZE + (n - m - 1) * BSIZE
    BY <1>1, BlockConstants
  <2>2. (n - m - 1) * BSIZE >= 0
    BY <2>1, BlockConstants
  <2> QED
    BY <1>1, <2>1, <2>2, BlockConstants
<1>2. CASE ~(m < n)
  <2>1. m - n \in Nat /\ m * BSIZE = n * BSIZE + (m - n) * BSIZE
    BY <1>2, BlockConstants
  <2>2. (m - n) * BSIZE >= 0
    BY <2>1, BlockConstants
  <2> QED
    BY <1>2, <2>1, <2>2, BlockConstants
<1> QED
  BY <1>1, <1>2

\* An offset is below another one's block, or in it.
LEMMA BlockMonotone ==
  ASSUME NEW x \in Nat, NEW y \in Nat, x <= y
  PROVE  x \div BSIZE <= y \div BSIZE
<1> DEFINE p == x \div BSIZE
           q == y \div BSIZE
<1>1. p \in Nat /\ q \in Nat /\ p * BSIZE <= x /\ y < q * BSIZE + BSIZE
  BY BlockOf, BlockConstants
<1>2. ~(q < p)
  BY <1>1, BlockOrder, BlockConstants
<1> QED
  BY <1>1, <1>2

\* A byte below MAXFILE * BSIZE is in a block of the file.
LEMMA BlockInFile ==
  ASSUME NEW x \in Nat, x < MAXFILE * BSIZE
  PROVE  x \div BSIZE \in 0..MAXFILE - 1
<1> DEFINE p == x \div BSIZE
<1>1. p \in Nat /\ p * BSIZE <= x
  BY BlockOf, BlockConstants
<1>2. p < MAXFILE
  <2>1. p * BSIZE < MAXFILE * BSIZE
    BY <1>1, BlockConstants
  <2>2. ~(MAXFILE < p) /\ p # MAXFILE
    BY <1>1, <2>1, BlockOrder, BlockConstants
  <2> QED
    BY <1>1, <2>2, BlockConstants
<1> QED
  BY <1>1, <1>2, BlockConstants

-----------------------------------------------------------------------------
(* writei() *)

CopiedBytes(e, at, done, c) ==
  [b \in Block |-> [o \in 0..BSIZE - 1 |->
     IF \E k \in at..at + done - 1 : Mapped(e, k \div BSIZE) = b /\ k % BSIZE = o
     THEN c ELSE e.data[b][o]]]

LEMMA CopiedFields ==
  ASSUME NEW e \in State, NEW at, NEW done, NEW c \in Byte, NEW g, g = Copied(e, at, done, c)
  PROVE  /\ g.used = e.used /\ g.ptr = e.ptr /\ g.addrs = e.addrs /\ g.panic = e.panic
         /\ g.data = CopiedBytes(e, at, done, c)
         /\ g.data \in [Block -> [0..BSIZE - 1 -> Byte]]
<1> DEFINE D == CopiedBytes(e, at, done, c)
<1>1. g = [e EXCEPT !.data = D]
  BY DEF Copied, CopiedBytes
<1>2. D \in [Block -> [0..BSIZE - 1 -> Byte]]
  BY StateFields DEF CopiedBytes
<1> HIDE DEF D
<1>3. g = [used |-> e.used, data |-> D, ptr |-> e.ptr, addrs |-> e.addrs, new |-> e.new,
           panic |-> e.panic]
  BY <1>1 DEF State
<1>4. /\ g.used = e.used /\ g.ptr = e.ptr /\ g.addrs = e.addrs /\ g.panic = e.panic
      /\ g.data = D
  BY <1>3
<1> QED
  BY <1>2, <1>4 DEF D

\* The bytes of a chunk, and the blocks they are in.
LastByte(at, n, done) == IF done = n THEN at + n - 1 ELSE at + done

LEMMA ChunkBlocks ==
  ASSUME NEW at \in Nat, NEW n \in Nat \ {0}, NEW done \in 0..n, at + n <= MAXFILE * BSIZE
  PROVE  /\ LastByte(at, n, done) \in Nat /\ at <= LastByte(at, n, done)
         /\ LastByte(at, n, done) < MAXFILE * BSIZE
         /\ at \div BSIZE \in Nat /\ LastByte(at, n, done) \div BSIZE \in 0..MAXFILE - 1
         /\ at \div BSIZE <= LastByte(at, n, done) \div BSIZE
<1> DEFINE l == LastByte(at, n, done)
<1>0. MAXFILE * BSIZE \in Nat
  BY BlockConstants
<1>1. l \in Nat /\ at <= l /\ l < MAXFILE * BSIZE
  BY <1>0 DEF LastByte
<1> HIDE DEF l
<1>2. l \div BSIZE \in 0..MAXFILE - 1
  BY <1>1, BlockInFile
<1>3. at \div BSIZE <= l \div BSIZE /\ at \div BSIZE \in Nat
  BY <1>1, BlockMonotone, BlockOf
<1> QED
  BY <1>1, <1>2, <1>3 DEF l

\* Those of the blocks W that were in use are of e.
Owned(W, e) == \A b \in W \cap used : \E m \in Spot : At(e, m) = b

\* The blocks W are logged.
LogsAll(W) == kept' = [b \in Block |-> IF b \in W THEN data'[b] ELSE kept[b]]

\* What is logged has its type.
LEMMA LogsTyped ==
  ASSUME BlocksTypes, NEW W, LogsAll(W), data' \in [Block -> [0..BSIZE - 1 -> Byte]]
  PROVE  kept' \in [Block -> [0..BSIZE - 1 -> Byte]]
<1>1. kept \in [Block -> [0..BSIZE - 1 -> Byte]]
  BY TypesOf
<1> QED
  BY <1>1 DEF LogsAll

\* A chunk of n bytes at offset at of inode i, done of which were copied.
Wrote(i, at, n, done, c, e) ==
  /\ i \in Inum /\ at \in Nat /\ n \in Nat \ {0} /\ done \in 0..n /\ c \in Byte
  /\ at <= size[i] /\ at + n <= MAXFILE * BSIZE
  /\ Extends(Disk(i), e) /\ e.panic = "none"
  /\ \A bn \in at \div BSIZE..LastByte(at, n, done) \div BSIZE : Mapped(e, bn) # 0
  /\ used' = e.used /\ ptr' = e.ptr /\ addrs' = [addrs EXCEPT ![i] = e.addrs]
  /\ data' = Copied(e, at, done, c).data
  /\ \E W : /\ LoggedBlocks(e, at, Reached(at, n, done)) \subseteq W
           /\ Owned(W, e) /\ LogsAll(W)
  /\ fault' = (done < n)
  /\ size' = [size EXCEPT ![i] = Larger(@, Reached(at, n, done))]
  /\ daddrs' = [daddrs EXCEPT ![i] = e.addrs]
  /\ off' \in [File -> Nat] /\ ctx' \in [Writer -> {Idle} \cup [file : File, left : Nat \ {0}]]

LEMMA ReachedBounds ==
  ASSUME NEW at \in Nat, NEW n \in Nat \ {0}, NEW done \in 0..n
  PROVE  Reached(at, n, done) \in Nat /\ Reached(at, n, done) <= at + done
         /\ at <= Reached(at, n, done)
<1>1. CASE done = n
  BY <1>1 DEF Reached
<1>2. CASE done # n
  <2> DEFINE q == (at + done) \div BSIZE
  <2>1. at + done \in Nat
    OBVIOUS
  <2>2. q \in Nat /\ q * BSIZE <= at + done /\ q * BSIZE \in Nat
    BY <2>1, BlockOf, BlockConstants
  <2>3. Reached(at, n, done) = Larger(at, q * BSIZE)
    BY <1>2 DEF Reached
  <2> HIDE DEF q
  <2> QED
    BY <2>2, <2>3 DEF Larger
<1> QED
  BY <1>1, <1>2

LEMMA WriteCases ==
  ASSUME BlocksInductive, NEW p \in Writer, writei(p)
  PROVE  /\ byLbn' = byLbn
         /\ \/ UNCHANGED <<disk, logVars, addrs, size, daddrs, off, ctx>>
            \/ \E i, at, n, done, c, e : Wrote(i, at, n, done, c, e)
<1> DEFINE f == ctx[p].file
           i == InodeOf[f]
           n == Chunk(p)
           at == off[f]
           nextCtx == [ctx EXCEPT ![p] = IF @.left = n THEN Idle ELSE [file |-> f, left |-> @.left - n]]
<1>0. BlocksTypes /\ Apart(addrs, ptr, used)
  BY DEF BlocksInductive
<1>1. /\ Running /\ ctx[p] # Idle /\ at <= size[i] /\ at + n <= MAXFILE * BSIZE
  BY DEF writei, Writing, Fits
<1>2. ctx[p] \in [file : File, left : Nat \ {0}]
  BY <1>0, <1>1, TypesOf
<1>3. f \in File /\ ctx[p].left \in Nat \ {0}
  BY <1>2
<1>4. i \in Inum /\ at \in Nat
  BY <1>0, <1>3, TypesOf, BlockConstants
<1>5. n \in Nat \ {0} /\ n <= ctx[p].left
  BY <1>3, BlockConstants DEF Chunk
<1>6. PICK done \in 0..n, c \in Byte, already \in BOOLEAN :
        LET last == IF done = n THEN at + n - 1 ELSE at + done
            d == bmapAll(Disk(i), at \div BSIZE, last \div BSIZE)
        IN /\ Leaves(i, IF d.panic = "none" THEN Copied(d, at, done, c) ELSE d)
           /\ Logs(LoggedBlocks(d, at, Reached(at, n, done)) \union
                   IF already THEN {Mapped(d, last \div BSIZE)} ELSE {})
           /\ IF d.panic # "none" THEN UNCHANGED <<size, daddrs, off, ctx, fault>>
              ELSE /\ fault' = (done < n)
                   /\ size' = [size EXCEPT ![i] = Larger(@, Reached(at, n, done))]
                   /\ daddrs' = [daddrs EXCEPT ![i] = addrs'[i]]
                   /\ off' = [off EXCEPT ![f] = @ + n]
                   /\ ctx' = nextCtx
  BY Zenon DEF writei
<1>7. byLbn' = byLbn
  BY DEF writei
<1> DEFINE e == bmapAll(Disk(i), at \div BSIZE, LastByte(at, n, done) \div BSIZE)
           M == LoggedBlocks(e, at, Reached(at, n, done)) \cup
                (IF already THEN {Mapped(e, LastByte(at, n, done) \div BSIZE)} ELSE {})
<1>8. /\ Leaves(i, IF e.panic = "none" THEN Copied(e, at, done, c) ELSE e)
      /\ Logs(M)
      /\ IF e.panic # "none" THEN UNCHANGED <<size, daddrs, off, ctx, fault>>
         ELSE /\ fault' = (done < n)
              /\ size' = [size EXCEPT ![i] = Larger(@, Reached(at, n, done))]
              /\ daddrs' = [daddrs EXCEPT ![i] = addrs'[i]]
              /\ off' = [off EXCEPT ![f] = @ + n]
              /\ ctx' = nextCtx
  BY <1>6, Zenon DEF LastByte
<1>9. Disk(i) \in State /\ Disk(i).panic = "none" /\ Whole(Disk(i))
  BY <1>0, <1>1, <1>4, DiskState, DiskWhole
<1>10. /\ Extends(Disk(i), e)
       /\ e.panic = "none" =>
            \A bn \in at \div BSIZE..LastByte(at, n, done) \div BSIZE : Mapped(e, bn) # 0
  <2>1. /\ LastByte(at, n, done) \div BSIZE \in 0..MAXFILE - 1 /\ at \div BSIZE \in Nat
        /\ at \div BSIZE <= LastByte(at, n, done) \div BSIZE
    BY <1>1, <1>4, <1>5, ChunkBlocks
  <2>2. LastByte(at, n, done) \div BSIZE \in Nat /\ LastByte(at, n, done) \div BSIZE < MAXFILE
    BY <2>1, BlockConstants
  <2> QED
    BY <1>9, <2>1, <2>2, BmapAllMaps
<1>13. LoggedBlocks(e, at, Reached(at, n, done)) \subseteq M
  OBVIOUS
<1>14. \A b \in M : \E m \in Spot : At(e, m) = b
  <2>1. LastByte(at, n, done) \div BSIZE \in 0..MAXFILE - 1
    BY <1>1, <1>4, <1>5, ChunkBlocks
  <2>2. ASSUME NEW k \in at..Reached(at, n, done) - 1 PROVE k \div BSIZE \in 0..MAXFILE - 1
    <3>1. Reached(at, n, done) \in Nat /\ Reached(at, n, done) <= at + done
      BY <1>4, <1>5, ReachedBounds
    <3> HIDE DEF at, n
    <3>2. MAXFILE * BSIZE \in Nat
      BY BlockConstants
    <3>3. k \in Nat /\ k < MAXFILE * BSIZE
      BY <1>1, <1>4, <1>5, <2>2, <3>1, <3>2
    <3> QED
      BY <3>3, BlockInFile
  <2>3. \A bn \in 0..MAXFILE - 1 : SpotOf(bn) \in Spot /\ Mapped(e, bn) = At(e, SpotOf(bn))
    BY MappedAt
  <2> HIDE DEF e, at, n, i
  <2> QED
    BY <2>1, <2>2, <2>3 DEF LoggedBlocks
<1> HIDE DEF M
<1> HIDE DEF e, nextCtx
<1>11. CASE e.panic # "none"
  <2>1. UNCHANGED <<disk, addrs>> /\ panic' # "none"
    BY <1>8, <1>11 DEF Leaves
  <2>2. kept' = kept
    BY <1>8, <2>1 DEF Logs
  <2> QED
    BY <1>7, <1>8, <1>11, <2>1, <2>2 DEF logVars
<1>12. CASE e.panic = "none"
  <2>1. e \in State
    BY <1>10 DEF Extends
  <2> DEFINE g == Copied(e, at, done, c)
  <2>2. /\ g.used = e.used /\ g.ptr = e.ptr /\ g.addrs = e.addrs /\ g.panic = e.panic
    BY <2>1, CopiedFields
  <2>3. Leaves(i, g)
    BY <1>8, <1>12
  <2>4. /\ used' = e.used /\ ptr' = e.ptr /\ addrs' = [addrs EXCEPT ![i] = e.addrs]
        /\ data' = g.data
    BY <1>12, <2>2, <2>3 DEF Leaves
  <2>5. addrs'[i] = e.addrs
    BY <1>0, <1>4, <2>4, TypesOf DEF AddrsType
  <2>6. daddrs' = [daddrs EXCEPT ![i] = e.addrs]
    BY <1>8, <1>12, <2>5
  <2>7. off' \in [File -> Nat]
    BY <1>0, <1>3, <1>5, <1>8, <1>12, TypesOf
  <2>8. ctx' \in [Writer -> {Idle} \cup [file : File, left : Nat \ {0}]]
    <3>1. ctx' = nextCtx
      BY <1>8, <1>12
    <3>2. ctx[p].left = n \/ ctx[p].left - n \in Nat \ {0}
      BY <1>3, <1>5
    <3> QED
      BY <1>0, <1>3, <3>1, <3>2, TypesOf DEF nextCtx
  <2>9. size' = [size EXCEPT ![i] = Larger(@, Reached(at, n, done))]
    BY <1>8, <1>12
  <2> HIDE DEF g
  <2>10. data' = Copied(e, at, done, c).data
    BY <2>4 DEF g
  <2>12. fault' = (done < n)
    BY <1>8, <1>12
  <2>13. \E W : /\ LoggedBlocks(e, at, Reached(at, n, done)) \subseteq W
              /\ Owned(W, e) /\ LogsAll(W)
    <3>1. panic' = "none"
      BY <1>12, <2>2, <2>3 DEF Leaves
    <3>2. LogsAll(M \cup (used' \ used))
      BY <1>8, <3>1 DEF Logs, LogsAll
    <3>3. Owned(M \cup (used' \ used), e)
      BY <1>14 DEF Owned
    <3> QED
      BY <1>13, <3>2, <3>3
  <2> HIDE DEF i, at, n
  <2>11. Wrote(i, at, n, done, c, e)
    BY <1>1, <1>4, <1>5, <1>10, <1>12, <2>4, <2>6, <2>7, <2>8, <2>9, <2>10, <2>12, <2>13 DEF Wrote
  <2> QED
    BY <1>7, <2>11
<1> QED
  BY <1>11, <1>12

\* A block that begins below the new end begins below the offset, or is of the chunk.
LEMMA ReachedBlocks ==
  ASSUME NEW at \in Nat, NEW n \in Nat \ {0}, NEW done \in 0..n, at + n <= MAXFILE * BSIZE,
         NEW bn \in Nat, bn * BSIZE < Reached(at, n, done)
  PROVE  bn * BSIZE < at \/ bn \in at \div BSIZE..LastByte(at, n, done) \div BSIZE
<1> DEFINE l == LastByte(at, n, done)
           p == at \div BSIZE
           q == l \div BSIZE
<1>1. l \in Nat /\ p \in Nat /\ q \in Nat
  BY ChunkBlocks
<1>2. p * BSIZE <= at /\ l < q * BSIZE + BSIZE /\ q * BSIZE <= l
  BY <1>1, BlockOf, BlockConstants
<1>3. bn < p => bn * BSIZE < at
  BY <1>1, <1>2, BlockOrder, BlockConstants
<1>4. bn * BSIZE < at \/ bn <= q
  <2>1. CASE done = n
    <3>1. bn * BSIZE <= l
      BY <2>1, BlockConstants DEF Reached, LastByte
    <3>2. ~(q < bn)
      BY <1>1, <1>2, <3>1, BlockOrder, BlockConstants
    <3> QED
      BY <1>1, <3>2
  <2>2. CASE done # n
    <3>1. l = at + done
      BY <2>2 DEF LastByte
    <3>2. Reached(at, n, done) = Larger(at, q * BSIZE)
      BY <2>2, <3>1 DEF Reached
    <3>3. bn * BSIZE < at \/ bn * BSIZE < q * BSIZE
      BY <3>2 DEF Larger
    <3>4. bn * BSIZE < q * BSIZE => ~(q < bn)
      BY <1>1, BlockOrder, BlockConstants
    <3> QED
      BY <1>1, <3>3, <3>4
  <2> QED
    BY <2>1, <2>2
<1> HIDE DEF p, q, l
<1>5. bn * BSIZE < at \/ bn \in p..q
  BY <1>1, <1>3, <1>4
<1> QED
  BY <1>5 DEF p, q, l

LEMMA WroteGives ==
  ASSUME BlocksInductive, NEW i, NEW at, NEW n, NEW done, NEW c, NEW e,
         Wrote(i, at, n, done, c, e)
  PROVE  Gives(i, addrs, ptr, used, e)
<1>1. e \in State /\ Whole(e) /\ Grown(Disk(i), e)
  BY DEF Wrote, Extends
<1>2. Disk(i).addrs = addrs[i] /\ Disk(i).ptr = ptr /\ Disk(i).used = used
  BY DiskFields
<1> QED
  BY <1>1, <1>2, GrownGives

LEMMA WroteSize ==
  ASSUME BlocksInductive, NEW i, NEW at, NEW n, NEW done, NEW c, NEW e,
         Wrote(i, at, n, done, c, e)
  PROVE  /\ size' \in [Inum -> 0..MAXFILE * BSIZE]
         /\ size'[i] = Larger(size[i], Reached(at, n, done))
         /\ \A j \in Inum : j # i => size'[j] = size[j]
<1>1. /\ i \in Inum /\ at \in Nat /\ n \in Nat \ {0} /\ done \in 0..n /\ at + n <= MAXFILE * BSIZE
      /\ size' = [size EXCEPT ![i] = Larger(@, Reached(at, n, done))]
  BY DEF Wrote
<1>2. size \in [Inum -> 0..MAXFILE * BSIZE]
  BY TypesOf DEF BlocksInductive
<1> DEFINE r == Reached(at, n, done)
<1>3. r \in Nat /\ r <= at + done
  BY <1>1, ReachedBounds
<1> HIDE DEF r
<1>4. MAXFILE * BSIZE \in Nat
  BY BlockConstants
<1>5. Larger(size[i], r) \in 0..MAXFILE * BSIZE
  BY <1>1, <1>2, <1>3, <1>4 DEF Larger
<1> QED
  BY <1>1, <1>2, <1>5 DEF r

LEMMA WroteKeeps ==
  ASSUME BlocksInductive, NEW i, NEW at, NEW n, NEW done, NEW c, NEW e,
         Wrote(i, at, n, done, c, e), byLbn' = byLbn
  PROVE  BlocksInductive'
<1>0. /\ BlocksTypes /\ Apart(addrs, ptr, used) /\ Accounted(addrs, ptr, used, byLbn)
      /\ Saved(addrs, daddrs, ptr, byLbn) /\ NoHole(daddrs, ptr, size)
  BY DEF BlocksInductive
<1>1. /\ i \in Inum /\ at \in Nat /\ n \in Nat \ {0} /\ done \in 0..n /\ c \in Byte
      /\ at <= size[i] /\ at + n <= MAXFILE * BSIZE
      /\ Extends(Disk(i), e)
      /\ used' = e.used /\ ptr' = e.ptr /\ addrs' = [addrs EXCEPT ![i] = e.addrs]
      /\ data' = Copied(e, at, done, c).data /\ daddrs' = [daddrs EXCEPT ![i] = e.addrs]
      /\ off' \in [File -> Nat]
      /\ ctx' \in [Writer -> {Idle} \cup [file : File, left : Nat \ {0}]]
  BY DEF Wrote
<1>13. PICK W : LogsAll(W)
  BY DEF Wrote
<1>2. \A bn \in at \div BSIZE..LastByte(at, n, done) \div BSIZE : Mapped(e, bn) # 0
  BY DEF Wrote
<1>3. e \in State
  BY <1>1 DEF Extends
<1>4. /\ addrs \in AddrsType /\ daddrs \in AddrsType /\ ptr \in PtrType /\ used \in SUBSET Block
      /\ size \in [Inum -> 0..MAXFILE * BSIZE] /\ byLbn \in SUBSET Block
  BY <1>0, TypesOf
<1>5. /\ size' \in [Inum -> 0..MAXFILE * BSIZE]
      /\ size'[i] = Larger(size[i], Reached(at, n, done))
      /\ \A j \in Inum : j # i => size'[j] = size[j]
  BY WroteSize
<1>6. BlocksTypes'
  <2>1. /\ e.used \in SUBSET Block /\ e.ptr \in PtrType
        /\ e.addrs \in [0..NDIRECT -> Block \cup {0}]
    BY <1>3, StateFields DEF PtrType
  <2>2. addrs' \in AddrsType /\ daddrs' \in AddrsType
    BY <1>1, <1>4, <2>1 DEF AddrsType
  <2>3. data' \in [Block -> [0..BSIZE - 1 -> Byte]]
    BY <1>1, <1>3, CopiedFields
  <2>4. kept' \in [Block -> [0..BSIZE - 1 -> Byte]]
    BY <1>0, <1>13, <2>3, LogsTyped
  <2> QED
    BY <1>1, <1>4, <1>5, <2>1, <2>2, <2>3, <2>4 DEF BlocksTypes, BlocksTypeOK, AddrsType, PtrType
<1>7. Gives(i, addrs, ptr, used, e)
  BY WroteGives
<1>8. Apart(addrs', ptr', used')
  BY <1>0, <1>1, <1>4, <1>7, GivesApart
<1>9. Accounted(addrs', ptr', used', byLbn')
  <2>1. /\ i \in Inum /\ addrs \in AddrsType /\ ptr \in PtrType /\ used \in SUBSET Block
        /\ Apart(addrs, ptr, used) /\ Accounted(addrs, ptr, used, byLbn)
    BY <1>0, <1>1, <1>4
  <2>2. Accounted([addrs EXCEPT ![i] = e.addrs], e.ptr, e.used, byLbn)
    BY <1>7, <2>1, GivesAccounted
  <2> QED
    BY <1>1, <2>2
<1>10. Saved(addrs', daddrs', ptr', byLbn')
  BY <1>0, <1>1, <1>4, <1>7, WriteSaves
<1>11. \A bn \in 0..MAXFILE - 1 : bn * BSIZE < size'[i] => bn * BSIZE < size[i] \/ Mapped(e, bn) # 0
  <2> SUFFICES ASSUME NEW bn \in 0..MAXFILE - 1, bn * BSIZE < size'[i], ~(bn * BSIZE < size[i])
               PROVE  Mapped(e, bn) # 0
    OBVIOUS
  <2>1. bn \in Nat /\ bn * BSIZE \in Nat /\ size[i] \in Nat
    BY <1>1, <1>4, BlockConstants
  <2>2. bn * BSIZE < Reached(at, n, done)
    BY <1>5, <2>1 DEF Larger
  <2>3. ~(bn * BSIZE < at)
    BY <1>1, <2>1
  <2>4. bn \in at \div BSIZE..LastByte(at, n, done) \div BSIZE
    BY <1>1, <2>1, <2>2, <2>3, ReachedBlocks
  <2> QED
    BY <1>2, <2>4
<1>12. NoHole(daddrs', ptr', size')
  <2>0. Fills(i, e, size, size')
    BY <1>5, <1>11 DEF Fills
  <2>1. NoHole([daddrs EXCEPT ![i] = e.addrs], e.ptr, size')
    <3>1. /\ i \in Inum /\ addrs \in AddrsType /\ daddrs \in AddrsType
          /\ ptr \in PtrType /\ used \in SUBSET Block
      BY <1>1, <1>4
    <3>2. /\ Apart(addrs, ptr, used) /\ Saved(addrs, daddrs, ptr, byLbn)
          /\ NoHole(daddrs, ptr, size)
      BY <1>0
    <3> QED
      BY <1>7, <2>0, <3>1, <3>2, WriteFills
  <2> QED
    BY <1>1, <2>1
<1> QED
  BY <1>6, <1>8, <1>9, <1>10, <1>12 DEF BlocksInductive, Apart, Accounted, Saved, NoHole

LEMMA WriteKeeps ==
  ASSUME BlocksInductive, NEW p \in Writer, writei(p)
  PROVE  BlocksInductive'
<1>1. /\ byLbn' = byLbn
      /\ \/ UNCHANGED <<disk, logVars, addrs, size, daddrs, off, ctx>>
         \/ \E i, at, n, done, c, e : Wrote(i, at, n, done, c, e)
  BY WriteCases
<1>2. CASE UNCHANGED <<disk, logVars, addrs, size, daddrs, off, ctx>>
  BY <1>1, <1>2
     DEF BlocksInductive, BlocksTypes, BlocksTypeOK, Apart, Accounted, Saved, NoHole, disk, logVars
<1>3. CASE \E i, at, n, done, c, e : Wrote(i, at, n, done, c, e)
  BY <1>1, <1>3, WroteKeeps
<1> QED
  BY <1>1, <1>2, <1>3

-----------------------------------------------------------------------------
(* The other actions *)

\* More blocks that get_disk_lbn() has allocated account for no less.
LEMMA LbnMore ==
  ASSUME NEW A, NEW Z, NEW P, NEW U, NEW L, NEW M, L \subseteq M,
         Accounted(A, P, U, L), Saved(A, Z, P, L)
  PROVE  Accounted(A, P, U, M) /\ Saved(A, Z, P, M)
<1>1. Accounted(A, P, U, M)
  BY DEF Accounted
<1>2. Saved(A, Z, P, M)
  BY DEF Saved
<1> QED
  BY <1>1, <1>2

\* What sys_get_disk_lbn() leaves behind: what bmap() made of the disk, or as it was.
Located(i, e) ==
  /\ i \in Inum /\ e \in State /\ byLbn' = byLbn \cup (e.used \ used)
  /\ \/ UNCHANGED <<disk, addrs, kept>>
     \/ /\ Extends(Disk(i), e) /\ e.panic = "none"
        /\ used' = e.used /\ data' = e.data /\ ptr' = e.ptr
        /\ addrs' = [addrs EXCEPT ![i] = e.addrs]
        /\ LogsAll(used' \ used)
  /\ UNCHANGED <<fault, size, daddrs, off, ctx>>

LEMMA LbnCases ==
  ASSUME BlocksInductive, NEW f \in File, sys_get_disk_lbn(f)
  PROVE  \E i, e : Located(i, e)
<1> DEFINE i == InodeOf[f]
<1>0. BlocksTypes /\ Apart(addrs, ptr, used)
  BY DEF BlocksInductive
<1>1. i \in Inum
  BY BlockConstants
<1>2. Running /\ UNCHANGED <<fault, size, daddrs, off, ctx>> /\ Logs({})
  BY DEF sys_get_disk_lbn
<1>3. PICK bn \in 0..MAXFILE :
        LET d == bmap(Disk(i), bn) IN
        /\ byLbn' = byLbn \cup (d.used \ used)
        /\ \/ d.panic = "none" /\ d # Disk(i) /\ panic' = "log_write outside of trans"
              /\ UNCHANGED <<disk, addrs>>
           \/ Leaves(i, d)
  BY Zenon DEF sys_get_disk_lbn
<1> DEFINE e == bmap(Disk(i), bn)
<1>4. Disk(i) \in State /\ Disk(i).panic = "none" /\ Whole(Disk(i))
  BY <1>0, <1>1, <1>2, DiskState, DiskWhole
<1>5. /\ byLbn' = byLbn \cup (e.used \ used)
      /\ (UNCHANGED <<disk, addrs>> /\ panic' # "none") \/ Leaves(i, e)
  <2>1. "log_write outside of trans" # "none"
    OBVIOUS
  <2> QED
    BY <1>3, <2>1, Zenon
<1>6. e \in State /\ (e.panic = "none" => Extends(Disk(i), e))
  <2>1. CASE bn = MAXFILE
    <3>1. e.panic # "none" /\ e \in State
      BY <1>4, <2>1, BmapOutOfRange
    <3> QED
      BY <3>1
  <2>2. CASE bn # MAXFILE
    <3>1. bn \in 0..MAXFILE - 1
      BY <2>2, BlockConstants
    <3>2. Extends(Disk(i), e)
      BY <1>4, <3>1, BmapMaps
    <3> QED
      BY <3>2 DEF Extends
  <2> QED
    BY <2>1, <2>2
<1> HIDE DEF e, i
<1>9. \/ UNCHANGED <<disk, addrs>> /\ panic' # "none"
      \/ /\ Extends(Disk(i), e) /\ e.panic = "none" /\ panic' = "none"
         /\ used' = e.used /\ data' = e.data /\ ptr' = e.ptr
         /\ addrs' = [addrs EXCEPT ![i] = e.addrs]
  BY <1>5, <1>6 DEF Leaves
<1>10. IF panic' # "none" THEN kept' = kept ELSE LogsAll(used' \ used)
  BY <1>2 DEF Logs, LogsAll
<1>7. \/ UNCHANGED <<disk, addrs, kept>>
      \/ /\ Extends(Disk(i), e) /\ e.panic = "none"
         /\ used' = e.used /\ data' = e.data /\ ptr' = e.ptr
         /\ addrs' = [addrs EXCEPT ![i] = e.addrs]
         /\ LogsAll(used' \ used)
  BY <1>9, <1>10
<1>8. Located(i, e)
  BY <1>1, <1>2, <1>5, <1>6, <1>7 DEF Located
<1> QED
  BY <1>8

LEMMA LocatedGives ==
  ASSUME NEW i, NEW e, Extends(Disk(i), e), e.panic = "none"
  PROVE  Gives(i, addrs, ptr, used, e)
<1>1. e \in State /\ Whole(e) /\ Grown(Disk(i), e)
  BY DEF Extends
<1>2. Disk(i).addrs = addrs[i] /\ Disk(i).ptr = ptr /\ Disk(i).used = used
  BY DiskFields
<1> QED
  BY <1>1, <1>2, GrownGives

LEMMA LocatedKeeps ==
  ASSUME BlocksInductive, NEW i, NEW e, Located(i, e)
  PROVE  BlocksInductive'
<1>0. /\ BlocksTypes /\ Apart(addrs, ptr, used) /\ Accounted(addrs, ptr, used, byLbn)
      /\ Saved(addrs, daddrs, ptr, byLbn) /\ NoHole(daddrs, ptr, size)
  BY DEF BlocksInductive
<1>1. /\ i \in Inum /\ e \in State /\ byLbn' = byLbn \cup (e.used \ used)
      /\ size' = size /\ daddrs' = daddrs /\ off' = off /\ ctx' = ctx
  BY DEF Located
<1>2. /\ addrs \in AddrsType /\ daddrs \in AddrsType /\ ptr \in PtrType /\ used \in SUBSET Block
      /\ byLbn \in SUBSET Block /\ data \in [Block -> [0..BSIZE - 1 -> Byte]]
  BY <1>0, TypesOf
<1>3. e.used \subseteq Block /\ e.ptr \in PtrType /\ e.data \in [Block -> [0..BSIZE - 1 -> Byte]]
      /\ e.addrs \in [0..NDIRECT -> Block \cup {0}]
  BY <1>1, StateFields DEF PtrType
<1>4. byLbn' \in SUBSET Block /\ byLbn \subseteq byLbn'
  BY <1>1, <1>2, <1>3
<1>5. CASE UNCHANGED <<disk, addrs, kept>>
  <2>1. used' = used /\ data' = data /\ ptr' = ptr /\ addrs' = addrs /\ kept' = kept
    BY <1>5 DEF disk
  <2>2. BlocksTypes'
    BY <1>0, <1>1, <1>4, <2>1 DEF BlocksTypes, BlocksTypeOK
  <2>3. Accounted(addrs, ptr, used, byLbn') /\ Saved(addrs, daddrs, ptr, byLbn')
    BY <1>0, <1>4, LbnMore
  <2> QED
    BY <1>0, <1>1, <2>1, <2>2, <2>3
       DEF BlocksInductive, Apart, Accounted, Saved, NoHole
<1>6. CASE /\ Extends(Disk(i), e) /\ e.panic = "none"
           /\ used' = e.used /\ data' = e.data /\ ptr' = e.ptr
           /\ addrs' = [addrs EXCEPT ![i] = e.addrs]
           /\ LogsAll(used' \ used)
  <2>1. Gives(i, addrs, ptr, used, e)
    BY <1>6, LocatedGives
  <2>2. BlocksTypes'
    <3>1. addrs' \in AddrsType
      BY <1>1, <1>2, <1>3, <1>6 DEF AddrsType
    <3>2. kept' \in [Block -> [0..BSIZE - 1 -> Byte]]
      BY <1>0, <1>3, <1>6, LogsTyped
    <3> QED
      BY <1>0, <1>1, <1>3, <1>4, <1>6, <3>1, <3>2
         DEF BlocksTypes, BlocksTypeOK, AddrsType, PtrType
  <2>3. Apart(addrs', ptr', used')
    BY <1>0, <1>1, <1>2, <1>6, <2>1, GivesApart
  <2>4. Accounted([addrs EXCEPT ![i] = e.addrs], e.ptr, e.used, byLbn')
    <3>1. /\ i \in Inum /\ addrs \in AddrsType /\ ptr \in PtrType /\ used \in SUBSET Block
          /\ Apart(addrs, ptr, used) /\ Accounted(addrs, ptr, used, byLbn)
      BY <1>0, <1>1, <1>2
    <3>2. Accounted([addrs EXCEPT ![i] = e.addrs], e.ptr, e.used, byLbn)
      BY <2>1, <3>1, GivesAccounted
    <3> QED
      BY <1>4, <3>2 DEF Accounted
  <2>5. Saved([addrs EXCEPT ![i] = e.addrs], daddrs, e.ptr, byLbn \cup (e.used \ used))
    BY <1>0, <1>1, <1>2, <2>1, LbnSaves
  <2>6. NoHole(daddrs, e.ptr, size)
    BY <1>0, <1>1, <1>2, <2>1, LbnFills
  <2> QED
    BY <1>1, <1>6, <2>2, <2>3, <2>4, <2>5, <2>6
       DEF BlocksInductive, Apart, Accounted, Saved, NoHole
<1> QED
  BY <1>5, <1>6 DEF Located

LEMMA TruncKeeps ==
  ASSUME BlocksInductive, NEW i \in Inum, itrunc(i)
  PROVE  BlocksInductive'
<1> DEFINE F == InMap(Disk(i))
<1>0. /\ BlocksTypes /\ Apart(addrs, ptr, used) /\ Accounted(addrs, ptr, used, byLbn)
      /\ Saved(addrs, daddrs, ptr, byLbn) /\ NoHole(daddrs, ptr, size)
  BY DEF BlocksInductive
<1>1. /\ used' = used \ F /\ addrs' = [addrs EXCEPT ![i] = NoAddrs]
      /\ daddrs' = [daddrs EXCEPT ![i] = NoAddrs] /\ size' = [size EXCEPT ![i] = 0]
      /\ data' = [b \in Block |-> IF b \in F THEN NoBytes ELSE data[b]]
      /\ kept' = [b \in Block |-> IF b \in F THEN NoBytes ELSE kept[b]]
      /\ ptr' = ptr /\ off' = off /\ ctx' = ctx /\ byLbn' = byLbn
  BY DEF itrunc
<1>2. /\ addrs \in AddrsType /\ daddrs \in AddrsType /\ ptr \in PtrType /\ used \in SUBSET Block
      /\ byLbn \in SUBSET Block /\ data \in [Block -> [0..BSIZE - 1 -> Byte]]
      /\ kept \in [Block -> [0..BSIZE - 1 -> Byte]]
      /\ size \in [Inum -> 0..MAXFILE * BSIZE]
  BY <1>0, TypesOf
<1>3. Freed(i, addrs, ptr, F)
  BY <1>0, InMapIs DEF Freed
<1> HIDE DEF F
<1>4. 0 \in 0..MAXFILE * BSIZE /\ MAXFILE * BSIZE \in Nat
  BY BlockConstants
<1>5. BlocksTypes'
  <2>1. used' \in SUBSET Block /\ byLbn' \in SUBSET Block
    BY <1>1, <1>2
  <2>2. /\ data' \in [Block -> [0..BSIZE - 1 -> Byte]]
        /\ kept' \in [Block -> [0..BSIZE - 1 -> Byte]]
    BY <1>1, <1>2, EmptyBlocks
  <2>3. addrs' \in AddrsType /\ daddrs' \in AddrsType
    BY <1>1, <1>2, EmptyBlocks DEF AddrsType
  <2>4. size' \in [Inum -> 0..MAXFILE * BSIZE]
    BY <1>1, <1>2, <1>4
  <2> QED
    BY <1>0, <1>1, <1>2, <2>1, <2>2, <2>3, <2>4
       DEF BlocksTypes, BlocksTypeOK, AddrsType, PtrType
<1>6. Apart([addrs EXCEPT ![i] = NoAddrs], ptr, used \ F)
      /\ Accounted([addrs EXCEPT ![i] = NoAddrs], ptr, used \ F, byLbn)
  BY <1>0, <1>2, <1>3, TruncApart
<1>7. size \in [Inum -> Nat]
  BY <1>2, <1>4
<1>8. /\ Saved([addrs EXCEPT ![i] = NoAddrs], [daddrs EXCEPT ![i] = NoAddrs], ptr, byLbn)
      /\ NoHole([daddrs EXCEPT ![i] = NoAddrs], ptr, [size EXCEPT ![i] = 0])
  BY <1>0, <1>2, <1>7, TruncSaved
<1> QED
  BY <1>1, <1>5, <1>6, <1>8 DEF BlocksInductive, Apart, Accounted, Saved, NoHole

LEMMA ReopenKeeps ==
  ASSUME BlocksInductive, NEW i \in Inum, Reopen(i)
  PROVE  BlocksInductive'
<1>0. /\ BlocksTypes /\ Apart(addrs, ptr, used) /\ Accounted(addrs, ptr, used, byLbn)
      /\ Saved(addrs, daddrs, ptr, byLbn) /\ NoHole(daddrs, ptr, size)
  BY DEF BlocksInductive
<1>1. /\ addrs' = [addrs EXCEPT ![i] = daddrs[i]]
      /\ off' = [f \in File |-> IF InodeOf[f] = i THEN 0 ELSE off[f]]
      /\ used' = used /\ data' = data /\ ptr' = ptr /\ size' = size /\ daddrs' = daddrs
      /\ ctx' = ctx /\ byLbn' = byLbn /\ kept' = kept
  BY DEF Reopen, disk, logVars
<1>2. addrs \in AddrsType /\ daddrs \in AddrsType /\ off \in [File -> Nat]
  BY <1>0, TypesOf
<1>3. BlocksTypes'
  <2>1. addrs' \in AddrsType /\ off' \in [File -> Nat]
    BY <1>1, <1>2 DEF AddrsType
  <2> QED
    BY <1>0, <1>1, <2>1 DEF BlocksTypes, BlocksTypeOK, AddrsType
<1>4. /\ Apart(addrs', ptr, used) /\ Accounted(addrs', ptr, used, byLbn)
      /\ Saved(addrs', daddrs, ptr, byLbn)
  BY <1>0, <1>1, <1>2, ReopenApart
<1> QED
  BY <1>0, <1>1, <1>3, <1>4 DEF BlocksInductive, Apart, Accounted, Saved, NoHole

LEMMA RecycleKeeps ==
  ASSUME BlocksInductive, NEW b \in Block, Recycle(b)
  PROVE  BlocksInductive'
<1>1. /\ data' = [data EXCEPT ![b] = kept[b]]
      /\ used' = used /\ ptr' = ptr /\ addrs' = addrs /\ kept' = kept
      /\ size' = size /\ daddrs' = daddrs /\ off' = off /\ ctx' = ctx /\ byLbn' = byLbn
  BY DEF Recycle, logVars
<1>2. /\ data \in [Block -> [0..BSIZE - 1 -> Byte]] /\ kept \in [Block -> [0..BSIZE - 1 -> Byte]]
  BY TypesOf DEF BlocksInductive
<1>3. data' \in [Block -> [0..BSIZE - 1 -> Byte]]
  BY <1>1, <1>2
<1> QED
  BY <1>1, <1>3 DEF BlocksInductive, BlocksTypes, BlocksTypeOK, Apart, Accounted, Saved, NoHole

\* bmap() finds every block of the bytes that fileread() reads.
LEMMA ReadFinds ==
  ASSUME BlocksInductive, Running, NEW i \in Inum, NEW at \in Nat, NEW end \in Nat,
         at < end, end <= size[i]
  PROVE  bmapAll(Disk(i), at \div BSIZE, (end - 1) \div BSIZE) = Disk(i)
<1>0. /\ BlocksTypes /\ Apart(addrs, ptr, used) /\ Saved(addrs, daddrs, ptr, byLbn)
      /\ NoHole(daddrs, ptr, size)
  BY DEF BlocksInductive
<1>1. Disk(i) \in State /\ Disk(i).panic = "none" /\ Whole(Disk(i))
  BY <1>0, DiskState, DiskWhole
<1>2. size[i] \in 0..MAXFILE * BSIZE /\ MAXFILE * BSIZE \in Nat
  BY <1>0, TypesOf, BlockConstants
<1>3. end - 1 \in Nat /\ end - 1 < MAXFILE * BSIZE /\ at <= end - 1
  BY <1>2
<1> DEFINE first == at \div BSIZE
           last == (end - 1) \div BSIZE
<1>4. /\ first \in Nat /\ last \in 0..MAXFILE - 1 /\ first <= last
      /\ last * BSIZE <= end - 1
  BY <1>3, BlockOf, BlockInFile, BlockMonotone, BlockConstants
<1> HIDE DEF first, last
<1>5. ASSUME NEW bn \in first..last PROVE Mapped(Disk(i), bn) # 0
  <2>1. bn \in 0..MAXFILE - 1 /\ bn \in Nat /\ last \in Nat
    BY <1>4, BlockConstants
  <2>2. bn * BSIZE <= last * BSIZE /\ bn * BSIZE \in Nat /\ last * BSIZE \in Nat
    <3>1. CASE bn = last
      BY <2>1, <3>1, BlockConstants
    <3>2. CASE bn < last
      BY <2>1, <3>2, BlockOrder, BlockConstants
    <3> QED
      BY <1>4, <2>1, <3>1, <3>2
  <2>3. bn * BSIZE < size[i]
    BY <1>2, <1>3, <1>4, <2>2
  <2>4. Addr(daddrs[i], ptr, SpotOf(bn)) # 0
    BY <1>0, <2>1, <2>3 DEF NoHole
  <2>5. SpotOf(bn) \in Spot /\ Mapped(Disk(i), bn) = Addr(addrs[i], ptr, SpotOf(bn))
    BY <2>1, MappedAt, DiskFields
  <2> QED
    BY <1>0, <2>4, <2>5 DEF Saved
<1>6. last \in Nat /\ last < MAXFILE
  BY <1>4, BlockConstants
<1>7. bmapAll(Disk(i), first, last) = Disk(i)
  BY <1>1, <1>4, <1>5, <1>6, BmapAllKeeps
<1> QED
  BY <1>7 DEF first, last

LEMMA ReadKeeps ==
  ASSUME BlocksInductive, NEW f \in File, fileread(f)
  PROVE  BlocksInductive' /\ panic' = "none" /\ UNCHANGED <<disk, logVars, addrs, size>>
<1> DEFINE i == InodeOf[f]
<1>0. BlocksTypes
  BY DEF BlocksInductive
<1>1. Running /\ off[f] < size[i] /\ UNCHANGED <<logVars, size, daddrs, ctx, byLbn, calls>>
  BY DEF fileread
<1>2. PICK n \in 1..MaxBytes :
        LET end == IF off[f] + n > size[i] THEN size[i] ELSE off[f] + n
            d == bmapAll(Disk(i), off[f] \div BSIZE, (end - 1) \div BSIZE)
        IN /\ IF d = Disk(i) THEN UNCHANGED <<disk, addrs, panic>>
              ELSE panic' = "log_write outside of trans" /\ UNCHANGED <<disk, addrs>>
           /\ off' = [off EXCEPT ![f] = end]
  BY Zenon DEF fileread
<1> DEFINE end == IF off[f] + n > size[i] THEN size[i] ELSE off[f] + n
           d == bmapAll(Disk(i), off[f] \div BSIZE, (end - 1) \div BSIZE)
<1>3. /\ IF d = Disk(i) THEN UNCHANGED <<disk, addrs, panic>>
         ELSE panic' = "log_write outside of trans" /\ UNCHANGED <<disk, addrs>>
      /\ off' = [off EXCEPT ![f] = end]
  BY <1>2, Zenon
<1>4. i \in Inum /\ off[f] \in Nat /\ size[i] \in Nat
  BY <1>0, TypesOf, BlockConstants
<1>5. end \in Nat /\ off[f] < end /\ end <= size[i]
  BY <1>1, <1>4, BlockConstants
<1> HIDE DEF end
<1>6. d = Disk(i)
  BY <1>1, <1>4, <1>5, ReadFinds
<1> HIDE DEF d, i
<1>7. /\ used' = used /\ data' = data /\ ptr' = ptr /\ addrs' = addrs /\ panic' = panic
      /\ size' = size /\ daddrs' = daddrs /\ ctx' = ctx /\ byLbn' = byLbn
      /\ kept' = kept /\ fault' = fault
  BY <1>1, <1>3, <1>6 DEF disk, logVars
<1>8. off' \in [File -> Nat]
  BY <1>0, <1>3, <1>5, TypesOf
<1>9. BlocksInductive'
  BY <1>7, <1>8 DEF BlocksInductive, BlocksTypes, BlocksTypeOK, Apart, Accounted, Saved, NoHole
<1> QED
  BY <1>1, <1>7, <1>9 DEF Running, disk, logVars

LEMMA CallKeeps ==
  ASSUME BlocksInductive, NEW p \in Writer,
         (\E f \in File : filewrite(p, f)) \/ WriteRefused(p)
  PROVE  BlocksInductive'
<1>0. ctx \in [Writer -> {Idle} \cup [file : File, left : Nat \ {0}]]
  BY TypesOf DEF BlocksInductive
<1>1. /\ used' = used /\ data' = data /\ ptr' = ptr /\ addrs' = addrs
      /\ size' = size /\ daddrs' = daddrs /\ off' = off /\ byLbn' = byLbn /\ kept' = kept
  BY DEF filewrite, WriteRefused, disk, logVars
<1>2. ctx' \in [Writer -> {Idle} \cup [file : File, left : Nat \ {0}]]
  <2>1. CASE \E f \in File : filewrite(p, f)
    <3>1. PICK f \in File, n \in 1..MaxBytes : ctx' = [ctx EXCEPT ![p] = [file |-> f, left |-> n]]
      BY <2>1 DEF filewrite
    <3>2. n \in Nat \ {0}
      BY BlockConstants
    <3> QED
      BY <1>0, <3>1, <3>2
  <2>2. CASE WriteRefused(p)
    BY <1>0, <2>2 DEF WriteRefused
  <2> QED
    BY <2>1, <2>2
<1> QED
  BY <1>1, <1>2 DEF BlocksInductive, BlocksTypes, BlocksTypeOK, Apart, Accounted, Saved, NoHole

LEMMA BlocksInitInductive ==
  ASSUME BlocksInit
  PROVE  BlocksInductive
<1>1. BlocksTypes
  <2>1. 0 \in 0..MAXFILE * BSIZE
    BY BlockConstants
  <2> QED
    BY <2>1, EmptyBlocks, BlockConstants DEF BlocksInit, BlocksTypes, BlocksTypeOK, AddrsType
<1>2. \A i \in Inum, n \in Spot : Addr(addrs[i], ptr, n) = 0 /\ Addr(daddrs[i], ptr, n) = 0
  <2>1. \A i \in Inum : addrs[i] = NoAddrs /\ daddrs[i] = NoAddrs
    BY DEF BlocksInit
  <2> QED
    BY <2>1, NoAddrsAddr
<1>3. Apart(addrs, ptr, used) /\ Accounted(addrs, ptr, used, byLbn) /\ Saved(addrs, daddrs, ptr, byLbn)
  BY <1>2 DEF BlocksInit, Apart, Accounted, Saved
<1>4. NoHole(daddrs, ptr, size)
  <2>1. \A bn \in 0..MAXFILE - 1 : bn * BSIZE >= 0
    BY BlockConstants
  <2>2. \A i \in Inum : size[i] = 0
    BY DEF BlocksInit
  <2> QED
    BY <2>1, <2>2, BlockConstants DEF NoHole
<1> QED
  BY <1>1, <1>3, <1>4 DEF BlocksInductive

LEMMA BlocksNextInductive ==
  ASSUME BlocksInductive, [BlocksNext]_blockVars
  PROVE  BlocksInductive'
<1>1. CASE UNCHANGED blockVars
  BY <1>1 DEF blockVars, disk, logVars, BlocksInductive, BlocksTypes, BlocksTypeOK, Apart, Accounted, Saved, NoHole
<1>2. CASE \E p \in Writer : (\E f \in File : filewrite(p, f)) \/ WriteRefused(p)
  BY <1>2, CallKeeps
<1>3. CASE \E p \in Writer : writei(p)
  BY <1>3, WriteKeeps
<1>4. CASE \E f \in File : fileread(f)
  BY <1>4, ReadKeeps
<1>5. CASE \E f \in File : sys_get_disk_lbn(f)
  BY <1>5, LbnCases, LocatedKeeps
<1>6. CASE \E i \in Inum : itrunc(i)
  BY <1>6, TruncKeeps
<1>7. CASE \E i \in Inum : Reopen(i)
  BY <1>7, ReopenKeeps
<1>8. CASE \E b \in Block : Recycle(b)
  BY <1>8, RecycleKeeps
<1> QED
  BY <1>1, <1>2, <1>3, <1>4, <1>5, <1>6, <1>7, <1>8 DEF BlocksNext

-----------------------------------------------------------------------------
(* What follows from the invariant *)

LEMMA BlocksInvariant == BlocksSpec => []BlocksInductive
<1>1. BlocksInit => BlocksInductive
  BY BlocksInitInductive
<1>2. BlocksInductive /\ [BlocksNext]_blockVars => BlocksInductive'
  BY BlocksNextInductive
<1> QED
  BY <1>1, <1>2, PTL DEF BlocksSpec

\* The place that stands for a spot of an inode.
Tag(i, n) == IF n \in 0..NDIRECT THEN <<i, "addr", n>> ELSE <<i, "ptr", n - NDIRECT - 1>>
AllPlaces == UNION {PlacesOf(i) : i \in Inum}

LEMMA TagPlace ==
  ASSUME NEW i \in Inum, NEW n \in Spot, Addr(addrs[i], ptr, n) # 0
  PROVE  Tag(i, n) \in AllPlaces /\ BlockAt(Tag(i, n)) = Addr(addrs[i], ptr, n)
<1>1. CASE n \in 0..NDIRECT
  <2>1. Addr(addrs[i], ptr, n) = addrs[i][n]
    BY <1>1, BlockConstants DEF Addr
  <2>2. <<i, "addr", n>> \in PlacesOf(i)
    BY <1>1, <2>1 DEF PlacesOf
  <2> QED
    BY <1>1, <2>1, <2>2 DEF AllPlaces, Tag, BlockAt
<1>2. CASE n \notin 0..NDIRECT
  <2>1. PICK k \in 0..NINDIRECT - 1 : n = NDIRECT + 1 + k
    BY <1>2, SpotKinds
  <2>2. k = n - NDIRECT - 1 /\ ~(n <= NDIRECT)
    BY <2>1, BlockConstants
  <2>3. addrs[i][NDIRECT] # 0 /\ Addr(addrs[i], ptr, n) = ptr[addrs[i][NDIRECT]][k]
    BY <2>2 DEF Addr
  <2>4. <<i, "ptr", k>> \in PlacesOf(i)
    BY <2>3 DEF PlacesOf
  <2>5. Tag(i, n) = <<i, "ptr", k>>
    BY <1>2, <2>2 DEF Tag
  <2> QED
    BY <2>3, <2>4, <2>5 DEF AllPlaces, BlockAt
<1> QED
  BY <1>1, <1>2

LEMMA PlaceTag ==
  ASSUME NEW x \in AllPlaces
  PROVE  \E i \in Inum, n \in Spot :
           x = Tag(i, n) /\ Addr(addrs[i], ptr, n) # 0 /\ BlockAt(x) = Addr(addrs[i], ptr, n)
<1>1. PICK i \in Inum : x \in PlacesOf(i)
  BY DEF AllPlaces
<1>2. CASE \E k \in 0..NDIRECT : x = <<i, "addr", k>> /\ addrs[i][k] # 0
  <2>1. PICK k \in 0..NDIRECT : x = <<i, "addr", k>> /\ addrs[i][k] # 0
    BY <1>2
  <2>2. k \in Spot /\ Addr(addrs[i], ptr, k) = addrs[i][k] /\ x = Tag(i, k)
    BY <2>1, BlockConstants DEF Spot, Addr, Tag
  <2>3. BlockAt(x) = addrs[i][k]
    BY <2>1 DEF BlockAt
  <2> QED
    BY <2>1, <2>2, <2>3
<1>3. CASE \E k \in 0..NINDIRECT - 1 :
             x = <<i, "ptr", k>> /\ addrs[i][NDIRECT] # 0 /\ ptr[addrs[i][NDIRECT]][k] # 0
  <2>1. PICK k \in 0..NINDIRECT - 1 :
          x = <<i, "ptr", k>> /\ addrs[i][NDIRECT] # 0 /\ ptr[addrs[i][NDIRECT]][k] # 0
    BY <1>3
  <2> DEFINE n == NDIRECT + 1 + k
  <2>2. n \in Spot /\ n \notin 0..NDIRECT /\ n - NDIRECT - 1 = k /\ ~(n <= NDIRECT)
    BY BlockConstants DEF Spot
  <2> HIDE DEF n
  <2>3. Addr(addrs[i], ptr, n) = ptr[addrs[i][NDIRECT]][k] /\ x = Tag(i, n)
    BY <2>1, <2>2 DEF Addr, Tag
  <2>4. BlockAt(x) = ptr[addrs[i][NDIRECT]][k]
    BY <2>1 DEF BlockAt
  <2> QED
    BY <2>1, <2>2, <2>3, <2>4
<1> QED
  BY <1>1, <1>2, <1>3 DEF PlacesOf

LEMMA BitmapFollows ==
  ASSUME BlocksInductive
  PROVE  BitmapExact
<1>0. /\ BlocksTypes /\ Apart(addrs, ptr, used) /\ Accounted(addrs, ptr, used, byLbn)
  BY DEF BlocksInductive
<1>1. {BlockAt(x) : x \in AllPlaces} \subseteq used
  <2> SUFFICES ASSUME NEW x \in AllPlaces PROVE BlockAt(x) \in used
    OBVIOUS
  <2>1. PICK i \in Inum, n \in Spot :
          Addr(addrs[i], ptr, n) # 0 /\ BlockAt(x) = Addr(addrs[i], ptr, n)
    BY PlaceTag
  <2> QED
    BY <1>0, <2>1 DEF Apart
<1>2. used \subseteq {BlockAt(x) : x \in AllPlaces} \union byLbn
  <2> SUFFICES ASSUME NEW b \in used, b \notin byLbn PROVE \E x \in AllPlaces : BlockAt(x) = b
    OBVIOUS
  <2>1. PICK i \in Inum, n \in Spot : Addr(addrs[i], ptr, n) = b
    BY <1>0 DEF Accounted
  <2>2. b # 0
    BY <1>0, TypesOf, BlockConstants
  <2>3. Tag(i, n) \in AllPlaces /\ BlockAt(Tag(i, n)) = b
    BY <2>1, <2>2, TagPlace
  <2> QED
    BY <2>3
<1>3. ASSUME NEW x \in AllPlaces, NEW y \in AllPlaces, BlockAt(x) = BlockAt(y)
      PROVE  x = y
  <2>1. PICK i \in Inum, m \in Spot :
          x = Tag(i, m) /\ Addr(addrs[i], ptr, m) # 0 /\ BlockAt(x) = Addr(addrs[i], ptr, m)
    BY PlaceTag
  <2>2. PICK j \in Inum, n \in Spot :
          y = Tag(j, n) /\ Addr(addrs[j], ptr, n) # 0 /\ BlockAt(y) = Addr(addrs[j], ptr, n)
    BY PlaceTag
  <2>3. i = j /\ m = n
    BY <1>0, <1>3, <2>1, <2>2 DEF Apart
  <2> QED
    BY <2>1, <2>2, <2>3
<1> QED
  BY <1>0, <1>1, <1>2, <1>3 DEF BitmapExact, AllPlaces, BlocksTypes

\* The bitmap and the inodes agree whatever is written, cut off and read again: a
\* block is marked used if and only if one file has it, in one place, the blocks
\* excepted that get_disk_lbn() allocated and an evicted inode forgot.
THEOREM BlocksAccounted == BlocksSpec => []BitmapExact
<1>1. BlocksInductive => BitmapExact
  BY BitmapFollows
<1> QED
  BY <1>1, BlocksInvariant, PTL

\* fileread() never makes bmap() allocate: there is no hole below the size of a file,
\* after writes that stopped inside a chunk and evictions of the inode.
THEOREM ReadsAllocateNothing == BlocksSpec => ReadsNeverAllocate
<1>1. BlocksInductive => [\A f \in File : fileread(f) => panic' = "none"]_blockVars
  BY ReadKeeps
<1> QED
  BY <1>1, BlocksInvariant, PTL DEF ReadsNeverAllocate

-----------------------------------------------------------------------------
(* The bytes of files *)

\* The bytes of an inode with addresses a, indirect blocks P, blocks D and size s.
BytesOf(a, P, D, s) ==
  [k \in 1..s |-> D[Addr(a, P, SpotOf((k - 1) \div BSIZE))][(k - 1) % BSIZE]]
Files(A, P, D, S) == [i \in Inum |-> BytesOf(A[i], P, D, S[i])]

LEMMA BytesLen ==
  ASSUME NEW a, NEW P, NEW D, NEW s \in Nat
  PROVE  Len(BytesOf(a, P, D, s)) = s
  BY DEF BytesOf

\* Where byte k is.
LEMMA BytePlace ==
  ASSUME NEW s \in 0..MAXFILE * BSIZE, NEW k \in 1..s
  PROVE  /\ (k - 1) \div BSIZE \in 0..MAXFILE - 1 /\ (k - 1) % BSIZE \in 0..BSIZE - 1
         /\ ((k - 1) \div BSIZE) * BSIZE < s
         /\ SpotOf((k - 1) \div BSIZE) \in Spot
<1>0. MAXFILE * BSIZE \in Nat
  BY BlockConstants
<1>1. k - 1 \in Nat /\ k - 1 < MAXFILE * BSIZE /\ k - 1 < s
  BY <1>0
<1> DEFINE q == (k - 1) \div BSIZE
<1>2. q \in 0..MAXFILE - 1
  BY <1>1, BlockInFile
<1>3. (k - 1) % BSIZE \in 0..BSIZE - 1 /\ q * BSIZE <= k - 1 /\ q * BSIZE \in Nat
  BY <1>1, <1>2, BlockOf, BlockConstants
<1>4. SpotOf(q) \in Spot
  BY <1>2, MappedAt
<1> HIDE DEF q
<1>5. q * BSIZE < s
  BY <1>1, <1>3
<1> QED
  BY <1>2, <1>3, <1>4, <1>5 DEF q

\* There is no hole in the cached inode either.
LEMMA CachedSolid ==
  ASSUME NEW A, NEW Z, NEW P, NEW L, NEW S, Saved(A, Z, P, L), NoHole(Z, P, S)
  PROVE  NoHole(A, P, S)
<1> SUFFICES ASSUME NEW i \in Inum, NEW bn \in 0..MAXFILE - 1, bn * BSIZE < S[i]
             PROVE  Addr(A[i], P, SpotOf(bn)) # 0
  BY DEF NoHole
<1>1. SpotOf(bn) \in Spot /\ Addr(Z[i], P, SpotOf(bn)) # 0
  BY MappedAt DEF NoHole
<1> QED
  BY <1>1 DEF Saved

\* A byte below the size is in a block in use.
LEMMA ByteUsed ==
  ASSUME NEW A, NEW P, NEW U, NEW S \in [Inum -> 0..MAXFILE * BSIZE], Apart(A, P, U),
         NoHole(A, P, S), NEW i \in Inum, NEW k \in 1..S[i]
  PROVE  /\ Addr(A[i], P, SpotOf((k - 1) \div BSIZE)) # 0
         /\ Addr(A[i], P, SpotOf((k - 1) \div BSIZE)) \in U
<1>1. /\ (k - 1) \div BSIZE \in 0..MAXFILE - 1 /\ ((k - 1) \div BSIZE) * BSIZE < S[i]
      /\ SpotOf((k - 1) \div BSIZE) \in Spot
  BY BytePlace
<1>2. Addr(A[i], P, SpotOf((k - 1) \div BSIZE)) # 0
  BY <1>1 DEF NoHole
<1> QED
  BY <1>1, <1>2 DEF Apart

LEMMA ContentNow ==
  ASSUME BlocksInductive
  PROVE  /\ Content = Files(addrs, ptr, data, size)
         /\ KeptContent = Files(addrs, ptr, kept, size)
<1>0. /\ Apart(addrs, ptr, used) /\ NoHole(addrs, ptr, size)
      /\ size \in [Inum -> 0..MAXFILE * BSIZE]
  BY CachedSolid, TypesOf DEF BlocksInductive
<1>1. ASSUME NEW D, NEW i \in Inum, NEW k \in 1..size[i]
      PROVE  LET b == Mapped(Disk(i), (k - 1) \div BSIZE)
             IN (IF b = 0 THEN "hole" ELSE D[b][(k - 1) % BSIZE]) =
                  D[Addr(addrs[i], ptr, SpotOf((k - 1) \div BSIZE))][(k - 1) % BSIZE]
  <2> DEFINE q == (k - 1) \div BSIZE
  <2>1. q \in 0..MAXFILE - 1
    BY <1>0, BytePlace
  <2>2. Addr(addrs[i], ptr, SpotOf(q)) # 0
    BY <1>0, ByteUsed
  <2> HIDE DEF q
  <2>3. Mapped(Disk(i), q) = Addr(addrs[i], ptr, SpotOf(q))
    BY <2>1, MappedAt, DiskFields
  <2> QED
    BY <2>2, <2>3 DEF q
<1>2. ASSUME NEW D PROVE FilesIn(D) = Files(addrs, ptr, D, size)
  BY <1>1 DEF FilesIn, Files, BytesOf
<1> QED
  BY <1>2 DEF Content, KeptContent

LEMMA ContentThen ==
  ASSUME BlocksInductive'
  PROVE  /\ Content' = Files(addrs', ptr', data', size')
         /\ KeptContent' = Files(addrs', ptr', kept', size')
<1>0. /\ Apart(addrs', ptr', used') /\ NoHole(addrs', ptr', size')
      /\ size' \in [Inum -> 0..MAXFILE * BSIZE]
  <2>1. /\ Apart(addrs', ptr', used') /\ Saved(addrs', daddrs', ptr', byLbn')
        /\ NoHole(daddrs', ptr', size')
    BY DEF BlocksInductive, Apart, Saved, NoHole
  <2>2. size' \in [Inum -> 0..MAXFILE * BSIZE]
    BY DEF BlocksInductive, BlocksTypes, BlocksTypeOK
  <2> QED
    BY <2>1, <2>2, CachedSolid
<1>1. ASSUME NEW D, NEW i \in Inum, NEW k \in 1..size'[i]
      PROVE  LET b == Mapped(Disk(i)', (k - 1) \div BSIZE)
             IN (IF b = 0 THEN "hole" ELSE D[b][(k - 1) % BSIZE]) =
                  D[Addr(addrs'[i], ptr', SpotOf((k - 1) \div BSIZE))][(k - 1) % BSIZE]
  <2> DEFINE q == (k - 1) \div BSIZE
  <2>1. q \in 0..MAXFILE - 1
    BY <1>0, BytePlace
  <2>2. Addr(addrs'[i], ptr', SpotOf(q)) # 0
    BY <1>0, ByteUsed
  <2> HIDE DEF q
  <2>3. Disk(i)'.addrs = addrs'[i] /\ Disk(i)'.ptr = ptr'
    BY DEF Disk
  <2>4. Mapped(Disk(i)', q) = Addr(addrs'[i], ptr', SpotOf(q))
    BY <2>1, <2>3, MappedAt
  <2> QED
    BY <2>2, <2>4 DEF q
<1> DEFINE Then(D) ==
      [i \in Inum |->
         LET d == Disk(i)'
         IN [k \in 1..size'[i] |->
               LET b == Mapped(d, (k - 1) \div BSIZE)
               IN IF b = 0 THEN "hole" ELSE D[b][(k - 1) % BSIZE]]]
<1>2. ASSUME NEW D PROVE Then(D) = Files(addrs', ptr', D, size')
  BY <1>1 DEF Files, BytesOf
<1>3. Content' = Then(data') /\ KeptContent' = Then(kept')
  BY DEF Content, KeptContent, FilesIn
<1> HIDE DEF Then
<1> QED
  BY <1>2, <1>3

\* A step that leaves the files but one as they are.
SameFile(j, A, P, D, S, B, Q, E, T) ==
  /\ T[j] = S[j]
  /\ \A k \in 1..S[j] :
       LET x == Addr(A[j], P, SpotOf((k - 1) \div BSIZE))
           o == (k - 1) % BSIZE
       IN Addr(B[j], Q, SpotOf((k - 1) \div BSIZE)) = x /\ E[x][o] = D[x][o]

LEMMA SameFileBytes ==
  ASSUME NEW A, NEW P, NEW D, NEW S \in [Inum -> 0..MAXFILE * BSIZE], NEW B, NEW Q, NEW E, NEW T,
         NEW j \in Inum, SameFile(j, A, P, D, S, B, Q, E, T)
  PROVE  Files(B, Q, E, T)[j] = Files(A, P, D, S)[j]
<1>1. BytesOf(B[j], Q, E, S[j]) = BytesOf(A[j], P, D, S[j])
  BY DEF SameFile, BytesOf
<1> QED
  BY <1>1 DEF Files, SameFile

\* The step that allocates for inode i leaves the addresses of all bytes, and the
\* content of their blocks before the copy.
LEMMA GivesBytes ==
  ASSUME BlocksInductive, NEW i \in Inum, NEW e, Extends(Disk(i), e), e.panic = "none",
         NEW j \in Inum, NEW k \in 1..size[j]
  PROVE  LET q == SpotOf((k - 1) \div BSIZE)
             x == Addr(addrs[j], ptr, q)
         IN /\ x # 0 /\ x \in used /\ x \in Block /\ e.data[x] = data[x]
            /\ Addr([addrs EXCEPT ![i] = e.addrs][j], e.ptr, q) = x
            /\ j # i => \A n \in Spot : At(e, n) # x
<1> DEFINE q == SpotOf((k - 1) \div BSIZE)
           x == Addr(addrs[j], ptr, q)
<1>0. /\ BlocksTypes /\ Apart(addrs, ptr, used) /\ NoHole(addrs, ptr, size)
      /\ size \in [Inum -> 0..MAXFILE * BSIZE]
      /\ addrs \in AddrsType /\ ptr \in PtrType /\ used \in SUBSET Block
  BY CachedSolid, TypesOf DEF BlocksInductive
<1>1. q \in Spot
  BY <1>0, BytePlace
<1>2. x # 0 /\ x \in used /\ x \in Block
  BY <1>0, ByteUsed
<1> HIDE DEF q
<1>3. Gives(i, addrs, ptr, used, e)
  BY LocatedGives
<1>4. e.data[x] = data[x]
  <2>1. Grown(Disk(i), e) /\ Disk(i).used = used /\ Disk(i).data = data
    BY DiskFields DEF Extends
  <2> QED
    BY <1>2, <2>1 DEF Grown
<1>5. Placed(i, addrs, ptr, e, [addrs EXCEPT ![i] = e.addrs])
  BY <1>0, <1>3, GivesAddr
<1>6. Addr([addrs EXCEPT ![i] = e.addrs][j], e.ptr, q) = x
  <2>1. Addr([addrs EXCEPT ![i] = e.addrs][j], e.ptr, q) =
          IF j = i THEN At(e, q) ELSE Addr(addrs[j], ptr, q)
    BY <1>1, <1>5 DEF Placed
  <2>2. Addr(addrs[i], ptr, q) # 0 => At(e, q) = Addr(addrs[i], ptr, q)
    BY <1>1, <1>3 DEF Gives
  <2> QED
    BY <1>2, <2>1, <2>2
<1>7. ASSUME j # i, NEW n \in Spot PROVE At(e, n) # x
  <2>1. CASE Addr(addrs[i], ptr, n) = 0
    BY <1>2, <1>3, <2>1 DEF Gives
  <2>2. CASE Addr(addrs[i], ptr, n) # 0
    <3>1. At(e, n) = Addr(addrs[i], ptr, n)
      BY <1>3, <2>2 DEF Gives
    <3> QED
      BY <1>0, <1>1, <1>7, <2>2, <3>1 DEF Apart
  <2> QED
    BY <2>1, <2>2
<1> QED
  BY <1>2, <1>4, <1>6, <1>7 DEF q

\* Where a write does not put a byte.
LEMMA NotCopied ==
  ASSUME NEW e, NEW at, NEW done, NEW c, NEW x \in Block, NEW o \in 0..BSIZE - 1,
         \A k \in at..at + done - 1 : ~(Mapped(e, k \div BSIZE) = x /\ k % BSIZE = o)
  PROVE  CopiedBytes(e, at, done, c)[x][o] = e.data[x][o]
  BY DEF CopiedBytes

LEMMA IsCopied ==
  ASSUME NEW e, NEW at, NEW done, NEW c, NEW x \in Block, NEW o \in 0..BSIZE - 1,
         NEW k \in at..at + done - 1, Mapped(e, k \div BSIZE) = x, k % BSIZE = o
  PROVE  CopiedBytes(e, at, done, c)[x][o] = c
  BY DEF CopiedBytes

\* A byte of a chunk is in a block of the chunk.
LEMMA CopiedInChunk ==
  ASSUME NEW i, NEW at, NEW n, NEW done, NEW c, NEW e, Wrote(i, at, n, done, c, e),
         NEW k \in at..at + done - 1
  PROVE  /\ k \in Nat /\ k \div BSIZE \in 0..MAXFILE - 1
         /\ Mapped(e, k \div BSIZE) # 0
         /\ SpotOf(k \div BSIZE) \in Spot /\ Mapped(e, k \div BSIZE) = At(e, SpotOf(k \div BSIZE))
<1>1. at \in Nat /\ n \in Nat \ {0} /\ done \in 0..n /\ at + n <= MAXFILE * BSIZE
  BY DEF Wrote
<1>2. MAXFILE * BSIZE \in Nat
  BY BlockConstants
<1>3. k \in Nat /\ k < MAXFILE * BSIZE /\ at <= k
  BY <1>1, <1>2
<1>4. k <= LastByte(at, n, done) /\ LastByte(at, n, done) \in Nat
  BY <1>1, <1>3 DEF LastByte
<1>5. k \div BSIZE \in 0..MAXFILE - 1
  BY <1>3, BlockInFile
<1>6. /\ at \div BSIZE <= k \div BSIZE /\ k \div BSIZE <= LastByte(at, n, done) \div BSIZE
      /\ at \div BSIZE \in Nat /\ LastByte(at, n, done) \div BSIZE \in Nat
  BY <1>1, <1>3, <1>4, BlockMonotone, BlockOf
<1> DEFINE q == k \div BSIZE
           p == at \div BSIZE
           l == LastByte(at, n, done) \div BSIZE
<1>7. \A bn \in p..l : Mapped(e, bn) # 0
  BY DEF Wrote
<1>8. q \in p..l
  <2>1. q \in Nat /\ p \in Nat /\ l \in Nat /\ p <= q /\ q <= l
    BY <1>5, <1>6, BlockConstants
  <2> HIDE DEF q, p, l
  <2> QED
    BY <2>1
<1>9. Mapped(e, q) # 0
  BY <1>7, <1>8
<1> QED
  BY <1>3, <1>5, <1>9, MappedAt

\* The blocks that a write logs are its own.
LEMMA WroteOther ==
  ASSUME BlocksInductive, NEW i, NEW at, NEW n, NEW done, NEW c, NEW e,
         Wrote(i, at, n, done, c, e), NEW j \in Inum, j # i
  PROVE  /\ SameFile(j, addrs, ptr, data, size, addrs', ptr', data', size')
         /\ SameFile(j, addrs, ptr, kept, size, addrs', ptr', kept', size')
<1>1. /\ i \in Inum /\ Extends(Disk(i), e) /\ e.panic = "none" /\ c \in Byte
      /\ ptr' = e.ptr /\ addrs' = [addrs EXCEPT ![i] = e.addrs]
      /\ data' = Copied(e, at, done, c).data
  BY DEF Wrote
<1>7. PICK W : Owned(W, e) /\ LogsAll(W)
  BY DEF Wrote
<1>2. e \in State
  BY <1>1 DEF Extends
<1>3. data' = CopiedBytes(e, at, done, c)
  BY <1>1, <1>2, CopiedFields
<1>4. size'[j] = size[j]
  BY WroteSize
<1>5. size \in [Inum -> 0..MAXFILE * BSIZE]
  BY TypesOf DEF BlocksInductive
<1>6. ASSUME NEW k \in 1..size[j]
      PROVE  LET x == Addr(addrs[j], ptr, SpotOf((k - 1) \div BSIZE))
                 o == (k - 1) % BSIZE
             IN /\ Addr(addrs'[j], ptr', SpotOf((k - 1) \div BSIZE)) = x
                /\ data'[x][o] = data[x][o] /\ kept'[x][o] = kept[x][o]
  <2> DEFINE q == SpotOf((k - 1) \div BSIZE)
             x == Addr(addrs[j], ptr, q)
             o == (k - 1) % BSIZE
  <2>1. /\ x # 0 /\ x \in used /\ x \in Block /\ e.data[x] = data[x]
        /\ Addr([addrs EXCEPT ![i] = e.addrs][j], e.ptr, q) = x
        /\ \A m \in Spot : At(e, m) # x
    <3>1. LET r == SpotOf((k - 1) \div BSIZE)
              y == Addr(addrs[j], ptr, r)
          IN /\ y # 0 /\ y \in used /\ y \in Block /\ e.data[y] = data[y]
             /\ Addr([addrs EXCEPT ![i] = e.addrs][j], e.ptr, r) = y
             /\ j # i => \A m \in Spot : At(e, m) # y
      BY <1>1, GivesBytes
    <3> QED
      BY <3>1
  <2>2. o \in 0..BSIZE - 1
    BY <1>5, BytePlace
  <2> HIDE DEF q, x, o
  <2>3. ASSUME NEW l \in at..at + done - 1 PROVE ~(Mapped(e, l \div BSIZE) = x /\ l % BSIZE = o)
    BY <2>1, CopiedInChunk
  <2>4. CopiedBytes(e, at, done, c)[x][o] = e.data[x][o]
    BY <2>1, <2>2, <2>3, NotCopied
  <2>5. Addr(addrs'[j], ptr', q) = x /\ data'[x][o] = data[x][o]
    BY <1>1, <1>3, <2>1, <2>4
  <2>6. kept'[x] = kept[x]
    BY <1>7, <2>1 DEF Owned, LogsAll
  <2> QED
    BY <2>5, <2>6 DEF q, x, o
<1> QED
  BY <1>4, <1>6 DEF SameFile

\* The end of the bytes that a write puts into a file.
EndOf(at, done, s) == IF at + done <= s THEN at + done ELSE s

LEMMA WroteSelf ==
  ASSUME BlocksInductive, BlocksInductive', NEW i, NEW at, NEW n, NEW done, NEW c, NEW e,
         Wrote(i, at, n, done, c, e), NEW k \in 1..size'[i],
         NEW q, q = SpotOf((k - 1) \div BSIZE), NEW o, o = (k - 1) % BSIZE
  PROVE  data'[Addr(addrs'[i], ptr', q)][o] =
           IF k \in at + 1..EndOf(at, done, size'[i]) THEN c
           ELSE data[Addr(addrs[i], ptr, q)][o]
<1>1. /\ i \in Inum /\ Extends(Disk(i), e) /\ e.panic = "none" /\ c \in Byte
      /\ at \in Nat /\ n \in Nat \ {0} /\ done \in 0..n /\ at <= size[i]
      /\ ptr' = e.ptr /\ addrs' = [addrs EXCEPT ![i] = e.addrs]
      /\ data' = Copied(e, at, done, c).data
  BY DEF Wrote
<1>2. e \in State /\ Whole(e)
  BY <1>1 DEF Extends
<1>3. data' = CopiedBytes(e, at, done, c)
  BY <1>1, <1>2, CopiedFields
<1>4. /\ size' \in [Inum -> 0..MAXFILE * BSIZE]
      /\ size'[i] = Larger(size[i], Reached(at, n, done))
  BY WroteSize
<1>5. /\ size \in [Inum -> 0..MAXFILE * BSIZE] /\ addrs \in AddrsType
  BY TypesOf DEF BlocksInductive
<1> DEFINE bn == (k - 1) \div BSIZE
           x == Addr(addrs'[i], ptr', q)
<1>6. bn \in 0..MAXFILE - 1 /\ o \in 0..BSIZE - 1 /\ q \in Spot /\ q = SpotOf(bn) /\ k - 1 \in Nat
  BY <1>1, <1>4, BytePlace
<1>7. x = At(e, q) /\ x \in Block
  <2>1. x = At(e, q)
    BY <1>1, <1>5 DEF At, AddrsType
  <2>2. At(e, q) \in Block \cup {0}
    BY <1>2, <1>6, AtType
  <2>3. NoHole(addrs', ptr', size') /\ Apart(addrs', ptr', used')
    <3>1. /\ Saved(addrs', daddrs', ptr', byLbn') /\ NoHole(daddrs', ptr', size')
          /\ Apart(addrs', ptr', used')
      BY DEF BlocksInductive, Saved, NoHole, Apart
    <3> QED
      BY <3>1, CachedSolid
  <2>4. x # 0
    <3>1. i \in Inum /\ size' \in [Inum -> 0..MAXFILE * BSIZE]
      BY <1>1, <1>4
    <3>2. Addr(addrs'[i], ptr', SpotOf((k - 1) \div BSIZE)) # 0
      BY <2>3, <3>1, ByteUsed
    <3> QED
      BY <3>2
  <2> QED
    BY <2>1, <2>2, <2>4
<1>8. CASE k - 1 \in at..at + done - 1
  <2>1. k \in at + 1..EndOf(at, done, size'[i])
    BY <1>1, <1>4, <1>8 DEF EndOf
  <2>2. Mapped(e, (k - 1) \div BSIZE) = x /\ (k - 1) % BSIZE = o
    BY <1>6, <1>7, MappedAt
  <2>3. CopiedBytes(e, at, done, c)[x][o] = c
    BY <1>6, <1>7, <1>8, <2>2, IsCopied
  <2> QED
    BY <1>3, <2>1, <2>3
<1>9. CASE k - 1 \notin at..at + done - 1
  <2>1. k \notin at + 1..EndOf(at, done, size'[i])
    BY <1>1, <1>4, <1>9 DEF EndOf
  <2>2. k \in 1..size[i]
    <3>1. size[i] \in Nat /\ Reached(at, n, done) \in Nat /\ Reached(at, n, done) <= at + done
      BY <1>1, <1>5, ReachedBounds, BlockConstants
    <3> QED
      BY <1>1, <1>4, <1>9, <3>1 DEF Larger
  <2>3. ASSUME NEW l \in at..at + done - 1 PROVE ~(Mapped(e, l \div BSIZE) = x /\ l % BSIZE = o)
    <3>1. SUFFICES ASSUME Mapped(e, l \div BSIZE) = x, l % BSIZE = o PROVE FALSE
      OBVIOUS
    <3>2. /\ l \in Nat /\ l \div BSIZE \in 0..MAXFILE - 1
          /\ SpotOf(l \div BSIZE) \in Spot /\ At(e, SpotOf(l \div BSIZE)) = x
      BY <3>1, CopiedInChunk
    <3>3. SpotOf(l \div BSIZE) = q
      BY <1>2, <1>6, <1>7, <3>2, BlockConstants DEF Whole
    <3>4. l \div BSIZE = bn
      BY <1>6, <3>2, <3>3, SpotOfUnique
    <3> DEFINE d == l \div BSIZE
    <3>5. l = d * BSIZE + (l % BSIZE)
      BY <3>2, BlockOf
    <3>6. k - 1 = d * BSIZE + ((k - 1) % BSIZE)
      BY <1>6, <3>4, BlockOf
    <3> HIDE DEF d
    <3>7. l = d * BSIZE + o /\ k - 1 = d * BSIZE + o
      BY <3>1, <3>5, <3>6
    <3> QED
      BY <1>9, <3>7
  <2>4. CopiedBytes(e, at, done, c)[x][o] = e.data[x][o]
    BY <1>6, <1>7, <2>3, NotCopied
  <2>5. x = Addr(addrs[i], ptr, q) /\ e.data[x] = data[x]
    <3>1. LET r == SpotOf((k - 1) \div BSIZE)
              y == Addr(addrs[i], ptr, r)
          IN /\ y # 0 /\ y \in used /\ y \in Block /\ e.data[y] = data[y]
             /\ Addr([addrs EXCEPT ![i] = e.addrs][i], e.ptr, r) = y
             /\ i # i => \A m \in Spot : At(e, m) # y
      BY <1>1, <2>2, GivesBytes
    <3> QED
      BY <1>1, <3>1
  <2> HIDE DEF x
  <2> QED
    BY <1>3, <2>1, <2>4, <2>5 DEF x
<1> QED
  BY <1>8, <1>9

\* What stays of the bytes of the write: all up to the offset that it reaches.
LEMMA WroteKept ==
  ASSUME BlocksInductive, BlocksInductive', NEW i, NEW at, NEW n, NEW done, NEW c, NEW e,
         Wrote(i, at, n, done, c, e), NEW k \in 1..size'[i],
         NEW q, q = SpotOf((k - 1) \div BSIZE), NEW o, o = (k - 1) % BSIZE
  PROVE  \/ kept'[Addr(addrs'[i], ptr', q)][o] = data'[Addr(addrs'[i], ptr', q)][o]
         \/ /\ k \notin at + 1..Reached(at, n, done) /\ k <= size[i]
            /\ kept'[Addr(addrs'[i], ptr', q)][o] = kept[Addr(addrs[i], ptr, q)][o]
<1>1. /\ i \in Inum /\ Extends(Disk(i), e) /\ e.panic = "none"
      /\ at \in Nat /\ n \in Nat \ {0} /\ done \in 0..n /\ at <= size[i]
      /\ ptr' = e.ptr /\ addrs' = [addrs EXCEPT ![i] = e.addrs]
  BY DEF Wrote
<1>2. e \in State
  BY <1>1 DEF Extends
<1>3. PICK W : LoggedBlocks(e, at, Reached(at, n, done)) \subseteq W /\ LogsAll(W)
  BY DEF Wrote
<1>4. /\ size' \in [Inum -> 0..MAXFILE * BSIZE]
      /\ size'[i] = Larger(size[i], Reached(at, n, done))
  BY WroteSize
<1>5. size \in [Inum -> 0..MAXFILE * BSIZE] /\ addrs \in AddrsType
  BY TypesOf DEF BlocksInductive
<1> DEFINE bn == (k - 1) \div BSIZE
           x == Addr(addrs'[i], ptr', q)
<1>6. bn \in 0..MAXFILE - 1 /\ q \in Spot /\ q = SpotOf(bn)
  BY <1>1, <1>4, BytePlace
<1>7. x = At(e, q) /\ x \in Block
  <2>1. x = At(e, q)
    BY <1>1, <1>5 DEF At, AddrsType
  <2>2. At(e, q) \in Block \cup {0}
    BY <1>2, <1>6, AtType
  <2>3. NoHole(addrs', ptr', size') /\ Apart(addrs', ptr', used')
    <3>1. /\ Saved(addrs', daddrs', ptr', byLbn') /\ NoHole(daddrs', ptr', size')
          /\ Apart(addrs', ptr', used')
      BY DEF BlocksInductive, Saved, NoHole, Apart
    <3> QED
      BY <3>1, CachedSolid
  <2>4. x # 0
    <3>1. i \in Inum /\ size' \in [Inum -> 0..MAXFILE * BSIZE]
      BY <1>1, <1>4
    <3>2. Addr(addrs'[i], ptr', SpotOf((k - 1) \div BSIZE)) # 0
      BY <2>3, <3>1, ByteUsed
    <3> QED
      BY <3>2
  <2> QED
    BY <2>1, <2>2, <2>4
<1> HIDE DEF x
<1>8. CASE x \in W
  <2>1. kept'[x] = data'[x]
    BY <1>3, <1>7, <1>8 DEF LogsAll
  <2> QED
    BY <2>1 DEF x
<1>9. CASE x \notin W
  <2>1. kept'[x] = kept[x]
    BY <1>3, <1>7, <1>9 DEF LogsAll
  <2>2. k \notin at + 1..Reached(at, n, done)
    <3>1. SUFFICES ASSUME k \in at + 1..Reached(at, n, done) PROVE FALSE
      OBVIOUS
    <3>2. Reached(at, n, done) \in Nat
      BY <1>1, ReachedBounds
    <3>3. k - 1 \in at..Reached(at, n, done) - 1
      BY <1>1, <3>1, <3>2
    <3>4. Mapped(e, (k - 1) \div BSIZE) = x
      BY <1>6, <1>7, MappedAt
    <3>5. x \in LoggedBlocks(e, at, Reached(at, n, done))
      BY <3>3, <3>4 DEF LoggedBlocks
    <3> QED
      BY <1>3, <1>9, <3>5
  <2>3. k \in 1..size[i]
    <3>1. size[i] \in Nat /\ Reached(at, n, done) \in Nat
      BY <1>1, <1>5, ReachedBounds, BlockConstants
    <3> QED
      BY <1>1, <1>4, <2>2, <3>1 DEF Larger
  <2>4. x = Addr(addrs[i], ptr, q)
    <3>1. LET y == SpotOf((k - 1) \div BSIZE)
              z == Addr(addrs[i], ptr, y)
          IN /\ z # 0 /\ z \in used /\ z \in Block /\ e.data[z] = data[z]
             /\ Addr([addrs EXCEPT ![i] = e.addrs][i], e.ptr, y) = z
             /\ i # i => \A m \in Spot : At(e, m) # z
      BY <1>1, <2>3, GivesBytes
    <3> QED
      BY <1>1, <3>1 DEF x
  <2>5. size[i] \in Nat
    BY <1>1, <1>5, BlockConstants
  <2> QED
    BY <2>1, <2>2, <2>3, <2>4, <2>5 DEF x
<1> QED
  BY <1>8, <1>9

\* A write that ends in the middle leaves less than a block behind.
LEMMA ReachedClose ==
  ASSUME NEW at \in Nat, NEW n \in Nat \ {0}, NEW done \in 0..n
  PROVE  at + done - Reached(at, n, done) < BSIZE
<1>1. CASE done = n
  BY <1>1, BlockConstants DEF Reached
<1>2. CASE done # n
  <2> DEFINE q == (at + done) \div BSIZE
  <2>1. at + done \in Nat
    OBVIOUS
  <2>2. q * BSIZE \in Nat /\ at + done < q * BSIZE + BSIZE
    BY <2>1, BlockOf, BlockConstants
  <2>3. Reached(at, n, done) = Larger(at, q * BSIZE)
    BY <1>2 DEF Reached
  <2> HIDE DEF q
  <2>4. BSIZE \in Nat
    BY BlockConstants
  <2> QED
    BY <2>2, <2>3, <2>4 DEF Larger
<1> QED
  BY <1>1, <1>2

-----------------------------------------------------------------------------
(* Every step is a step of ByteFiles, or none *)

LEMMA ContentLen ==
  ASSUME NEW A, NEW P, NEW D, NEW S \in [Inum -> 0..MAXFILE * BSIZE], NEW i \in Inum
  PROVE  /\ Len(Files(A, P, D, S)[i]) = S[i]
         /\ Files(A, P, D, S)[i] = BytesOf(A[i], P, D, S[i])
<1>1. S[i] \in Nat
  BY BlockConstants
<1> QED
  BY <1>1, BytesLen DEF Files

\* A step that changes one file, in abstract terms.
LEMMA OneFile ==
  ASSUME BlocksInductive, BlocksInductive', NEW i \in Inum, NEW D, NEW E,
         \A j \in Inum : j # i => SameFile(j, addrs, ptr, D, size, addrs', ptr', E, size'),
         NEW F, F = Files(addrs, ptr, D, size), NEW G, G = Files(addrs', ptr', E, size')
  PROVE  G = [F EXCEPT ![i] = G[i]]
<1>1. size \in [Inum -> 0..MAXFILE * BSIZE]
  BY TypesOf DEF BlocksInductive
<1>2. \A j \in Inum : j # i => G[j] = F[j]
  BY <1>1, SameFileBytes
<1>3. F = [j \in Inum |-> F[j]] /\ G = [j \in Inum |-> G[j]]
  BY DEF Files
<1> QED
  BY <1>2, <1>3

LEMMA WroteIsWrite ==
  ASSUME BlocksInductive, BlocksInductive', NEW i, NEW at, NEW n, NEW done, NEW c, NEW e,
         Wrote(i, at, n, done, c, e)
  PROVE  BF!Next
<1> DEFINE F == Files(addrs, ptr, data, size)
           G == Files(addrs', ptr', data', size')
           K == Files(addrs, ptr, kept, size)
           L == Files(addrs', ptr', kept', size')
           end == EndOf(at, done, size'[i])
           r == Reached(at, n, done)
<1>1. /\ i \in Inum /\ at \in Nat /\ n \in Nat \ {0} /\ done \in 0..n /\ at <= size[i] /\ c \in Byte
      /\ fault' = (done < n)
  BY DEF Wrote
<1>2. /\ size' \in [Inum -> 0..MAXFILE * BSIZE]
      /\ size'[i] = Larger(size[i], r)
  BY WroteSize
<1>3. size \in [Inum -> 0..MAXFILE * BSIZE]
  BY TypesOf DEF BlocksInductive
<1>4. Content = F /\ Content' = G /\ KeptContent = K /\ KeptContent' = L
  BY ContentNow, ContentThen
<1>5. /\ Len(F[i]) = size[i] /\ F[i] = BytesOf(addrs[i], ptr, data, size[i])
      /\ Len(G[i]) = size'[i] /\ G[i] = BytesOf(addrs'[i], ptr', data', size'[i])
      /\ Len(K[i]) = size[i] /\ K[i] = BytesOf(addrs[i], ptr, kept, size[i])
      /\ Len(L[i]) = size'[i] /\ L[i] = BytesOf(addrs'[i], ptr', kept', size'[i])
  BY <1>1, <1>2, <1>3, ContentLen
<1>6. r \in Nat /\ r <= at + done /\ at <= r /\ at + done - r < BSIZE
  BY <1>1, ReachedBounds, ReachedClose
<1>7. size[i] \in Nat /\ size'[i] \in Nat /\ size[i] <= size'[i] /\ r <= size'[i]
  BY <1>1, <1>2, <1>3, <1>6, BlockConstants DEF Larger
<1> HIDE DEF r
<1>8. /\ end \in at..size'[i] /\ (IF end > size[i] THEN end ELSE size[i]) = size'[i]
      /\ r \in at..end /\ end - r < BSIZE /\ (r = end \/ fault')
  <2>1. BSIZE \in Nat
    BY BlockConstants
  <2>2. end \in Nat /\ end <= at + done /\ end <= size'[i] /\ r <= end
    BY <1>1, <1>6, <1>7 DEF EndOf
  <2>3. done = n => r = end
    BY <1>1, <1>7, <2>2 DEF EndOf, r, Reached
  <2>4. end > size[i] => end = size'[i]
    BY <1>1, <1>2, <1>6, <1>7, <2>2 DEF Larger
  <2>5. ~(end > size[i]) => size'[i] = size[i]
    BY <1>1, <1>2, <1>6, <1>7, <2>2 DEF Larger
  <2>6. done < n \/ done = n
    BY <1>1
  <2> HIDE DEF end
  <2>7. end \in at..size'[i] /\ r \in at..end /\ end - r < BSIZE
    BY <1>1, <1>6, <1>7, <2>1, <2>2
  <2>8. r = end \/ fault'
    BY <1>1, <2>3, <2>6
  <2>9. (IF end > size[i] THEN end ELSE size[i]) = size'[i]
    BY <2>4, <2>5
  <2> QED
    BY <2>7, <2>8, <2>9
<1> HIDE DEF F, G, K, L
<1>9. G[i] = BF!Overwritten(F[i], at, end, c)
  <2>1. BF!Overwritten(F[i], at, end, c) =
          [k \in 1..size'[i] |-> IF k \in at + 1..end THEN c ELSE F[i][k]]
    BY <1>5, <1>8 DEF BF!Overwritten
  <2>2. ASSUME NEW k \in 1..size'[i]
        PROVE  G[i][k] = IF k \in at + 1..end THEN c ELSE F[i][k]
    <3> DEFINE q == SpotOf((k - 1) \div BSIZE)
               o == (k - 1) % BSIZE
    <3>1. data'[Addr(addrs'[i], ptr', q)][o] =
            IF k \in at + 1..end THEN c ELSE data[Addr(addrs[i], ptr, q)][o]
      BY WroteSelf
    <3>2. G[i][k] = data'[Addr(addrs'[i], ptr', q)][o]
      BY <1>5 DEF BytesOf
    <3>3. k \notin at + 1..end => k \in 1..size[i]
      <4> HIDE DEF end
      <4>1. ASSUME k \notin at + 1..end PROVE k <= size[i]
        <5>1. CASE end > size[i]
          BY <1>1, <1>7, <1>8, <4>1, <5>1
        <5>2. CASE ~(end > size[i])
          BY <1>1, <1>7, <1>8, <4>1, <5>2
        <5> QED
          BY <5>1, <5>2
      <4> QED
        BY <1>7, <4>1
    <3>4. k \in 1..size[i] => F[i][k] = data[Addr(addrs[i], ptr, q)][o]
      BY <1>5 DEF BytesOf
    <3> HIDE DEF q, o, end
    <3> QED
      BY <3>1, <3>2, <3>3, <3>4
  <2>3. G[i] = [k \in 1..size'[i] |-> G[i][k]]
    BY <1>5 DEF BytesOf
  <2> QED
    BY <2>1, <2>2, <2>3
<1>10. BF!Mixed(L[i], G[i], K[i], at, r)
  <2>1. ASSUME NEW k \in 1..size'[i]
        PROVE  L[i][k] = G[i][k] \/ (k \notin at + 1..r /\ k <= size[i] /\ L[i][k] = K[i][k])
    <3> DEFINE q == SpotOf((k - 1) \div BSIZE)
               o == (k - 1) % BSIZE
    <3>1. \/ kept'[Addr(addrs'[i], ptr', q)][o] = data'[Addr(addrs'[i], ptr', q)][o]
          \/ /\ k \notin at + 1..r /\ k <= size[i]
             /\ kept'[Addr(addrs'[i], ptr', q)][o] = kept[Addr(addrs[i], ptr, q)][o]
      BY WroteKept DEF r
    <3>2. /\ L[i][k] = kept'[Addr(addrs'[i], ptr', q)][o]
          /\ G[i][k] = data'[Addr(addrs'[i], ptr', q)][o]
      BY <1>5 DEF BytesOf
    <3>3. k \in 1..size[i] => K[i][k] = kept[Addr(addrs[i], ptr, q)][o]
      BY <1>5 DEF BytesOf
    <3>4. k <= size[i] => k \in 1..size[i]
      BY <1>7
    <3> HIDE DEF q, o
    <3> QED
      BY <3>1, <3>2, <3>3, <3>4
  <2> QED
    BY <1>5, <2>1 DEF BF!Mixed
<1>11. G = [F EXCEPT ![i] = G[i]] /\ L = [K EXCEPT ![i] = L[i]]
  <2>1. \A j \in Inum : j # i =>
          /\ SameFile(j, addrs, ptr, data, size, addrs', ptr', data', size')
          /\ SameFile(j, addrs, ptr, kept, size, addrs', ptr', kept', size')
    BY WroteOther
  <2> QED
    BY <1>1, <2>1, OneFile DEF F, G, K, L
<1>12. at \in 0..Len(F[i]) /\ end \in at..Len(G[i]) /\ r \in at..end
  BY <1>1, <1>5, <1>7, <1>8
<1> HIDE DEF end
<1>13. BF!Write(F[i], G[i], K[i], L[i])
  BY <1>1, <1>8, <1>9, <1>10, <1>12 DEF BF!Write
<1>14. BF!Step(F, G, K, L)
  BY <1>1, <1>11, <1>13 DEF BF!Step
<1> QED
  BY <1>4, <1>14 DEF BF!Next

\* A step that leaves all files as they are.
LEMMA SameContent ==
  ASSUME BlocksInductive, BlocksInductive',
         \A j \in Inum : /\ SameFile(j, addrs, ptr, data, size, addrs', ptr', data', size')
                         /\ SameFile(j, addrs, ptr, kept, size, addrs', ptr', kept', size')
  PROVE  Content' = Content /\ KeptContent' = KeptContent
<1>1. size \in [Inum -> 0..MAXFILE * BSIZE]
  BY TypesOf DEF BlocksInductive
<1>2. ASSUME NEW D, NEW E,
             \A j \in Inum : SameFile(j, addrs, ptr, D, size, addrs', ptr', E, size')
      PROVE  Files(addrs', ptr', E, size') = Files(addrs, ptr, D, size)
  <2> DEFINE F == Files(addrs, ptr, D, size)
             G == Files(addrs', ptr', E, size')
  <2>1. \A j \in Inum : G[j] = F[j]
    BY <1>1, <1>2, SameFileBytes
  <2>2. F = [j \in Inum |-> F[j]] /\ G = [j \in Inum |-> G[j]]
    BY DEF Files
  <2> HIDE DEF F, G
  <2>3. G = F
    BY <2>1, <2>2
  <2> QED
    BY <2>3 DEF F, G
<1> QED
  BY <1>2, ContentNow, ContentThen

\* get_disk_lbn() changes no byte of a file.
LEMMA LocatedContent ==
  ASSUME BlocksInductive, BlocksInductive', NEW i, NEW e, Located(i, e)
  PROVE  Content' = Content /\ KeptContent' = KeptContent /\ fault' = fault
<1>1. i \in Inum /\ size' = size /\ fault' = fault
  BY DEF Located
<1>2. CASE UNCHANGED <<disk, addrs, kept>>
  <2>1. \A j \in Inum : /\ SameFile(j, addrs, ptr, data, size, addrs', ptr', data', size')
                        /\ SameFile(j, addrs, ptr, kept, size, addrs', ptr', kept', size')
    BY <1>1, <1>2 DEF SameFile, disk
  <2> QED
    BY <1>1, <2>1, SameContent
<1>3. CASE /\ Extends(Disk(i), e) /\ e.panic = "none"
           /\ used' = e.used /\ data' = e.data /\ ptr' = e.ptr
           /\ addrs' = [addrs EXCEPT ![i] = e.addrs]
           /\ LogsAll(used' \ used)
  <2>1. ASSUME NEW j \in Inum, NEW k \in 1..size[j]
        PROVE  LET x == Addr(addrs[j], ptr, SpotOf((k - 1) \div BSIZE))
                   o == (k - 1) % BSIZE
               IN /\ Addr(addrs'[j], ptr', SpotOf((k - 1) \div BSIZE)) = x
                  /\ data'[x][o] = data[x][o] /\ kept'[x][o] = kept[x][o]
    <3> DEFINE q == SpotOf((k - 1) \div BSIZE)
               x == Addr(addrs[j], ptr, q)
    <3>1. LET y == SpotOf((k - 1) \div BSIZE)
              z == Addr(addrs[j], ptr, y)
          IN /\ z # 0 /\ z \in used /\ z \in Block /\ e.data[z] = data[z]
             /\ Addr([addrs EXCEPT ![i] = e.addrs][j], e.ptr, y) = z
             /\ j # i => \A m \in Spot : At(e, m) # z
      BY <1>1, <1>3, GivesBytes
    <3>2. /\ x \in used /\ x \in Block /\ e.data[x] = data[x]
          /\ Addr([addrs EXCEPT ![i] = e.addrs][j], e.ptr, q) = x
      BY <3>1
    <3> HIDE DEF x, q
    <3>3. kept'[x] = kept[x]
      BY <1>3, <3>2 DEF LogsAll
    <3>4. data'[x] = data[x] /\ Addr(addrs'[j], ptr', q) = x
      BY <1>3, <3>2
    <3> QED
      BY <3>3, <3>4 DEF x, q
  <2>2. \A j \in Inum : /\ SameFile(j, addrs, ptr, data, size, addrs', ptr', data', size')
                        /\ SameFile(j, addrs, ptr, kept, size, addrs', ptr', kept', size')
    BY <1>1, <2>1 DEF SameFile
  <2> QED
    BY <1>1, <2>2, SameContent
<1> QED
  BY <1>2, <1>3 DEF Located

\* Nor does the eviction of an inode.
LEMMA ReopenContent ==
  ASSUME BlocksInductive, BlocksInductive', NEW i \in Inum, Reopen(i)
  PROVE  Content' = Content /\ KeptContent' = KeptContent /\ fault' = fault
<1>1. /\ addrs' = [addrs EXCEPT ![i] = daddrs[i]]
      /\ data' = data /\ ptr' = ptr /\ size' = size /\ kept' = kept /\ fault' = fault
  BY DEF Reopen, disk, logVars
<1>2. /\ Saved(addrs, daddrs, ptr, byLbn) /\ NoHole(daddrs, ptr, size)
      /\ addrs \in AddrsType /\ size \in [Inum -> 0..MAXFILE * BSIZE]
  BY TypesOf DEF BlocksInductive
<1>3. ASSUME NEW j \in Inum, NEW k \in 1..size[j], NEW q, q = SpotOf((k - 1) \div BSIZE)
      PROVE  Addr(addrs'[j], ptr, q) = Addr(addrs[j], ptr, q)
  <2>1. CASE j # i
    BY <1>1, <1>2, <2>1 DEF AddrsType
  <2>2. CASE j = i
    <3> DEFINE bn == (k - 1) \div BSIZE
    <3>1. bn \in 0..MAXFILE - 1 /\ bn * BSIZE < size[i] /\ SpotOf(bn) \in Spot
      BY <1>2, <2>2, BytePlace
    <3> HIDE DEF bn
    <3>2. Addr(daddrs[i], ptr, SpotOf(bn)) # 0
      BY <1>2, <3>1 DEF NoHole
    <3>3. Addr(daddrs[i], ptr, SpotOf(bn)) = Addr(addrs[i], ptr, SpotOf(bn))
      BY <1>2, <3>1, <3>2 DEF Saved
    <3>4. addrs'[i] = daddrs[i]
      BY <1>1, <1>2 DEF AddrsType
    <3> QED
      BY <1>3, <2>2, <3>3, <3>4 DEF bn
  <2> QED
    BY <2>1, <2>2
<1>4. \A j \in Inum : /\ SameFile(j, addrs, ptr, data, size, addrs', ptr', data', size')
                      /\ SameFile(j, addrs, ptr, kept, size, addrs', ptr', kept', size')
  BY <1>1, <1>3 DEF SameFile
<1> QED
  BY <1>1, <1>4, SameContent

\* itrunc() empties one file.
LEMMA TruncIsTruncate ==
  ASSUME BlocksInductive, BlocksInductive', NEW i \in Inum, itrunc(i)
  PROVE  BF!Next
<1> DEFINE F == Files(addrs, ptr, data, size)
           G == Files(addrs', ptr', data', size')
           K == Files(addrs, ptr, kept, size)
           L == Files(addrs', ptr', kept', size')
           M == InMap(Disk(i))
<1>1. /\ addrs' = [addrs EXCEPT ![i] = NoAddrs] /\ size' = [size EXCEPT ![i] = 0]
      /\ data' = [b \in Block |-> IF b \in M THEN NoBytes ELSE data[b]] /\ ptr' = ptr
      /\ kept' = [b \in Block |-> IF b \in M THEN NoBytes ELSE kept[b]] /\ fault' = fault
  BY DEF itrunc
<1>2. /\ Apart(addrs, ptr, used) /\ NoHole(addrs, ptr, size)
      /\ addrs \in AddrsType /\ size \in [Inum -> 0..MAXFILE * BSIZE] /\ used \in SUBSET Block
  BY CachedSolid, TypesOf DEF BlocksInductive
<1>3. Freed(i, addrs, ptr, M)
  BY InMapIs DEF Freed, BlocksInductive
<1> HIDE DEF M
<1>4. Content = F /\ Content' = G /\ KeptContent = K /\ KeptContent' = L
  BY ContentNow, ContentThen
<1>5. ASSUME NEW E PROVE Files(addrs', ptr', E, size')[i] = <<>>
  <2>1. size'[i] = 0
    BY <1>1, <1>2
  <2>2. Files(addrs', ptr', E, size')[i] = [k \in 1..0 |->
                  E[Addr(addrs'[i], ptr', SpotOf((k - 1) \div BSIZE))][(k - 1) % BSIZE]]
    BY <2>1 DEF Files, BytesOf
  <2> QED
    BY <2>2
<1>6. ASSUME NEW j \in Inum, j # i
      PROVE  /\ SameFile(j, addrs, ptr, data, size, addrs', ptr', data', size')
             /\ SameFile(j, addrs, ptr, kept, size, addrs', ptr', kept', size')
  <2>1. size'[j] = size[j] /\ addrs'[j] = addrs[j]
    BY <1>1, <1>2, <1>6 DEF AddrsType
  <2>2. ASSUME NEW k \in 1..size[j], NEW q, q = SpotOf((k - 1) \div BSIZE)
        PROVE  /\ data'[Addr(addrs[j], ptr, q)] = data[Addr(addrs[j], ptr, q)]
               /\ kept'[Addr(addrs[j], ptr, q)] = kept[Addr(addrs[j], ptr, q)]
    <3>1. Addr(addrs[j], ptr, q) # 0 /\ Addr(addrs[j], ptr, q) \in used
      BY <1>2, <2>2, ByteUsed
    <3>2. q \in Spot
      BY <1>2, <2>2, BytePlace
    <3>3. Addr(addrs[j], ptr, q) \notin M
      BY <1>2, <1>3, <1>6, <3>1, <3>2 DEF Freed, Apart
    <3> QED
      BY <1>1, <1>2, <3>1, <3>3
  <2> QED
    BY <1>1, <2>1, <2>2 DEF SameFile
<1>7. G = [F EXCEPT ![i] = G[i]] /\ L = [K EXCEPT ![i] = L[i]]
  BY <1>6, OneFile
<1>8. BF!Truncate(G[i], L[i])
  BY <1>1, <1>5 DEF BF!Truncate
<1> HIDE DEF F, G, K, L
<1>9. BF!Step(F, G, K, L)
  BY <1>7, <1>8 DEF BF!Step
<1> QED
  BY <1>4, <1>9 DEF BF!Next

\* A block whose buffer is recycled has bytes of one file at most: those go back to what
\* was logged of them.
LEMMA RecycleIsRevert ==
  ASSUME BlocksInductive, BlocksInductive', NEW b \in Block, Recycle(b)
  PROVE  [BF!Next]_<<Content, KeptContent, fault>>
<1> DEFINE F == Files(addrs, ptr, data, size)
           G == Files(addrs', ptr', data', size')
           K == Files(addrs, ptr, kept, size)
           HasByte(j, k) == Addr(addrs[j], ptr, SpotOf((k - 1) \div BSIZE)) = b
<1>1. /\ data' = [data EXCEPT ![b] = kept[b]] /\ ptr' = ptr /\ addrs' = addrs /\ size' = size
      /\ kept' = kept /\ fault' = fault
  BY DEF Recycle, logVars
<1>2. /\ Apart(addrs, ptr, used) /\ NoHole(addrs, ptr, size)
      /\ size \in [Inum -> 0..MAXFILE * BSIZE]
      /\ data \in [Block -> [0..BSIZE - 1 -> Byte]]
  BY CachedSolid, TypesOf DEF BlocksInductive
<1>3. ASSUME NEW j \in Inum, \A k \in 1..size[j] : ~HasByte(j, k)
      PROVE  SameFile(j, addrs, ptr, data, size, addrs', ptr', data', size')
  BY <1>1, <1>2, <1>3 DEF SameFile
<1>4. \A j \in Inum : SameFile(j, addrs, ptr, kept, size, addrs', ptr', kept', size')
  BY <1>1 DEF SameFile
<1>5. CASE \A j \in Inum : \A k \in 1..size[j] : ~HasByte(j, k)
  <2>1. \A j \in Inum : /\ SameFile(j, addrs, ptr, data, size, addrs', ptr', data', size')
                        /\ SameFile(j, addrs, ptr, kept, size, addrs', ptr', kept', size')
    BY <1>3, <1>4, <1>5
  <2> QED
    BY <1>1, <2>1, SameContent
<1>6. CASE \E i \in Inum : \E k \in 1..size[i] : HasByte(i, k)
  <2>0. PICK i \in Inum : \E k \in 1..size[i] : HasByte(i, k)
    BY <1>6
  <2>1. PICK m \in 1..size[i] : HasByte(i, m)
    BY <2>0
  <2>2. ASSUME NEW j \in Inum, j # i, NEW k \in 1..size[j] PROVE ~HasByte(j, k)
    <3>1. SpotOf((m - 1) \div BSIZE) \in Spot /\ SpotOf((k - 1) \div BSIZE) \in Spot
      BY <1>2, BytePlace
    <3>2. Addr(addrs[i], ptr, SpotOf((m - 1) \div BSIZE)) # 0
      BY <1>2, ByteUsed
    <3> QED
      BY <1>2, <2>1, <2>2, <3>1, <3>2 DEF Apart
  <2>3. Content = F /\ Content' = G /\ KeptContent = K /\ KeptContent' = K
    BY <1>1, ContentNow, ContentThen
  <2>4. G = [F EXCEPT ![i] = G[i]]
    <3>1. \A j \in Inum : j # i => SameFile(j, addrs, ptr, data, size, addrs', ptr', data', size')
      BY <1>3, <2>2
    <3> QED
      BY <3>1, OneFile
  <2>5. /\ Len(F[i]) = size[i] /\ F[i] = BytesOf(addrs[i], ptr, data, size[i])
        /\ Len(G[i]) = size[i] /\ G[i] = BytesOf(addrs[i], ptr, data', size[i])
        /\ Len(K[i]) = size[i] /\ K[i] = BytesOf(addrs[i], ptr, kept, size[i])
    BY <1>1, <1>2, ContentLen
  <2> HIDE DEF F, G, K
  <2>6. ASSUME NEW k \in 1..size[i] PROVE G[i][k] = K[i][k] \/ G[i][k] = F[i][k]
    <3> DEFINE x == Addr(addrs[i], ptr, SpotOf((k - 1) \div BSIZE))
               o == (k - 1) % BSIZE
    <3>1. G[i][k] = data'[x][o] /\ K[i][k] = kept[x][o] /\ F[i][k] = data[x][o]
      BY <2>5 DEF BytesOf
    <3> HIDE DEF x, o
    <3>2. data'[x] = kept[x] \/ data'[x] = data[x]
      BY <1>1, <1>2
    <3> QED
      BY <3>1, <3>2
  <2>7. BF!Mixed(G[i], K[i], F[i], 0, 0)
    <3>1. \A k \in 1..size[i] : k <= size[i] /\ k \notin 0 + 1..0
      BY <1>2, BlockConstants
    <3> QED
      BY <2>5, <2>6, <3>1 DEF BF!Mixed
  <2>8. K = [K EXCEPT ![i] = K[i]]
    <3>1. K = [j \in Inum |-> K[j]]
      BY DEF K, Files
    <3> QED
      BY <3>1
  <2>9. BF!Revert(F[i], G[i], K[i], K[i])
    BY <1>1, <2>7 DEF BF!Revert
  <2>10. BF!Step(F, G, K, K)
    BY <2>4, <2>8, <2>9 DEF BF!Step
  <2> QED
    BY <2>3, <2>10 DEF BF!Next
<1> QED
  BY <1>5, <1>6

LEMMA BlocksStep ==
  ASSUME BlocksInductive, BlocksInductive', [BlocksNext]_blockVars
  PROVE  [BF!Next]_<<Content, KeptContent, fault>>
<1>1. ASSUME UNCHANGED <<disk, logVars, addrs, size>>
      PROVE  UNCHANGED <<Content, KeptContent, fault>>
  <2>1. \A j \in Inum : /\ SameFile(j, addrs, ptr, data, size, addrs', ptr', data', size')
                        /\ SameFile(j, addrs, ptr, kept, size, addrs', ptr', kept', size')
    BY <1>1 DEF SameFile, disk, logVars
  <2> QED
    BY <1>1, <2>1, SameContent DEF logVars
<1>2. CASE UNCHANGED blockVars
  BY <1>1, <1>2 DEF blockVars
<1>3. CASE \E p \in Writer : (\E f \in File : filewrite(p, f)) \/ WriteRefused(p)
  BY <1>1, <1>3 DEF filewrite, WriteRefused
<1>4. CASE \E p \in Writer : writei(p)
  <2>1. \/ UNCHANGED <<disk, logVars, addrs, size, daddrs, off, ctx>>
        \/ \E i, at, n, done, c, e : Wrote(i, at, n, done, c, e)
    BY <1>4, WriteCases
  <2>2. CASE UNCHANGED <<disk, logVars, addrs, size, daddrs, off, ctx>>
    BY <1>1, <2>2
  <2>3. CASE \E i, at, n, done, c, e : Wrote(i, at, n, done, c, e)
    BY <2>3, WroteIsWrite
  <2> QED
    BY <2>1, <2>2, <2>3
<1>5. CASE \E f \in File : fileread(f)
  BY <1>1, <1>5, ReadKeeps
<1>6. CASE \E f \in File : sys_get_disk_lbn(f)
  BY <1>6, LbnCases, LocatedContent
<1>7. CASE \E i \in Inum : itrunc(i)
  BY <1>7, TruncIsTruncate
<1>8. CASE \E i \in Inum : Reopen(i)
  BY <1>8, ReopenContent
<1>9. CASE \E b \in Block : Recycle(b)
  BY <1>9, RecycleIsRevert
<1> QED
  BY <1>2, <1>3, <1>4, <1>5, <1>6, <1>7, <1>8, <1>9 DEF BlocksNext

LEMMA BlocksStart ==
  ASSUME BlocksInit
  PROVE  BF!Init
<1>1. /\ Content = Files(addrs, ptr, data, size) /\ KeptContent = Files(addrs, ptr, kept, size)
      /\ kept = data /\ fault = FALSE
  BY BlocksInitInductive, ContentNow DEF BlocksInit
<1>2. \A i \in Inum : size[i] = 0
  BY DEF BlocksInit
<1>3. \A i \in Inum : Content[i] = <<>>
  <2> TAKE i \in Inum
  <2>1. Content[i] = [k \in 1..0 |->
                  data[Addr(addrs[i], ptr, SpotOf((k - 1) \div BSIZE))][(k - 1) % BSIZE]]
    BY <1>1, <1>2 DEF Files, BytesOf
  <2> HIDE DEF Content
  <2> QED
    BY <2>1
<1>4. Content = [i \in Inum |-> Content[i]]
  BY <1>1 DEF Files
<1>5. KeptContent = Content
  BY <1>1
<1> HIDE DEF Content, KeptContent
<1> QED
  BY <1>1, <1>3, <1>4, <1>5 DEF BF!Init

\* Files are sequences of bytes: a chunk that writei() copies, whole or in part and
\* through whichever of the two levels of addresses, puts one run of bytes into one
\* file and nothing else, itrunc() empties one file, and reads, look-ups of a block
\* and evictions of an inode change no byte.  What a chunk puts into the file stays
\* when buffers are recycled; only of the block whose copyin() failed, less than BSIZE
\* bytes, may what was copied be lost.
THEOREM FilesAreBytes == BlocksSpec => IsFile
<1>1. BlocksInit => BF!Init
  BY BlocksStart
<1>2. BlocksInductive /\ BlocksInductive' /\ [BlocksNext]_blockVars
        => [BF!Next]_<<Content, KeptContent, fault>>
  BY BlocksStep
<1> QED
  BY <1>1, <1>2, BlocksInvariant, PTL DEF BlocksSpec, IsFile, BF!Spec, BF!vars
=============================================================================
