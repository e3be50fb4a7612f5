-------------------------------- MODULE Slab --------------------------------
(***************************************************************************)
(* The slab allocator of mp2 (slab.c) and the open files it serves         *)
(* (file.c): one cache of objects of one size, whose slabs come from       *)
(* kalloc(), and struct file, shared and counted by descriptors.           *)
(*                                                                         *)
(* The allocator works under cache->lock from end to end, so each of its   *)
(* calls is a step; filealloc() and fileclose() take the lock twice.       *)
(* A list or a free list is the set of its members: which slab or object   *)
(* comes first is not said.  s->list can be in one list only, so on[s]     *)
(* names it.                                                               *)
(***************************************************************************)
EXTENDS Integers, FiniteSets

CONSTANTS
  Proc,                \* processes
  Fd,                  \* places for a struct file pointer in a process
  Page,                \* pages of kalloc()
  CachePage,           \* the page of struct kmem_cache itself
  ObjsPerSlab,         \* objects in a slab
  ObjsInCache,         \* objects behind struct kmem_cache, in its own page
  MP2_MIN_AVAIL_SLAB,  \* available slabs that are kept
  NoObj                \* no file

ASSUME SlabAssumption ==
  /\ IsFiniteSet(Proc) /\ IsFiniteSet(Fd) /\ IsFiniteSet(Page)
  /\ CachePage \notin Page
  /\ ObjsPerSlab \in Nat \ {0} /\ ObjsInCache \in Nat \ {0}
  /\ MP2_MIN_AVAIL_SLAB \in Nat
  /\ NoObj \notin (Page \cup {CachePage}) \X Nat

VARIABLES
  freelist,  \* of each slab and of the cache
  in_use,    \* of each slab
  on,        \* the list a slab is on: "full", "partial", "free", or "none"
  kmem,      \* free pages
  ref,       \* of each struct file
  ofile,     \* the file pointers of the processes
  step, cur  \* what a process is at between two locked sections, and its file

pages == <<freelist, in_use, on, kmem>>
files == <<ref, ofile>>
vars == <<pages, files, step, cur>>

ObjsOf(s) == {s} \X (1..ObjsPerSlab)
InCacheObjs == {CachePage} \X (1..ObjsInCache)
ObjsIn(s) == IF s = CachePage THEN InCacheObjs ELSE ObjsOf(s)
Obj == (Page \X (1..ObjsPerSlab)) \cup InCacheObjs

Junk == ObjsPerSlab + 1  \* what kalloc() fills a page with is no count

Init ==
  /\ freelist = [s \in Page \cup {CachePage} |-> IF s = CachePage THEN InCacheObjs ELSE {}]
  /\ in_use = [s \in Page |-> Junk]
  /\ on = [s \in Page |-> "none"] /\ kmem = Page
  /\ ref = [o \in Obj |-> 0]
  /\ ofile = [p \in Proc |-> [d \in Fd |-> NoObj]]
  /\ step = [p \in Proc |-> "none"] /\ cur = [p \in Proc |-> NoObj]

\* The rest of the kernel takes and returns pages.
KallocElsewhere(s) ==
  /\ s \in kmem /\ kmem' = kmem \ {s}
  /\ UNCHANGED <<freelist, in_use, on, files, step, cur>>

KfreeElsewhere(s) ==
  /\ s \notin kmem /\ on[s] = "none" /\ kmem' = kmem \cup {s}
  /\ UNCHANGED <<freelist, in_use, on, files, step, cur>>

-----------------------------------------------------------------------------
\* kmem_cache_alloc(), as filealloc() calls it: 0 is returned when there is
\* no page.
Allocates(p, o) ==
  /\ step[p] = "none" /\ \E d \in Fd : ofile[p][d] = NoObj
  /\ step' = [step EXCEPT ![p] = "alloc"] /\ cur' = [cur EXCEPT ![p] = o]
  /\ UNCHANGED files

AllocInCache(p) ==
  \E o \in freelist[CachePage] :
    /\ Allocates(p, o)
    /\ freelist' = [freelist EXCEPT ![CachePage] = @ \ {o}]
    /\ UNCHANGED <<in_use, on, kmem>>

\* An object of slab s, whose free list is avail with n objects allocated.
TakeFrom(p, s, avail, n) ==
  \E o \in avail :
    /\ Allocates(p, o)
    /\ freelist' = [freelist EXCEPT ![s] = avail \ {o}]
    /\ in_use' = [in_use EXCEPT ![s] = n + 1]
    /\ on' = [on EXCEPT ![s] = IF n + 1 = ObjsPerSlab THEN "full" ELSE "partial"]

Has(list) == \E s \in Page : on[s] = list

AllocPartial(p, s) ==
  /\ freelist[CachePage] = {} /\ on[s] = "partial"
  /\ TakeFrom(p, s, freelist[s], in_use[s])
  /\ UNCHANGED kmem

AllocFree(p, s) ==
  /\ freelist[CachePage] = {} /\ ~Has("partial") /\ on[s] = "free"
  /\ TakeFrom(p, s, freelist[s], in_use[s])
  /\ UNCHANGED kmem

NewCount(s) == 0

AllocNew(p, s) ==
  /\ freelist[CachePage] = {} /\ ~Has("partial") /\ ~Has("free")
  /\ s \in kmem /\ kmem' = kmem \ {s}
  /\ TakeFrom(p, s, ObjsOf(s), NewCount(s))

-----------------------------------------------------------------------------
\* filealloc()'s second section, and the caller's use of what it returns.
filealloc(p, d) ==
  /\ step[p] = "alloc" /\ ofile[p][d] = NoObj
  /\ ref' = [ref EXCEPT ![cur[p]] = 1]
  /\ ofile' = [ofile EXCEPT ![p][d] = cur[p]]
  /\ step' = [step EXCEPT ![p] = "none"] /\ cur' = [cur EXCEPT ![p] = NoObj]
  /\ UNCHANGED pages

\* Mutant: only the first duplicate is counted.
DupRefOnce(f) == IF ref[f] = 1 THEN 2 ELSE ref[f]

DupRef(f) == ref[f] + 1

\* filedup(), called by dup() (q = p) and by fork() for its child q.
filedup(p, d, q, e) ==
  LET f == ofile[p][d]
  IN  /\ step[p] = "none" /\ step[q] = "none"
      /\ f # NoObj /\ ref[f] >= 1 /\ ofile[q][e] = NoObj
      /\ ref' = [ref EXCEPT ![f] = DupRef(f)]
      /\ ofile' = [ofile EXCEPT ![q][e] = f]
      /\ UNCHANGED <<pages, step, cur>>

\* Mutant: the count is looked at before it is decremented.
LastRefEarly(f) == ref[f] <= 2

LastRef(f) == ref[f] = 1

\* fileclose()'s first section; the last one goes on to pipeclose() or iput().
fileclose(p, d) ==
  LET f == ofile[p][d]
  IN  /\ step[p] = "none" /\ f # NoObj /\ ref[f] >= 1
      /\ ofile' = [ofile EXCEPT ![p][d] = NoObj]
      /\ IF LastRef(f)
         THEN /\ ref' = [ref EXCEPT ![f] = 0]
              /\ step' = [step EXCEPT ![p] = "close"] /\ cur' = [cur EXCEPT ![p] = f]
         ELSE ref' = [ref EXCEPT ![f] = @ - 1] /\ UNCHANGED <<step, cur>>
      /\ UNCHANGED pages

-----------------------------------------------------------------------------
\* kmem_cache_free(), at the end of the last fileclose().
Frees(p) ==
  /\ step[p] = "close"
  /\ step' = [step EXCEPT ![p] = "none"] /\ cur' = [cur EXCEPT ![p] = NoObj]
  /\ UNCHANGED files

FreeInCache(p) ==
  /\ Frees(p) /\ cur[p] \in InCacheObjs
  /\ freelist' = [freelist EXCEPT ![CachePage] = @ \cup {cur[p]}]
  /\ UNCHANGED <<in_use, on, kmem>>

\* Mutant: a full slab stays on its list.
ListAfterKept(s, n) == on[s]

ListAfter(s, n) == IF n = ObjsPerSlab - 1 THEN "partial" ELSE on[s]

\* Mutant: the slab is looked at as if the object had not been counted.
EmptyEarly(n) == n <= 1

Empty(n) == n = 0

\* Mutant: one slab more is kept.
EnoughOthersLate(s) ==
  Cardinality({t \in Page \ {s} : on[t] \in {"partial", "free"}}) > MP2_MIN_AVAIL_SLAB

EnoughOthers(s) ==
  Cardinality({t \in Page \ {s} : on[t] \in {"partial", "free"}}) >= MP2_MIN_AVAIL_SLAB

FreeToSlab(p, s) ==
  LET n == in_use[s] - 1
  IN  /\ Frees(p) /\ cur[p] \in ObjsOf(s)
      /\ IF Empty(n) /\ EnoughOthers(s)
         THEN /\ freelist' = [freelist EXCEPT ![s] = {}]
              /\ in_use' = [in_use EXCEPT ![s] = Junk]
              /\ on' = [on EXCEPT ![s] = "none"] /\ kmem' = kmem \cup {s}
         ELSE /\ freelist' = [freelist EXCEPT ![s] = @ \cup {cur[p]}]
              /\ in_use' = [in_use EXCEPT ![s] = n]
              /\ on' = [on EXCEPT ![s] = IF Empty(n) THEN "free" ELSE ListAfter(s, n)]
              /\ UNCHANGED kmem

Next ==
  \/ \E s \in Page : KallocElsewhere(s) \/ KfreeElsewhere(s)
  \/ \E p \in Proc : AllocInCache(p) \/ FreeInCache(p)
  \/ \E p \in Proc, s \in Page :
       AllocPartial(p, s) \/ AllocFree(p, s) \/ AllocNew(p, s) \/ FreeToSlab(p, s)
  \/ \E p \in Proc, d \in Fd : filealloc(p, d) \/ fileclose(p, d)
  \/ \E p, q \in Proc, d, e \in Fd : filedup(p, d, q, e)

Spec == Init /\ [][Next]_vars

(***************************************************************************)
(* Properties.                                                             *)
(***************************************************************************)
Slabs == {s \in Page : on[s] # "none"}
Places(o) == {x \in Proc \X Fd : ofile[x[1]][x[2]] = o}
InHand(o) == \E p \in Proc : cur[p] = o

\* The state has its type; a slab's in_use is never what kalloc() left there.
TypeOK ==
  /\ freelist \in [Page \cup {CachePage} -> SUBSET Obj]
  /\ in_use \in [Page -> 0..Junk] /\ \A s \in Slabs : in_use[s] <= ObjsPerSlab
  /\ on \in [Page -> {"full", "partial", "free", "none"}]
  /\ kmem \subseteq Page /\ kmem \cap Slabs = {}
  /\ ref \in [Obj -> Nat]
  /\ ofile \in [Proc -> [Fd -> Obj \cup {NoObj}]]
  /\ step \in [Proc -> {"none", "alloc", "close"}]
  /\ cur \in [Proc -> Obj \cup {NoObj}]

\* A slab is on the list that its objects put it on, and in_use counts them:
\* kmem_cache_alloc() takes s->freelist of a partial or free slab unseen.
SlabsSorted ==
  \A s \in Slabs :
    /\ in_use[s] + Cardinality(freelist[s]) = ObjsPerSlab
    /\ on[s] = CASE in_use[s] = 0 -> "free"
                 [] in_use[s] = ObjsPerSlab -> "full"
                 [] OTHER -> "partial"

\* An object is free or somebody's, never both and never neither, and what is
\* somebody's lies in a page the cache still has: no struct file leaks, is
\* given out twice or is used after its slab has gone back to kalloc().
ObjectsAccounted ==
  \A s \in Page \cup {CachePage} :
    \A o \in ObjsIn(s) :
      IF s = CachePage \/ s \in Slabs
      THEN o \in freelist[s] <=> Places(o) = {} /\ ~InHand(o)
      ELSE Places(o) = {} /\ ~InHand(o)

\* f->ref is the number of pointers to f that filedup() and filealloc() gave
\* out and fileclose() has not taken back.
RefExact == \A o \in Obj : ref[o] = Cardinality(Places(o))

\* A file is closed, or set up, by one process while nobody else has it.
ClosedOnce ==
  \A p \in Proc : cur[p] # NoObj =>
    Places(cur[p]) = {} /\ \A q \in Proc \ {p} : cur[q] # cur[p]

\* Not more than MP2_MIN_AVAIL_SLAB slabs lie unused (mp2-spec.md:633).
FewFree == Cardinality({s \in Page : on[s] = "free"}) <= MP2_MIN_AVAIL_SLAB
=============================================================================
