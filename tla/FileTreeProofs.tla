--------------------------- MODULE FileTreeProofs ---------------------------
(***************************************************************************)
(* What TLAPS proves of FileTree: for any number of processes and inodes,  *)
(* any names, paths, links and first tree, the counts nlink and ref of the *)
(* inodes are those of the names and of the pointers, what is named or     *)
(* held is allocated, and the directories form a tree.                     *)
(*                                                                         *)
(* The argument has three layers.  Sound(t, a, s) says of a table t of     *)
(* inodes that its links and references are right when a links have been   *)
(* announced and s references are held; the first part shows what iget(),  *)
(* iput(), dirlink() and the other operations do to it.  Then Step carries *)
(* this over to a step of one process, whose pointers change with the      *)
(* table.  The last part goes through the actions.                         *)
(***************************************************************************)
EXTENDS FileTree, FiniteSetTheorems, WellFoundedInduction, TLAPS

Record ==
  [type : {"free", "file", "dir", "symlink"}, nlink : Nat, ref : Nat,
   up : Inode \union {0}, names : [Name -> Inode \union {0}],
   target : Targets \union {<<>>}, readable : BOOLEAN, lost : BOOLEAN, leaked : Nat]
Table == [Inode -> Record]

NamesIn(t, i) == {d \in Inode \X Name : t[d[1]].names[d[2]] = i}
SubdirsIn(t, i) ==
  {d \in Inode : t[d].type = "dir" /\ t[d].up = i /\ NamesIn(t, d) # {}}

Bit(b) == IF b THEN 1 ELSE 0

\* The names of an inode, the ".." of its subdirectories, and the root's own link.
Claims(t, i) ==
  Cardinality(NamesIn(t, i)) + Cardinality(SubdirsIn(t, i)) + Bit(i = ROOTINO)

\* Only directories have names, and only of what is allocated; a directory has
\* one name, in the directory above it, and the root has none.
Shape(t) ==
  /\ t \in Table /\ t[ROOTINO].type = "dir"
  /\ \A i \in Inode : /\ t[i].type = "dir" => t[i].up # 0
                      /\ t[i].type = "free" => t[i].nlink = 0
  /\ \A d \in Inode, n \in Name :
       t[d].names[n] # 0 =>
         /\ t[d].type = "dir"
         /\ t[d].names[n] # d /\ t[d].names[n] # ROOTINO
         /\ t[t[d].names[n]].type # "free"
         /\ t[t[d].names[n]].type = "dir" =>
              /\ t[t[d].names[n]].up = d
              /\ \A m \in Name : t[d].names[m] = t[d].names[n] => m = n

\* nlink is what claims a link, announced links included; more than that only
\* if a directory was freed with a name of the inode.
Links(t, a) ==
  \A i \in Inode :
    IF t[i].type = "free" THEN a[i] = 0
    ELSE /\ t[i].nlink >= Claims(t, i) + a[i]
         /\ ~t[i].lost => t[i].nlink = Claims(t, i) + a[i]

InTime(t) == \A i \in Inode : t[i].type # "free" /\ t[i].nlink = 0 => t[i].ref > 0

Counts == [Inode -> Nat]
Plus(s, i)  == [s EXCEPT ![i] = @ + 1]
Minus(s, i) == [s EXCEPT ![i] = @ - 1]

Sound(t, a, s) ==
  /\ a \in Counts /\ s \in Counts
  /\ Shape(t) /\ Links(t, a) /\ InTime(t)
  /\ \A i \in Inode : t[i].ref = s[i] + t[i].leaked

\* What somebody holds stays what it is.
Keeps(t, u, s) ==
  \A i \in Inode : s[i] > 0 /\ t[i].type # "free" => u[i].type = t[i].type

-----------------------------------------------------------------------------
(* Names and subdirectories *)

\* The assumptions in the form the proofs use.
LEMMA Constants ==
  /\ NINODES \in Nat \ {0} /\ ROOTINO \in Inode /\ 0 \notin Inode
  /\ IsFiniteSet(Inode) /\ IsFiniteSet(Name) /\ IsFiniteSet(Proc)
  /\ IsFiniteSet(Inode \X Name)
  /\ Inode \subseteq Nat
<1>1. IsFiniteSet(Inode)
  BY FileTreeAssumption, FS_Interval DEF Inode
<1>2. IsFiniteSet(Inode \X Name)
  BY <1>1, FileTreeAssumption, FS_Product
<1> QED
  BY <1>1, <1>2, FileTreeAssumption DEF Inode, ROOTINO

\* The counts are numbers.
LEMMA ClaimsNat ==
  ASSUME NEW t, NEW i
  PROVE  /\ IsFiniteSet(NamesIn(t, i)) /\ Cardinality(NamesIn(t, i)) \in Nat
         /\ IsFiniteSet(SubdirsIn(t, i)) /\ Cardinality(SubdirsIn(t, i)) \in Nat
         /\ Claims(t, i) \in Nat
<1>1. NamesIn(t, i) \in SUBSET (Inode \X Name) /\ SubdirsIn(t, i) \in SUBSET Inode
  BY DEF NamesIn, SubdirsIn
<1>2. /\ IsFiniteSet(NamesIn(t, i)) /\ Cardinality(NamesIn(t, i)) \in Nat
      /\ IsFiniteSet(SubdirsIn(t, i)) /\ Cardinality(SubdirsIn(t, i)) \in Nat
  BY <1>1, Constants, FS_Subset, FS_CardinalityType
<1> QED
  BY <1>2 DEF Claims, Bit

\* A name claims a link.
LEMMA NamedClaims ==
  ASSUME NEW t, NEW d \in Inode, NEW n \in Name, NEW i, t[d].names[n] = i
  PROVE  NamesIn(t, i) # {} /\ Cardinality(NamesIn(t, i)) >= 1
<1>1. <<d, n>> \in NamesIn(t, i)
  BY DEF NamesIn
<1> QED
  BY <1>1, ClaimsNat, FS_EmptySet

\* A table with the same directories has the same claims.
LEMMA SameClaims ==
  ASSUME NEW t, NEW u, u \in Table, Shape(t),
         \A i \in Inode : /\ u[i].names = t[i].names /\ u[i].type = t[i].type
                          /\ u[i].up = t[i].up
                          /\ u[i].type = "free" => u[i].nlink = 0
  PROVE  Shape(u) /\ \A i \in Inode : Claims(u, i) = Claims(t, i)
<1>1. Shape(u)
  <2>1. ROOTINO \in Inode
    BY Constants
  <2>2. \A d \in Inode, n \in Name : t[d].names[n] \in Inode \cup {0}
    BY DEF Shape, Table, Record
  <2> QED
    BY <2>1, <2>2 DEF Shape
<1>2. \A i \in Inode : NamesIn(u, i) = NamesIn(t, i)
  BY DEF NamesIn
<1>3. \A i \in Inode : SubdirsIn(u, i) = SubdirsIn(t, i)
  BY <1>2 DEF SubdirsIn
<1> QED
  BY <1>1, <1>2, <1>3 DEF Claims

\* A reference more changes no type.
LEMMA GetType ==
  ASSUME NEW t \in Table, NEW i \in Inode, NEW j \in Inode
  PROVE  Get(t, i)[j].type = t[j].type
<1>1. t[j] \in Record /\ t[i] \in Record
  BY DEF Table
<1>2. CASE j = i
  BY <1>1, <1>2 DEF Get, Table, Record
<1>3. CASE j # i
  BY <1>3 DEF Get, Table
<1> QED
  BY <1>2, <1>3

\* iget(): a reference more.
LEMMA GetSound ==
  ASSUME NEW t, NEW a, NEW s, NEW i \in Inode, Sound(t, a, s)
  PROVE  /\ Sound(Get(t, i), a, Plus(s, i))
         /\ \A j \in Inode : /\ Get(t, i)[j].type = t[j].type /\ Get(t, i)[j].up = t[j].up
                             /\ Get(t, i)[j].names = t[j].names
                             /\ Get(t, i)[j].nlink = t[j].nlink
<1> DEFINE u == Get(t, i)
<1>1. t \in Table /\ s \in Counts
  BY DEF Sound, Shape
<1>2. u \in Table
  BY <1>1 DEF Get, Table, Record
<1>3. \A j \in Inode :
        /\ u[j].type = t[j].type /\ u[j].up = t[j].up /\ u[j].names = t[j].names
        /\ u[j].nlink = t[j].nlink /\ u[j].lost = t[j].lost /\ u[j].leaked = t[j].leaked
        /\ u[j].ref = t[j].ref + Bit(i = j)
  BY <1>1 DEF Get, Table, Record, Bit
<1>4. Shape(u) /\ \A j \in Inode : Claims(u, j) = Claims(t, j)
  <2> HIDE DEF u
  <2> QED
    BY <1>2, <1>3, SameClaims DEF Sound, Shape
<1>5. Plus(s, i) \in Counts /\ \A j \in Inode : Plus(s, i)[j] = s[j] + Bit(i = j)
  BY <1>1 DEF Counts, Plus, Bit
<1> HIDE DEF u
<1>6. Links(u, a) /\ InTime(u)
  <2>1. \A j \in Inode : t[j].ref \in Nat
    BY <1>1 DEF Table, Record
  <2> QED
    BY <1>3, <1>4, <2>1 DEF Sound, Links, InTime, Bit
<1>7. \A j \in Inode : u[j].ref = Plus(s, i)[j] + u[j].leaked
  <2>1. \A j \in Inode : s[j] \in Nat /\ t[j].leaked \in Nat
    BY <1>1 DEF Table, Record, Counts
  <2> QED
    BY <1>3, <1>5, <2>1 DEF Sound, Bit
<1>8. Sound(u, a, Plus(s, i))
  BY <1>4, <1>5, <1>6, <1>7 DEF Sound
<1> QED
  BY <1>3, <1>8 DEF u

\* iput() of the last reference to an inode without links: it has no names, and no
\* subdirectories that would lose theirs.
LEMMA FreedSound ==
  ASSUME NEW t, NEW a, NEW s, NEW i \in Inode, Sound(t, a, s), s[i] > 0, LastPut(t[i])
  PROVE  /\ Sound(Freed(t, i), a, Minus(s, i))
         /\ Keeps(t, Freed(t, i), Minus(s, i))
         /\ \A j \in Inode : j # i => /\ Freed(t, i)[j].type = t[j].type
                                      /\ Freed(t, i)[j].nlink = t[j].nlink
                                      /\ Freed(t, i)[j].names = t[j].names
                                      /\ Freed(t, i)[j].up = t[j].up
<1> DEFINE u == Freed(t, i)
<1>1. t \in Table /\ s \in Counts /\ a \in Counts /\ Shape(t) /\ Links(t, a) /\ InTime(t)
  BY DEF Sound, Shape
<1>2. s[i] = 1 /\ t[i].leaked = 0 /\ t[i].ref = 1 /\ t[i].nlink = 0
  BY <1>1 DEF Sound, LastPut, Table, Record, Counts
<1>3. u \in Table
  <2>1. [Free EXCEPT !.ref = t[i].ref - 1] \in Record
    <3>1. t[i].ref - 1 \in Nat
      BY <1>2
    <3>2. Free \in Record
      BY DEF Free, NoNames, Record
    <3> QED
      BY <3>1, <3>2 DEF Record
  <2>2. \A j \in Inode : t[j] \in Record /\ [t[j] EXCEPT !.lost = TRUE] \in Record
    BY <1>1 DEF Table, Record
  <2> QED
    BY <2>1, <2>2 DEF Freed, Table
<1>4. /\ u[i].type = "free" /\ u[i].nlink = 0 /\ u[i].ref = 0 /\ u[i].leaked = 0
      /\ \A n \in Name : u[i].names[n] = 0
  BY <1>2 DEF Freed, Free, NoNames
<1>5. \A j \in Inode : j # i =>
        /\ u[j].type = t[j].type /\ u[j].up = t[j].up /\ u[j].names = t[j].names
        /\ u[j].nlink = t[j].nlink /\ u[j].leaked = t[j].leaked /\ u[j].ref = t[j].ref
        /\ u[j].lost = (t[j].lost \/ \E n \in Name : t[i].names[n] = j)
  <2> TAKE j \in Inode
  <2> HAVE j # i
  <2>1. t[j] \in Record /\ t[j].lost \in BOOLEAN
    BY <1>1 DEF Table, Record
  <2>2. u[j] = IF \E n \in Name : t[i].names[n] = j THEN [t[j] EXCEPT !.lost = TRUE] ELSE t[j]
    BY DEF Freed
  <2>3. CASE \E n \in Name : t[i].names[n] = j
    <3>1. u[j] = [t[j] EXCEPT !.lost = TRUE]
      BY <2>2, <2>3
    <3> HIDE DEF u
    <3> QED
      BY <2>1, <2>3, <3>1 DEF Record
  <2>4. CASE ~\E n \in Name : t[i].names[n] = j
    <3>1. u[j] = t[j]
      BY <2>2, <2>4
    <3> HIDE DEF u
    <3> QED
      BY <2>1, <2>4, <3>1
  <2> QED
    BY <2>3, <2>4
<1> HIDE DEF u
<1>6. /\ \A d \in Inode, n \in Name : t[d].names[n] # i
      /\ \A d \in Inode : d \notin SubdirsIn(t, i) \/ t[i].type = "free"
      /\ i # ROOTINO /\ a[i] = 0
  <2>1. CASE t[i].type = "free"
    BY <1>1, <2>1, Constants DEF Shape, Links
  <2>2. CASE t[i].type # "free"
    <3>1. Claims(t, i) + a[i] <= 0
      BY <1>1, <1>2, <2>2 DEF Links
    <3>2. Claims(t, i) \in Nat /\ a[i] \in Nat
      BY <1>1, ClaimsNat DEF Counts
    <3>3. /\ Cardinality(NamesIn(t, i)) = 0 /\ Cardinality(SubdirsIn(t, i)) = 0
          /\ i # ROOTINO /\ a[i] = 0
      BY <3>1, <3>2, ClaimsNat DEF Claims, Bit
    <3>4. NamesIn(t, i) = {} /\ SubdirsIn(t, i) = {}
      BY <3>3, ClaimsNat, FS_EmptySet
    <3> QED
      BY <3>3, <3>4, NamedClaims
  <2> QED
    BY <2>1, <2>2
<1>7. \A j \in Inode : (\E n \in Name : t[i].names[n] = j) => t[j].type # "dir"
  <2> SUFFICES ASSUME NEW n \in Name, t[i].names[n] \in Inode,
                      t[t[i].names[n]].type = "dir"
               PROVE  FALSE
    OBVIOUS
  <2> DEFINE j == t[i].names[n]
  <2>1. t[i].type = "dir" /\ t[j].up = i
    BY <1>1, Constants DEF Shape
  <2>2. NamesIn(t, j) # {}
    BY NamedClaims
  <2> QED
    BY <1>6, <2>1, <2>2 DEF SubdirsIn
<1>8. Shape(u)
  <2>1. \A d \in Inode, n \in Name : t[d].names[n] \in Inode \cup {0}
    BY <1>1 DEF Table, Record
  <2>2. ASSUME NEW d \in Inode, NEW n \in Name, u[d].names[n] # 0
        PROVE  /\ u[d].type = "dir"
               /\ u[d].names[n] # d /\ u[d].names[n] # ROOTINO
               /\ u[u[d].names[n]].type # "free"
               /\ u[u[d].names[n]].type = "dir" =>
                    /\ u[u[d].names[n]].up = d
                    /\ \A m \in Name : u[d].names[m] = u[d].names[n] => m = n
    <3>1. d # i /\ u[d].names = t[d].names /\ u[d].type = t[d].type
      BY <1>4, <1>5, <2>2
    <3>2. t[d].names[n] \in Inode /\ t[d].names[n] # i
      BY <1>6, <2>1, <2>2, <3>1
    <3> QED
      BY <1>1, <1>5, <2>2, <3>1, <3>2 DEF Shape
  <2>3. /\ u[ROOTINO].type = "dir"
        /\ \A j \in Inode : /\ u[j].type = "dir" => u[j].up # 0
                            /\ u[j].type = "free" => u[j].nlink = 0
    <3>1. /\ t[ROOTINO].type = "dir"
          /\ \A j \in Inode : /\ t[j].type = "dir" => t[j].up # 0
                              /\ t[j].type = "free" => t[j].nlink = 0
      BY <1>1 DEF Shape
    <3> QED
      BY <1>4, <1>5, <1>6, <3>1, Constants
  <2> QED
    BY <1>3, <2>2, <2>3 DEF Shape
<1>9. \A j \in Inode : j # i => \/ NamesIn(u, j) = NamesIn(t, j)
                                \/ /\ NamesIn(u, j) \subseteq NamesIn(t, j)
                                   /\ u[j].lost /\ t[j].type # "dir"
  <2> TAKE j \in Inode
  <2> HAVE j # i
  <2>1. NamesIn(u, j) \subseteq NamesIn(t, j)
    <3> SUFFICES ASSUME NEW d \in Inode, NEW n \in Name, u[d].names[n] = j
                 PROVE  t[d].names[n] = j
      BY DEF NamesIn
    <3>1. d # i
      BY <1>4, Constants
    <3> QED
      BY <1>5, <3>1
  <2>2. CASE \E n \in Name : t[i].names[n] = j
    BY <1>5, <1>7, <2>1, <2>2
  <2>3. CASE ~\E n \in Name : t[i].names[n] = j
    <3>1. NamesIn(t, j) \subseteq NamesIn(u, j)
      BY <1>5, <2>3 DEF NamesIn
    <3> QED
      BY <2>1, <3>1
  <2> QED
    BY <2>2, <2>3
<1>10. \A j \in Inode : SubdirsIn(u, j) = SubdirsIn(t, j)
  <2> TAKE j \in Inode
  <2>1. i \notin SubdirsIn(t, j) /\ i \notin SubdirsIn(u, j)
    <3>1. NamesIn(t, i) = {}
      BY <1>6 DEF NamesIn
    <3> QED
      BY <1>4, <3>1 DEF SubdirsIn
  <2>2. \A d \in Inode : d # i /\ t[d].type = "dir" => NamesIn(u, d) = NamesIn(t, d)
    BY <1>9
  <2> QED
    BY <1>5, <2>1, <2>2 DEF SubdirsIn
<1>11. \A j \in Inode : j # i => /\ Claims(u, j) <= Claims(t, j)
                                 /\ ~u[j].lost => Claims(u, j) = Claims(t, j)
  <2> TAKE j \in Inode
  <2> HAVE j # i
  <2>1. Cardinality(NamesIn(u, j)) <= Cardinality(NamesIn(t, j))
    BY <1>9, ClaimsNat, FS_Subset
  <2>2. /\ Cardinality(NamesIn(u, j)) \in Nat /\ Cardinality(NamesIn(t, j)) \in Nat
        /\ Cardinality(SubdirsIn(t, j)) \in Nat
    BY ClaimsNat
  <2> QED
    BY <1>9, <1>10, <2>1, <2>2 DEF Claims, Bit
<1>12. Links(u, a)
  <2> SUFFICES ASSUME NEW j \in Inode, j # i, u[j].type # "free"
               PROVE  /\ u[j].nlink >= Claims(u, j) + a[j]
                      /\ ~u[j].lost => u[j].nlink = Claims(u, j) + a[j]
    BY <1>1, <1>4, <1>5, <1>6 DEF Links
  <2>1. /\ Claims(u, j) \in Nat /\ Claims(t, j) \in Nat /\ a[j] \in Nat /\ t[j].nlink \in Nat
        /\ Claims(u, j) <= Claims(t, j) /\ (~u[j].lost => Claims(u, j) = Claims(t, j))
    BY <1>1, <1>11, ClaimsNat DEF Counts, Table, Record
  <2>2. /\ u[j].nlink = t[j].nlink /\ (~u[j].lost => ~t[j].lost)
        /\ t[j].nlink >= Claims(t, j) + a[j]
        /\ ~t[j].lost => t[j].nlink = Claims(t, j) + a[j]
    BY <1>1, <1>5 DEF Links
  <2> QED
    BY <2>1, <2>2
<1>13. InTime(u)
  BY <1>1, <1>4, <1>5 DEF InTime
<1>14. Minus(s, i) \in Counts /\ Minus(s, i)[i] = 0
       /\ \A j \in Inode : j # i => Minus(s, i)[j] = s[j]
  BY <1>1, <1>2 DEF Counts, Minus
<1>15. \A j \in Inode : u[j].ref = Minus(s, i)[j] + u[j].leaked
  BY <1>4, <1>5, <1>14 DEF Sound
<1> QED
  BY <1>1, <1>5, <1>8, <1>12, <1>13, <1>14, <1>15 DEF Sound, Keeps, u

\* iput(): a reference less, and what nobody names or holds any more is freed.
LEMMA PutSound ==
  ASSUME NEW t, NEW a, NEW s, NEW i \in Inode, Sound(t, a, s), s[i] > 0
  PROVE  /\ Sound(Put(t, i), a, Minus(s, i))
         /\ Keeps(t, Put(t, i), Minus(s, i))
         /\ \A j \in Inode : j # i \/ t[i].nlink # 0 \/ s[i] > 1 =>
              /\ Put(t, i)[j].type = t[j].type /\ Put(t, i)[j].nlink = t[j].nlink
              /\ Put(t, i)[j].names = t[j].names /\ Put(t, i)[j].up = t[j].up
<1>1. t \in Table /\ s \in Counts /\ a \in Counts /\ Shape(t) /\ Links(t, a) /\ InTime(t)
  BY DEF Sound, Shape
<1>2. /\ t[i].ref \in Nat /\ s[i] \in Nat /\ t[i].leaked \in Nat /\ t[i].nlink \in Nat
      /\ t[i].ref = s[i] + t[i].leaked
  BY <1>1 DEF Sound, Table, Record, Counts
<1>3. CASE LastPut(t[i])
  <2>1. Put(t, i) = Freed(t, i)
    BY <1>3 DEF Put
  <2>2. t[i].nlink = 0 /\ ~(s[i] > 1)
    BY <1>2, <1>3 DEF LastPut
  <2>3. Sound(Freed(t, i), a, Minus(s, i)) /\ Keeps(t, Freed(t, i), Minus(s, i))
    BY <1>3, FreedSound
  <2>4. \A j \in Inode : j # i => /\ Freed(t, i)[j].type = t[j].type
                                 /\ Freed(t, i)[j].nlink = t[j].nlink
                                 /\ Freed(t, i)[j].names = t[j].names
                                 /\ Freed(t, i)[j].up = t[j].up
    BY <1>3, FreedSound
  <2> QED
    BY <2>1, <2>2, <2>3, <2>4
<1>4. CASE ~LastPut(t[i])
  <2> DEFINE u == Put(t, i)
  <2>1. u = [t EXCEPT ![i].ref = @ - 1]
    BY <1>4 DEF Put
  <2>2. u \in Table
    <3>1. t[i] \in Record /\ t[i].ref - 1 \in Nat
      BY <1>1, <1>2, <1>4 DEF Table, LastPut
    <3>2. [t[i] EXCEPT !.ref = @ - 1] \in Record
      BY <3>1 DEF Record
    <3>3. u = [t EXCEPT ![i] = [t[i] EXCEPT !.ref = @ - 1]]
      BY <2>1
    <3> HIDE DEF u
    <3> QED
      BY <1>1, <3>2, <3>3 DEF Table
  <2>3. \A j \in Inode :
          /\ u[j].type = t[j].type /\ u[j].up = t[j].up /\ u[j].names = t[j].names
          /\ u[j].nlink = t[j].nlink /\ u[j].lost = t[j].lost /\ u[j].leaked = t[j].leaked
          /\ u[j].ref = t[j].ref - Bit(i = j)
    BY <1>1, <2>1 DEF Table, Record, Bit
  <2> HIDE DEF u
  <2>4. Shape(u) /\ \A j \in Inode : Claims(u, j) = Claims(t, j)
    BY <1>1, <2>2, <2>3, SameClaims DEF Shape
  <2>5. Links(u, a)
    BY <1>1, <2>3, <2>4 DEF Links
  <2>6. InTime(u)
    <3>1. \A j \in Inode : t[j].ref \in Nat
      BY <1>1 DEF Table, Record
    <3> QED
      BY <1>1, <1>2, <1>4, <2>3, <3>1 DEF InTime, LastPut, Bit
  <2>7. Minus(s, i) \in Counts /\ \A j \in Inode : Minus(s, i)[j] = s[j] - Bit(i = j)
    BY <1>1, <1>2 DEF Counts, Minus, Bit
  <2>8. \A j \in Inode : u[j].ref = Minus(s, i)[j] + u[j].leaked
    <3>1. \A j \in Inode : s[j] \in Nat /\ t[j].leaked \in Nat
      BY <1>1 DEF Table, Record, Counts
    <3> QED
      BY <2>3, <2>7, <3>1 DEF Sound, Bit
  <2> QED
    BY <1>1, <2>3, <2>4, <2>5, <2>6, <2>7, <2>8 DEF Sound, Keeps, u
<1> QED
  BY <1>3, <1>4

\* The directories are the same; links are announced or taken back, references
\* are lost, permissions change.
LEMMA SameSound ==
  ASSUME NEW t, NEW a, NEW s, Sound(t, a, s),
         NEW u \in Table, NEW b \in Counts, NEW r \in Counts,
         \A i \in Inode :
           /\ u[i].names = t[i].names /\ u[i].type = t[i].type /\ u[i].up = t[i].up
           /\ u[i].lost = t[i].lost /\ u[i].nlink = t[i].nlink + b[i] - a[i]
           /\ t[i].type = "free" => b[i] = 0
           /\ u[i].ref = r[i] + u[i].leaked
           /\ u[i].nlink # t[i].nlink \/ u[i].ref < t[i].ref => r[i] > 0
  PROVE  Sound(u, b, r)
<1>1. t \in Table /\ s \in Counts /\ a \in Counts /\ Shape(t) /\ Links(t, a) /\ InTime(t)
  BY DEF Sound, Shape
<1>2. \A i \in Inode : /\ t[i].ref \in Nat /\ t[i].nlink \in Nat /\ a[i] \in Nat /\ b[i] \in Nat
                       /\ u[i].ref \in Nat /\ u[i].leaked \in Nat /\ r[i] \in Nat
                       /\ Claims(t, i) \in Nat
  BY <1>1, ClaimsNat DEF Table, Record, Counts
<1>3. \A i \in Inode : u[i].type = "free" => u[i].nlink = 0
  BY <1>1, <1>2 DEF Shape, Links
<1>4. Shape(u) /\ \A i \in Inode : Claims(u, i) = Claims(t, i)
  BY <1>1, <1>3, SameClaims
<1>5. Links(u, b)
  BY <1>1, <1>2, <1>4 DEF Links
<1>6. InTime(u)
  BY <1>1, <1>2 DEF InTime
<1> QED
  BY <1>4, <1>5, <1>6 DEF Sound

\* link() announces a name.
LEMMA RaisedSound ==
  ASSUME NEW t, NEW a, NEW s, NEW i \in Inode, Sound(t, a, s), s[i] > 0,
         t[i].type # "free"
  PROVE  /\ Sound(Raised(t, i), Plus(a, i), s)
         /\ \A j \in Inode : Raised(t, i)[j].type = t[j].type
<1> DEFINE u == Raised(t, i)
<1>1. t \in Table /\ s \in Counts /\ a \in Counts
  BY DEF Sound, Shape
<1>2. u \in Table
  BY <1>1 DEF Raised, Table, Record
<1>3. Plus(a, i) \in Counts /\ \A j \in Inode : Plus(a, i)[j] = a[j] + Bit(i = j)
  BY <1>1 DEF Counts, Plus, Bit
<1>4. \A j \in Inode :
        /\ u[j].type = t[j].type /\ u[j].up = t[j].up /\ u[j].names = t[j].names
        /\ u[j].lost = t[j].lost /\ u[j].leaked = t[j].leaked /\ u[j].ref = t[j].ref
        /\ u[j].nlink = t[j].nlink + Bit(i = j)
  BY <1>1 DEF Raised, Table, Record, Bit
<1> HIDE DEF u
<1>5. \A j \in Inode :
        /\ t[j].nlink \in Nat /\ t[j].ref \in Nat /\ a[j] \in Nat
        /\ t[j].type = "free" => a[j] = 0
        /\ t[j].ref = s[j] + t[j].leaked
  BY <1>1 DEF Table, Record, Counts, Sound, Links
<1>6. Sound(u, Plus(a, i), s)
  <2>1. \A j \in Inode :
          /\ u[j].names = t[j].names /\ u[j].type = t[j].type /\ u[j].up = t[j].up
          /\ u[j].lost = t[j].lost /\ u[j].nlink = t[j].nlink + Plus(a, i)[j] - a[j]
          /\ t[j].type = "free" => Plus(a, i)[j] = 0
          /\ u[j].ref = s[j] + u[j].leaked
          /\ u[j].nlink # t[j].nlink \/ u[j].ref < t[j].ref => s[j] > 0
    BY <1>3, <1>4, <1>5 DEF Bit
  <2> QED
    BY <1>1, <1>2, <1>3, <2>1, SameSound
<1> QED
  BY <1>4, <1>6 DEF u

\* link() takes that back.
LEMMA UndoneSound ==
  ASSUME NEW t, NEW a, NEW s, NEW i \in Inode, Sound(t, a, s), s[i] > 0, a[i] > 0
  PROVE  /\ Sound(Undone(t, i), Minus(a, i), s)
         /\ \A j \in Inode : Undone(t, i)[j].type = t[j].type
<1> DEFINE u == Undone(t, i)
<1>1. t \in Table /\ s \in Counts /\ a \in Counts
  BY DEF Sound, Shape
<1>2. \A j \in Inode :
        /\ t[j].nlink \in Nat /\ t[j].ref \in Nat /\ a[j] \in Nat
        /\ t[j].type = "free" => a[j] = 0
        /\ t[j].ref = s[j] + t[j].leaked
  BY <1>1 DEF Table, Record, Counts, Sound, Links
<1>3. t[i].nlink > 0
  <2>1. Claims(t, i) \in Nat
    BY ClaimsNat
  <2>2. t[i].nlink >= Claims(t, i) + a[i]
    BY <1>2 DEF Sound, Links
  <2> QED
    BY <1>2, <2>1, <2>2
<1>4. u \in Table
  <2>1. t[i].nlink - 1 \in Nat
    BY <1>2, <1>3
  <2> QED
    BY <1>1, <2>1 DEF Undone, Table, Record
<1>5. Minus(a, i) \in Counts /\ \A j \in Inode : Minus(a, i)[j] = a[j] - Bit(i = j)
  BY <1>1, <1>2 DEF Counts, Minus, Bit
<1>6. \A j \in Inode :
        /\ u[j].type = t[j].type /\ u[j].up = t[j].up /\ u[j].names = t[j].names
        /\ u[j].lost = t[j].lost /\ u[j].leaked = t[j].leaked /\ u[j].ref = t[j].ref
        /\ u[j].nlink = t[j].nlink - Bit(i = j)
  BY <1>1 DEF Undone, Table, Record, Bit
<1> HIDE DEF u
<1>7. Sound(u, Minus(a, i), s)
  <2>1. \A j \in Inode :
          /\ u[j].names = t[j].names /\ u[j].type = t[j].type /\ u[j].up = t[j].up
          /\ u[j].lost = t[j].lost /\ u[j].nlink = t[j].nlink + Minus(a, i)[j] - a[j]
          /\ t[j].type = "free" => Minus(a, i)[j] = 0
          /\ u[j].ref = s[j] + u[j].leaked
          /\ u[j].nlink # t[j].nlink \/ u[j].ref < t[j].ref => s[j] > 0
    BY <1>2, <1>5, <1>6 DEF Bit
  <2> QED
    BY <1>1, <1>4, <1>5, <2>1, SameSound
<1> QED
  BY <1>6, <1>7 DEF u

\* symlink() on an existing path loses its reference.
LEMMA LeakedSound ==
  ASSUME NEW t, NEW a, NEW s, NEW i \in Inode, Sound(t, a, s), s[i] > 0
  PROVE  /\ Sound([t EXCEPT ![i].leaked = @ + 1], a, Minus(s, i))
         /\ \A j \in Inode : [t EXCEPT ![i].leaked = @ + 1][j].type = t[j].type
<1> DEFINE u == [t EXCEPT ![i].leaked = @ + 1]
<1>1. t \in Table /\ s \in Counts /\ a \in Counts
  BY DEF Sound, Shape
<1>2. \A j \in Inode :
        /\ t[j].nlink \in Nat /\ t[j].ref \in Nat /\ a[j] \in Nat /\ s[j] \in Nat
        /\ t[j].leaked \in Nat
        /\ t[j].type = "free" => a[j] = 0
        /\ t[j].ref = s[j] + t[j].leaked
  BY <1>1 DEF Table, Record, Counts, Sound, Links
<1>3. u \in Table
  BY <1>1 DEF Table, Record
<1>4. Minus(s, i) \in Counts /\ \A j \in Inode : Minus(s, i)[j] = s[j] - Bit(i = j)
  BY <1>1, <1>2 DEF Counts, Minus, Bit
<1>5. \A j \in Inode :
        /\ u[j].type = t[j].type /\ u[j].up = t[j].up /\ u[j].names = t[j].names
        /\ u[j].lost = t[j].lost /\ u[j].nlink = t[j].nlink /\ u[j].ref = t[j].ref
        /\ u[j].leaked = t[j].leaked + Bit(i = j)
  BY <1>1 DEF Table, Record, Bit
<1> HIDE DEF u
<1>6. Sound(u, a, Minus(s, i))
  <2>1. \A j \in Inode :
          /\ u[j].names = t[j].names /\ u[j].type = t[j].type /\ u[j].up = t[j].up
          /\ u[j].lost = t[j].lost /\ u[j].nlink = t[j].nlink + a[j] - a[j]
          /\ t[j].type = "free" => a[j] = 0
          /\ u[j].ref = Minus(s, i)[j] + u[j].leaked
          /\ u[j].nlink # t[j].nlink \/ u[j].ref < t[j].ref => Minus(s, i)[j] > 0
    BY <1>2, <1>4, <1>5 DEF Bit
  <2> QED
    BY <1>1, <1>3, <1>4, <2>1, SameSound
<1> QED
  BY <1>5, <1>6 DEF u

\* chmod() on the inodes of S.
Changed(t, S, set) ==
  [j \in Inode |-> IF j \in S THEN [t[j] EXCEPT !.readable = set] ELSE t[j]]

\* chmod() changes permissions only.
LEMMA ChangedSound ==
  ASSUME NEW t, NEW a, NEW s, Sound(t, a, s), NEW S, NEW set \in BOOLEAN
  PROVE  /\ Sound(Changed(t, S, set), a, s)
         /\ \A j \in Inode : Changed(t, S, set)[j].type = t[j].type
<1> DEFINE u == Changed(t, S, set)
<1>1. t \in Table /\ s \in Counts /\ a \in Counts
  BY DEF Sound, Shape
<1>2. \A j \in Inode :
        /\ t[j].nlink \in Nat /\ t[j].ref \in Nat /\ a[j] \in Nat
        /\ t[j].type = "free" => a[j] = 0
        /\ t[j].ref = s[j] + t[j].leaked
  BY <1>1 DEF Table, Record, Counts, Sound, Links
<1>3. \A j \in Inode :
        /\ t[j] \in Record /\ [t[j] EXCEPT !.readable = set] \in Record
        /\ u[j] = t[j] \/ u[j] = [t[j] EXCEPT !.readable = set]
  BY <1>1 DEF Table, Record, Changed
<1>4. u \in Table
  BY <1>1, <1>3 DEF Table, Changed
<1> HIDE DEF u
<1>5. \A j \in Inode :
        /\ u[j].type = t[j].type /\ u[j].up = t[j].up /\ u[j].names = t[j].names
        /\ u[j].lost = t[j].lost /\ u[j].nlink = t[j].nlink /\ u[j].ref = t[j].ref
        /\ u[j].leaked = t[j].leaked
  <2> TAKE j \in Inode
  <2>1. CASE u[j] = t[j]
    BY <2>1
  <2>2. CASE u[j] = [t[j] EXCEPT !.readable = set]
    BY <1>3, <2>2 DEF Record
  <2> QED
    BY <1>3, <2>1, <2>2
<1>6. \A j \in Inode :
        /\ u[j].names = t[j].names /\ u[j].type = t[j].type /\ u[j].up = t[j].up
        /\ u[j].lost = t[j].lost /\ u[j].nlink = t[j].nlink + a[j] - a[j]
        /\ t[j].type = "free" => a[j] = 0
        /\ u[j].ref = s[j] + u[j].leaked
        /\ u[j].nlink # t[j].nlink \/ u[j].ref < t[j].ref => s[j] > 0
  BY <1>2, <1>5
<1>7. Sound(u, a, s)
  BY <1>1, <1>4, <1>6, SameSound
<1> QED
  BY <1>5, <1>7 DEF u

\* A table u that has a name of i more than the table t.
OneMore(t, u, d, n, i) ==
  /\ t[d].names[n] = 0 /\ u[d].names[n] = i
  /\ \A e \in Inode, m \in Name :
       e # d \/ m # n => u[e].names[m] = t[e].names[m]

LEMMA NameAdded ==
  ASSUME NEW t, NEW u, NEW d \in Inode, NEW n \in Name, NEW i \in Inode,
         OneMore(t, u, d, n, i)
  PROVE  /\ Cardinality(NamesIn(u, i)) = Cardinality(NamesIn(t, i)) + 1
         /\ \A j \in Inode : j # i => NamesIn(u, j) = NamesIn(t, j)
         /\ NamesIn(u, i) # {}
<1>1. NamesIn(u, i) = NamesIn(t, i) \cup {<<d, n>>} /\ <<d, n>> \notin NamesIn(t, i)
  <2>1. \A e \in Inode, m \in Name :
          <<e, m>> \in NamesIn(u, i) <=> <<e, m>> \in NamesIn(t, i) \/ (e = d /\ m = n)
    BY DEF NamesIn, OneMore
  <2>2. NamesIn(u, i) \subseteq Inode \X Name /\ NamesIn(t, i) \subseteq Inode \X Name
    BY DEF NamesIn
  <2>3. <<d, n>> \notin NamesIn(t, i)
    BY Constants DEF NamesIn, OneMore
  <2> QED
    BY <2>1, <2>2, <2>3
<1>2. Cardinality(NamesIn(t, i) \cup {<<d, n>>}) = Cardinality(NamesIn(t, i)) + 1
  BY <1>1, ClaimsNat, FS_AddElement
<1>3. \A j \in Inode : j # i => NamesIn(u, j) = NamesIn(t, j)
  BY Constants DEF NamesIn, OneMore
<1> QED
  BY <1>1, <1>2, <1>3

\* dirlink() writes a name that link() has announced.
LEMMA LinkedSound ==
  ASSUME NEW t, NEW a, NEW s, Sound(t, a, s),
         NEW d \in Inode, t[d].type = "dir", NEW n \in Name, t[d].names[n] = 0,
         NEW i \in Inode, a[i] > 0, t[i].type # "dir"
  PROVE  /\ Sound(Linked(t, d, n, i), Minus(a, i), s)
         /\ \A j \in Inode : /\ Linked(t, d, n, i)[j].type = t[j].type
                             /\ Linked(t, d, n, i)[j].nlink = t[j].nlink
<1> DEFINE u == Linked(t, d, n, i)
<1>1. t \in Table /\ s \in Counts /\ a \in Counts /\ Shape(t) /\ Links(t, a) /\ InTime(t)
  BY DEF Sound, Shape
<1>2. u \in Table
  <2>1. [t[d].names EXCEPT ![n] = i] \in [Name -> Inode \cup {0}]
    BY <1>1 DEF Table, Record
  <2> QED
    BY <1>1, <2>1 DEF Linked, Table, Record
<1>3. /\ \A j \in Inode :
           /\ u[j].type = t[j].type /\ u[j].up = t[j].up /\ u[j].lost = t[j].lost
           /\ u[j].nlink = t[j].nlink /\ u[j].leaked = t[j].leaked /\ u[j].ref = t[j].ref
           /\ j # d => u[j].names = t[j].names
      /\ u[d].names = [t[d].names EXCEPT ![n] = i]
  BY <1>1 DEF Linked, Table, Record
<1>4. OneMore(t, u, d, n, i)
  <2>1. t[d].names \in [Name -> Inode \cup {0}]
    BY <1>1 DEF Table, Record
  <2> HIDE DEF u
  <2> QED
    BY <1>3, <2>1 DEF OneMore
<1> HIDE DEF u
<1>5. t[i].type # "free"
  BY <1>1 DEF Links
<1>6. Shape(u)
  <2>1. \A e \in Inode, m \in Name : t[e].names[m] \in Inode \cup {0}
    BY <1>1 DEF Table, Record
  <2>2. ASSUME NEW e \in Inode, NEW m \in Name, u[e].names[m] # 0
        PROVE  /\ u[e].type = "dir"
               /\ u[e].names[m] # e /\ u[e].names[m] # ROOTINO
               /\ u[u[e].names[m]].type # "free"
               /\ u[u[e].names[m]].type = "dir" =>
                    /\ u[u[e].names[m]].up = e
                    /\ \A k \in Name : u[e].names[k] = u[e].names[m] => k = m
    <3>1. CASE e = d /\ m = n
      BY <1>1, <1>3, <1>4, <1>5, <3>1 DEF Shape, OneMore
    <3>2. CASE e # d \/ m # n
      <4>1. u[e].names[m] = t[e].names[m] /\ t[e].names[m] \in Inode
        BY <1>4, <2>1, <2>2, <3>2 DEF OneMore
      <4>2. t[t[e].names[m]].type = "dir" =>
              \A k \in Name : u[e].names[k] = u[e].names[m] => k = m
        BY <1>1, <1>4, <2>2, <4>1 DEF Shape, OneMore
      <4> QED
        BY <1>1, <1>3, <2>2, <4>1, <4>2 DEF Shape
    <3> QED
      BY <3>1, <3>2
  <2>3. /\ u[ROOTINO].type = "dir"
        /\ \A j \in Inode : /\ u[j].type = "dir" => u[j].up # 0
                            /\ u[j].type = "free" => u[j].nlink = 0
    BY <1>1, <1>3, Constants DEF Shape
  <2> QED
    BY <1>2, <2>2, <2>3 DEF Shape
<1>7. /\ Cardinality(NamesIn(u, i)) = Cardinality(NamesIn(t, i)) + 1
      /\ \A j \in Inode : j # i => NamesIn(u, j) = NamesIn(t, j)
  BY <1>4, NameAdded
<1>8. \A j \in Inode : SubdirsIn(u, j) = SubdirsIn(t, j)
  BY <1>3, <1>7 DEF SubdirsIn
<1>9. \A j \in Inode : Claims(u, j) = Claims(t, j) + Bit(i = j)
  <2> TAKE j \in Inode
  <2>1. /\ Cardinality(NamesIn(t, j)) \in Nat /\ Cardinality(SubdirsIn(t, j)) \in Nat
        /\ Bit(j = ROOTINO) \in Nat
    BY ClaimsNat DEF Bit
  <2>2. Cardinality(NamesIn(u, j)) = Cardinality(NamesIn(t, j)) + Bit(i = j)
    BY <1>7, <2>1 DEF Bit
  <2>3. Bit(i = j) \in Nat
    BY DEF Bit
  <2> QED
    BY <1>8, <2>1, <2>2, <2>3 DEF Claims
<1>10. \A j \in Inode : /\ Claims(t, j) \in Nat /\ a[j] \in Nat /\ t[j].nlink \in Nat
                        /\ Minus(a, i)[j] = a[j] - Bit(i = j)
  BY <1>1, ClaimsNat DEF Table, Record, Counts, Minus, Bit
<1>11. Minus(a, i) \in Counts
  BY <1>1, <1>10 DEF Counts, Minus
<1>12. Links(u, Minus(a, i))
  BY <1>1, <1>3, <1>5, <1>9, <1>10 DEF Links, Bit
<1>13. InTime(u)
  BY <1>1, <1>3 DEF InTime
<1>14. \A j \in Inode : u[j].ref = s[j] + u[j].leaked
  BY <1>3 DEF Sound
<1> QED
  BY <1>1, <1>3, <1>6, <1>11, <1>12, <1>13, <1>14 DEF Sound, u

\* Table x is v with one link less counted at inode i, and nothing else changed.
LinkLess(v, x, i) ==
  /\ x \in Table
  /\ \A j \in Inode :
       /\ x[j].type = v[j].type /\ x[j].up = v[j].up /\ x[j].lost = v[j].lost
       /\ x[j].nlink = v[j].nlink - Bit(i = j)
       /\ x[j].leaked = v[j].leaked /\ x[j].ref = v[j].ref /\ x[j].names = v[j].names

\* The fields of an inode whose link count or reference count changes.
LEMMA OneLinkLess ==
  ASSUME NEW v \in Table, NEW i \in Inode, v[i].nlink - 1 \in Nat
  PROVE  LinkLess(v, [v EXCEPT ![i].nlink = @ - 1], i)
<1> DEFINE x == [v EXCEPT ![i].nlink = @ - 1]
<1>1. \A j \in Inode : v[j] \in Record /\ v[j].nlink \in Nat
  BY DEF Table, Record
<1>2. x[i] = [v[i] EXCEPT !.nlink = @ - 1] /\ \A j \in Inode : j # i => x[j] = v[j]
  BY DEF Table
<1>3. x[i] \in Record
  BY <1>1, <1>2 DEF Record
<1>4. x \in Table
  BY <1>1, <1>2, <1>3 DEF Table
<1> HIDE DEF x
<1>5. \A j \in Inode :
        /\ x[j].type = v[j].type /\ x[j].up = v[j].up /\ x[j].lost = v[j].lost
        /\ x[j].nlink = v[j].nlink - Bit(i = j)
        /\ x[j].leaked = v[j].leaked /\ x[j].ref = v[j].ref /\ x[j].names = v[j].names
  <2> TAKE j \in Inode
  <2>1. CASE i = j
    BY <1>1, <1>2, <2>1 DEF Record, Bit
  <2>2. CASE i # j
    BY <1>1, <1>2, <2>2 DEF Bit
  <2> QED
    BY <2>1, <2>2
<1> QED
  BY <1>4, <1>5 DEF LinkLess, x

LEMMA OneRefMore ==
  ASSUME NEW v \in Table, NEW i \in Inode
  PROVE  LET x == Get(v, i)
         IN /\ x \in Table
            /\ \A j \in Inode :
                 /\ x[j].type = v[j].type /\ x[j].up = v[j].up /\ x[j].lost = v[j].lost
                 /\ x[j].nlink = v[j].nlink
                 /\ x[j].leaked = v[j].leaked /\ x[j].ref = v[j].ref + Bit(i = j)
                 /\ x[j].names = v[j].names
<1> DEFINE x == Get(v, i)
<1>1. \A j \in Inode : v[j] \in Record /\ v[j].ref \in Nat
  BY DEF Table, Record
<1>2. x[i] = [v[i] EXCEPT !.ref = @ + 1] /\ \A j \in Inode : j # i => x[j] = v[j]
  BY DEF Table, Get
<1>3. x \in Table
  BY DEF Table, Record, Get
<1> HIDE DEF x
<1>4. \A j \in Inode :
        /\ x[j].type = v[j].type /\ x[j].up = v[j].up /\ x[j].lost = v[j].lost
        /\ x[j].nlink = v[j].nlink /\ x[j].leaked = v[j].leaked
        /\ x[j].ref = v[j].ref + Bit(i = j) /\ x[j].names = v[j].names
  <2> TAKE j \in Inode
  <2>1. CASE i = j
    BY <1>1, <1>2, <2>1 DEF Record, Bit
  <2>2. CASE i # j
    BY <1>1, <1>2, <2>2 DEF Bit
  <2> QED
    BY <2>1, <2>2
<1> QED
  BY <1>3, <1>4 DEF x

\* unlink() takes a name out of a directory that it holds.
LEMMA UnlinkedSound ==
  ASSUME NEW t, NEW a, NEW s, Sound(t, a, s),
         NEW d \in Inode, s[d] > 0, NEW n \in Name, NEW i \in Inode, t[d].names[n] = i
  PROVE  LET u == Get(Unlinked(Linked(t, d, n, 0), d, i), i)
         IN /\ Sound(u, a, Plus(s, i))
            /\ \A j \in Inode : u[j].type = t[j].type
<1> DEFINE v == Linked(t, d, n, 0)
           w == Unlinked(v, d, i)
           u == Get(w, i)
           sub == t[i].type = "dir"
<1>1. t \in Table /\ s \in Counts /\ a \in Counts /\ Shape(t) /\ Links(t, a) /\ InTime(t)
  BY DEF Sound, Shape
<1>2. /\ i # 0 /\ i # d /\ i # ROOTINO /\ t[d].type = "dir" /\ t[i].type # "free"
      /\ sub => t[i].up = d /\ \A m \in Name : t[d].names[m] = i => m = n
  BY <1>1, Constants DEF Shape
<1>3. \A j \in Inode :
        /\ t[j].nlink \in Nat /\ t[j].ref \in Nat /\ a[j] \in Nat /\ s[j] \in Nat
        /\ Claims(t, j) \in Nat
  BY <1>1, ClaimsNat DEF Table, Record, Counts
<1>4. /\ v \in Table
      /\ \A j \in Inode :
           /\ v[j].type = t[j].type /\ v[j].up = t[j].up /\ v[j].lost = t[j].lost
           /\ v[j].nlink = t[j].nlink /\ v[j].leaked = t[j].leaked /\ v[j].ref = t[j].ref
           /\ j # d => v[j].names = t[j].names
      /\ v[d].names = [t[d].names EXCEPT ![n] = 0]
  <2>1. [t[d].names EXCEPT ![n] = 0] \in [Name -> Inode \cup {0}]
    BY <1>1 DEF Table, Record
  <2> QED
    BY <1>1, <2>1 DEF Linked, Table, Record
<1>5. OneMore(v, t, d, n, i)
  <2>1. t[d].names \in [Name -> Inode \cup {0}]
    BY <1>1 DEF Table, Record
  <2> HIDE DEF v
  <2> QED
    BY <1>4, <2>1 DEF OneMore
<1>6. /\ Cardinality(NamesIn(v, i)) = Cardinality(NamesIn(t, i)) - 1
      /\ \A j \in Inode : j # i => NamesIn(v, j) = NamesIn(t, j)
  <2>1. Cardinality(NamesIn(t, i)) = Cardinality(NamesIn(v, i)) + 1
    BY <1>5, NameAdded
  <2>2. \A j \in Inode : j # i => NamesIn(v, j) = NamesIn(t, j)
    BY <1>5, NameAdded
  <2>3. Cardinality(NamesIn(v, i)) \in Nat /\ Cardinality(NamesIn(t, i)) \in Nat
    BY ClaimsNat
  <2> QED
    BY <2>1, <2>2, <2>3
<1> HIDE DEF v
<1>7. sub => NamesIn(v, i) = {}
  <2> SUFFICES ASSUME sub, NEW e \in Inode, NEW m \in Name, v[e].names[m] = i
               PROVE  FALSE
    BY DEF NamesIn
  <2>1. e # d \/ m # n
    BY <1>2, <1>5 DEF OneMore
  <2>2. t[e].names[m] = i
    BY <1>5, <2>1 DEF OneMore
  <2>3. t[i].up = e
    BY <1>1, <1>2, <2>2 DEF Shape
  <2> QED
    BY <1>2, <2>1, <2>2, <2>3
<1>8. \A j \in Inode : SubdirsIn(v, j) = IF sub /\ j = d THEN SubdirsIn(t, j) \ {i}
                                         ELSE SubdirsIn(t, j)
  <2> TAKE j \in Inode
  <2>1. \A e \in Inode : e # i => (e \in SubdirsIn(v, j) <=> e \in SubdirsIn(t, j))
    BY <1>4, <1>6 DEF SubdirsIn
  <2>2. i \notin SubdirsIn(v, j)
    BY <1>4, <1>7 DEF SubdirsIn
  <2>3. i \in SubdirsIn(t, j) => sub /\ j = d
    BY <1>2 DEF SubdirsIn
  <2>4. SubdirsIn(v, j) \subseteq Inode /\ SubdirsIn(t, j) \subseteq Inode
    BY DEF SubdirsIn
  <2> QED
    BY <2>1, <2>2, <2>3, <2>4
<1>9. \A j \in Inode : Cardinality(SubdirsIn(v, j)) =
                         Cardinality(SubdirsIn(t, j)) - Bit(sub /\ d = j)
  <2> TAKE j \in Inode
  <2>1. Cardinality(SubdirsIn(t, j)) \in Nat /\ IsFiniteSet(SubdirsIn(t, j))
    BY ClaimsNat
  <2>2. CASE sub /\ d = j
    <3>1. i \in SubdirsIn(t, j)
      BY <1>2, <2>2, NamedClaims DEF SubdirsIn
    <3>2. Cardinality(SubdirsIn(t, j) \ {i}) = Cardinality(SubdirsIn(t, j)) - 1
      BY <2>1, <3>1, FS_RemoveElement
    <3> QED
      BY <1>8, <2>2, <3>2 DEF Bit
  <2>3. CASE ~(sub /\ d = j)
    <3>1. SubdirsIn(v, j) = SubdirsIn(t, j)
      BY <1>8, <2>3
    <3> QED
      BY <2>1, <2>3, <3>1 DEF Bit
  <2> QED
    BY <2>2, <2>3
<1>10. \A j \in Inode : Claims(v, j) = Claims(t, j) - Bit(i = j) - Bit(sub /\ d = j)
  <2> TAKE j \in Inode
  <2>1. /\ Cardinality(NamesIn(t, j)) \in Nat /\ Cardinality(SubdirsIn(t, j)) \in Nat
        /\ Bit(j = ROOTINO) \in Nat /\ Bit(i = j) \in Nat /\ Bit(sub /\ d = j) \in Nat
    BY ClaimsNat DEF Bit
  <2>2. Cardinality(NamesIn(v, j)) = Cardinality(NamesIn(t, j)) - Bit(i = j)
    BY <1>6, <2>1 DEF Bit
  <2> QED
    BY <1>9, <2>1, <2>2 DEF Claims
<1>11. \A j \in Inode : /\ t[j].nlink - Bit(i = j) - Bit(sub /\ d = j) \in Nat
                        /\ t[j].type = "free" => j # i /\ j # d
  <2> TAKE j \in Inode
  <2>1. /\ Bit(i = j) \in Nat /\ Bit(sub /\ d = j) \in Nat
        /\ Claims(v, j) \in Nat /\ Claims(t, j) \in Nat /\ a[j] \in Nat /\ t[j].nlink \in Nat
    BY <1>3, ClaimsNat DEF Bit
  <2>2. CASE t[j].type = "free"
    BY <1>2, <1>3, <2>2 DEF Bit
  <2>3. CASE t[j].type # "free"
    <3>1. t[j].nlink >= Claims(t, j) + a[j]
      BY <1>1, <2>3 DEF Links
    <3> QED
      BY <1>10, <2>1, <2>3, <3>1
  <2> QED
    BY <2>2, <2>3
<1>12. /\ w \in Table
       /\ \A j \in Inode :
            /\ w[j].type = t[j].type /\ w[j].up = t[j].up /\ w[j].lost = t[j].lost
            /\ w[j].nlink = t[j].nlink - Bit(i = j) - Bit(sub /\ d = j)
            /\ w[j].leaked = t[j].leaked /\ w[j].ref = t[j].ref
            /\ w[j].names = v[j].names
  <2>1. t[i].nlink - 1 \in Nat
    BY <1>2, <1>3, <1>11 DEF Bit
  <2>2. sub => t[d].nlink - 1 \in Nat
    BY <1>2, <1>3, <1>11 DEF Bit
  <2>3. v[i].type = t[i].type /\ v[i].nlink = t[i].nlink /\ v[d].nlink = t[d].nlink
    BY <1>4
  <2> DEFINE x == [v EXCEPT ![i].nlink = @ - 1]
  <2>4. /\ x \in Table
        /\ \A j \in Inode :
             /\ x[j].type = v[j].type /\ x[j].up = v[j].up /\ x[j].lost = v[j].lost
             /\ x[j].nlink = v[j].nlink - Bit(i = j)
             /\ x[j].leaked = v[j].leaked /\ x[j].ref = v[j].ref /\ x[j].names = v[j].names
    <3>1. v[i].nlink - 1 \in Nat /\ v \in Table
      BY <1>4, <2>1, <2>3
    <3>2. LinkLess(v, x, i)
      BY <3>1, OneLinkLess
    <3> QED
      BY <3>2 DEF LinkLess
  <2>5. w = IF sub THEN [x EXCEPT ![d].nlink = @ - 1] ELSE x
    BY <2>3 DEF Unlinked
  <2> HIDE DEF x, w
  <2>6. CASE sub
    <3>1. w = [x EXCEPT ![d].nlink = @ - 1] /\ x[d].nlink - 1 \in Nat
      BY <1>2, <1>3, <2>2, <2>3, <2>4, <2>5, <2>6 DEF Bit
    <3>2. /\ w \in Table
          /\ \A j \in Inode :
               /\ w[j].type = x[j].type /\ w[j].up = x[j].up /\ w[j].lost = x[j].lost
               /\ w[j].nlink = x[j].nlink - Bit(d = j)
               /\ w[j].leaked = x[j].leaked /\ w[j].ref = x[j].ref /\ w[j].names = x[j].names
      <4>1. LinkLess(x, [x EXCEPT ![d].nlink = @ - 1], d)
        BY <2>4, <3>1, OneLinkLess
      <4>2. LinkLess(x, w, d)
        BY <3>1, <4>1
      <4> QED
        BY <4>2 DEF LinkLess
    <3> QED
      BY <1>4, <2>4, <2>6, <3>2
  <2>7. CASE ~sub
    <3>1. \A j \in Inode : Bit(sub /\ d = j) = 0 /\ Bit(i = j) \in Nat /\ t[j].nlink \in Nat
      BY <1>3, <2>7 DEF Bit
    <3> QED
      BY <1>4, <2>4, <2>5, <2>7, <3>1
  <2> QED
    BY <2>6, <2>7
<1> HIDE DEF w
<1>13. /\ u \in Table
       /\ \A j \in Inode :
            /\ u[j].type = t[j].type /\ u[j].up = t[j].up /\ u[j].lost = t[j].lost
            /\ u[j].nlink = t[j].nlink - Bit(i = j) - Bit(sub /\ d = j)
            /\ u[j].leaked = t[j].leaked /\ u[j].ref = t[j].ref + Bit(i = j)
            /\ u[j].names = v[j].names
  <2>1. \A j \in Inode :
            /\ u[j].type = w[j].type /\ u[j].up = w[j].up /\ u[j].lost = w[j].lost
            /\ u[j].nlink = w[j].nlink /\ u[j].leaked = w[j].leaked
            /\ u[j].ref = w[j].ref + Bit(i = j) /\ u[j].names = w[j].names
    BY <1>12, OneRefMore
  <2>2. u \in Table
    BY <1>12, OneRefMore
  <2> HIDE DEF u
  <2> QED
    BY <1>12, <2>1, <2>2
<1> HIDE DEF u
<1>14. \A j \in Inode : Claims(u, j) = Claims(v, j)
  <2>1. \A j \in Inode : NamesIn(u, j) = NamesIn(v, j)
    BY <1>13 DEF NamesIn
  <2>2. \A j \in Inode : SubdirsIn(u, j) = SubdirsIn(v, j)
    BY <1>4, <1>13, <2>1 DEF SubdirsIn
  <2> QED
    BY <2>1, <2>2 DEF Claims
<1>15. Shape(u)
  <2>1. ASSUME NEW e \in Inode, NEW m \in Name, u[e].names[m] # 0
        PROVE  u[e].names[m] = t[e].names[m] /\ t[e].names[m] \in Inode
    <3>1. u[e].names = v[e].names
      BY <1>13
    <3>2. e # d \/ m # n
      BY <1>5, <2>1, <3>1 DEF OneMore
    <3>3. v[e].names[m] = t[e].names[m]
      BY <1>5, <3>2 DEF OneMore
    <3>4. t[e].names[m] \in Inode \cup {0}
      BY <1>1 DEF Table, Record
    <3> QED
      BY <2>1, <3>1, <3>3, <3>4
  <2>2. ASSUME NEW e \in Inode, NEW m \in Name, u[e].names[m] # 0
        PROVE  /\ u[e].type = "dir"
               /\ u[e].names[m] # e /\ u[e].names[m] # ROOTINO
               /\ u[u[e].names[m]].type # "free"
               /\ u[u[e].names[m]].type = "dir" =>
                    /\ u[u[e].names[m]].up = e
                    /\ \A k \in Name : u[e].names[k] = u[e].names[m] => k = m
    <3>1. u[e].names[m] = t[e].names[m] /\ t[e].names[m] \in Inode
      BY <2>1, <2>2
    <3> DEFINE f == t[e].names[m]
    <3>2. /\ t[e].type = "dir" /\ f # e /\ f # ROOTINO /\ t[f].type # "free"
          /\ t[f].type = "dir" => /\ t[f].up = e
                                 /\ \A k \in Name : t[e].names[k] = f => k = m
      BY <1>1, <3>1, Constants DEF Shape
    <3>3. \A k \in Name : u[e].names[k] = f => t[e].names[k] = f
      BY <2>1, <3>1, Constants
    <3> QED
      BY <1>13, <3>1, <3>2, <3>3
  <2>3. /\ u[ROOTINO].type = "dir"
        /\ \A j \in Inode : u[j].type = "dir" => u[j].up # 0
    <3>1. /\ t[ROOTINO].type = "dir" /\ ROOTINO \in Inode
          /\ \A j \in Inode : t[j].type = "dir" => t[j].up # 0
      BY <1>1, Constants DEF Shape
    <3> QED
      BY <1>13, <3>1
  <2>4. \A j \in Inode : u[j].type = "free" => u[j].nlink = 0
    BY <1>1, <1>2, <1>13 DEF Shape, Bit
  <2> QED
    BY <1>13, <2>2, <2>3, <2>4 DEF Shape
<1>16. Links(u, a)
  <2> SUFFICES ASSUME NEW j \in Inode
               PROVE  IF u[j].type = "free" THEN a[j] = 0
                      ELSE /\ u[j].nlink >= Claims(u, j) + a[j]
                           /\ ~u[j].lost => u[j].nlink = Claims(u, j) + a[j]
    BY DEF Links
  <2>1. /\ u[j].nlink = t[j].nlink - Bit(i = j) - Bit(sub /\ d = j)
        /\ Claims(u, j) = Claims(t, j) - Bit(i = j) - Bit(sub /\ d = j)
        /\ u[j].type = t[j].type /\ u[j].lost = t[j].lost
    BY <1>10, <1>13, <1>14
  <2>2. /\ Bit(i = j) \in Nat /\ Bit(sub /\ d = j) \in Nat
        /\ Claims(t, j) \in Nat /\ a[j] \in Nat /\ t[j].nlink \in Nat
    BY <1>3 DEF Bit
  <2>3. IF t[j].type = "free" THEN a[j] = 0
        ELSE /\ t[j].nlink >= Claims(t, j) + a[j]
             /\ ~t[j].lost => t[j].nlink = Claims(t, j) + a[j]
    BY <1>1 DEF Links
  <2> QED
    BY <2>1, <2>2, <2>3
<1>17. Plus(s, i) \in Counts /\ \A j \in Inode : Plus(s, i)[j] = s[j] + Bit(i = j)
  BY <1>1 DEF Counts, Plus, Bit
<1>18. \A j \in Inode : u[j].ref = Plus(s, i)[j] + u[j].leaked
  <2>1. \A j \in Inode : t[j].ref = s[j] + t[j].leaked /\ t[j].leaked \in Nat
    BY <1>1 DEF Sound, Table, Record
  <2> QED
    BY <1>3, <1>13, <1>17, <2>1 DEF Bit
<1>19. InTime(u)
  <2> SUFFICES ASSUME NEW j \in Inode, u[j].type # "free", u[j].nlink = 0
               PROVE  u[j].ref > 0
    BY DEF InTime
  <2>1. u[j].ref = t[j].ref + Bit(i = j) /\ t[j].ref \in Nat
    BY <1>3, <1>13
  <2>2. CASE j = i
    BY <2>1, <2>2 DEF Bit
  <2>3. CASE j = d
    <3>1. t[d].ref > 0
      BY <1>1, <1>3 DEF Sound, Table, Record
    <3> QED
      BY <2>1, <2>3, <3>1 DEF Bit
  <2>4. CASE j # i /\ j # d
    BY <1>1, <1>3, <1>13, <2>1, <2>4 DEF InTime, Bit
  <2> QED
    BY <2>2, <2>3, <2>4
<1> QED
  BY <1>1, <1>13, <1>15, <1>16, <1>17, <1>18, <1>19 DEF Sound, u, w, v

\* create(), before it puts the directory.
Made(t, d, n, i, type, target) ==
  LET x == [t EXCEPT ![i].type = type, ![i].nlink = 1, ![i].readable = TRUE,
                     ![i].target = target, ![i].ref = @ + 1,
                     ![i].up = IF type = "dir" THEN d ELSE 0,
                     ![d].nlink = IF type = "dir" THEN @ + 1 ELSE @]
  IN Linked(x, d, n, i)

\* A free inode under a new name: create() holds it, and the directory.
LEMMA MadeSound ==
  ASSUME NEW t, NEW a, NEW s, Sound(t, a, s),
         NEW d \in Inode, t[d].type = "dir", NEW n \in Name, t[d].names[n] = 0,
         NEW i \in Inode, t[i].type = "free",
         NEW type \in {"file", "dir", "symlink"}, NEW target \in Targets \cup {<<>>}
  PROVE  LET u == Made(t, d, n, i, type, target)
         IN /\ Sound(u, a, Plus(s, i))
            /\ \A j \in Inode : j # i => u[j].type = t[j].type
            /\ u[i].type = type /\ u[i].nlink = 1
<1> DEFINE x == [t EXCEPT ![i].type = type, ![i].nlink = 1, ![i].readable = TRUE,
                          ![i].target = target, ![i].ref = @ + 1,
                          ![i].up = IF type = "dir" THEN d ELSE 0,
                          ![d].nlink = IF type = "dir" THEN @ + 1 ELSE @]
           u == Linked(x, d, n, i)
           sub == type = "dir"
           up == IF type = "dir" THEN d ELSE 0
           more == IF type = "dir" THEN t[d].nlink + 1 ELSE t[d].nlink
<1>1. t \in Table /\ s \in Counts /\ a \in Counts /\ Shape(t) /\ Links(t, a) /\ InTime(t)
  BY DEF Sound, Shape
<1>2. i # d /\ i # ROOTINO /\ i # 0
  BY <1>1, Constants DEF Shape
<1>3. \A j \in Inode :
        /\ t[j] \in Record /\ t[j].nlink \in Nat /\ t[j].ref \in Nat /\ a[j] \in Nat
        /\ s[j] \in Nat /\ Claims(t, j) \in Nat /\ t[j].names \in [Name -> Inode \cup {0}]
  BY <1>1, ClaimsNat DEF Table, Record, Counts
<1>4. /\ x \in [Inode -> Record]
      /\ x[i] = [t[i] EXCEPT !.type = type, !.nlink = 1, !.readable = TRUE,
                             !.target = target, !.ref = @ + 1, !.up = up]
      /\ x[d] = [t[d] EXCEPT !.nlink = more]
      /\ x[i] \in Record /\ x[d] \in Record
      /\ \A j \in Inode : j # i /\ j # d => x[j] = t[j]
  <2>1. DOMAIN x = Inode
    BY <1>1 DEF Table
  <2>2. x[i] = [t[i] EXCEPT !.type = type, !.nlink = 1, !.readable = TRUE,
                            !.target = target, !.ref = @ + 1, !.up = up]
    BY <1>1, <1>2 DEF Table, Record
  <2>3. x[d] = [t[d] EXCEPT !.nlink = more]
    BY <1>1, <1>2 DEF Table
  <2>4. \A j \in Inode : j # i /\ j # d => x[j] = t[j]
    BY <1>1 DEF Table
  <2>5. x[i] \in Record /\ x[d] \in Record
    <3>1. up \in Inode \cup {0} /\ more \in Nat
      BY <1>3
    <3> HIDE DEF x, up, more
    <3>2. x[i] \in Record
      <4> DEFINE ref == t[i].ref + 1
      <4>1. t[i] \in Record /\ ref \in Nat
        BY <1>3
      <4>2. x[i] = [t[i] EXCEPT !.type = type, !.nlink = 1, !.readable = TRUE,
                                !.target = target, !.ref = ref, !.up = up]
        BY <2>2
      <4> HIDE DEF ref
      <4> DEFINE y == [t[i] EXCEPT !.type = type, !.nlink = 1, !.readable = TRUE]
      <4>3. y \in Record
        BY <4>1 DEF Record
      <4>4. x[i] = [y EXCEPT !.target = target, !.ref = ref, !.up = up]
        BY <4>1, <4>2 DEF Record
      <4> HIDE DEF y
      <4> QED
        BY <3>1, <4>1, <4>3, <4>4 DEF Record
    <3>3. x[d] \in Record
      BY <1>3, <2>3, <3>1 DEF Record
    <3> QED
      BY <3>2, <3>3
  <2>6. x = [j \in Inode |-> x[j]]
    BY <1>1 DEF Table
  <2> HIDE DEF x
  <2> QED
    BY <1>3, <2>2, <2>3, <2>4, <2>5, <2>6
<1> HIDE DEF x
<1>5. /\ u[d] = [x[d] EXCEPT !.names = [@ EXCEPT ![n] = i]]
      /\ \A j \in Inode : j # d => u[j] = x[j]
      /\ DOMAIN u = Inode
  BY <1>4 DEF Linked
<1>6. u = [j \in Inode |-> u[j]]
  BY <1>4 DEF Linked
<1>a. (sub => up = d) /\ more = t[d].nlink + Bit(sub) /\ (~sub => up = 0)
  BY <1>3 DEF Bit
<1> HIDE DEF u, up, more
<1>7. /\ u[i] \in Record /\ u[i].type = type /\ u[i].nlink = 1 /\ u[i].lost = t[i].lost
      /\ u[i].up = up /\ u[i].leaked = t[i].leaked
      /\ u[i].ref = t[i].ref + 1 /\ u[i].names = t[i].names
  <2>1. u[i] = x[i] /\ t[i] \in Record
    BY <1>2, <1>3, <1>5
  <2> QED
    BY <1>4, <2>1 DEF Record
<1>8. /\ u[d] \in Record /\ u[d].type = t[d].type /\ u[d].lost = t[d].lost
      /\ u[d].nlink = t[d].nlink + Bit(sub)
      /\ u[d].up = t[d].up /\ u[d].leaked = t[d].leaked
      /\ u[d].ref = t[d].ref /\ u[d].names = [t[d].names EXCEPT ![n] = i]
  <2>1. /\ x[d] \in Record /\ x[d].type = t[d].type /\ x[d].lost = t[d].lost
        /\ x[d].nlink = t[d].nlink + Bit(sub)
        /\ x[d].up = t[d].up /\ x[d].leaked = t[d].leaked
        /\ x[d].ref = t[d].ref /\ x[d].names = t[d].names
    <3>1. x[d].nlink = more
      BY <1>3, <1>4 DEF Record
    <3> QED
      BY <1>3, <1>4, <1>a, <3>1 DEF Record
  <2>2. [x[d].names EXCEPT ![n] = i] \in [Name -> Inode \cup {0}]
    BY <1>3, <2>1
  <2> QED
    BY <1>5, <2>1, <2>2 DEF Record
<1> HIDE DEF sub
<1>9. u \in Table
  BY <1>3, <1>4, <1>5, <1>6, <1>7, <1>8 DEF Table
<1>10. \A j \in Inode : j # i /\ j # d => u[j] = t[j]
  BY <1>4, <1>5
<1>11. OneMore(t, u, d, n, i)
  <2>1. u[d].names[n] = i /\ \A m \in Name : m # n => u[d].names[m] = t[d].names[m]
    BY <1>3, <1>8
  <2>2. \A e \in Inode : e # d => u[e].names = t[e].names
    BY <1>7, <1>10
  <2> QED
    BY <2>1, <2>2 DEF OneMore
<1>12. \A e \in Inode, m \in Name : t[i].names[m] = 0 /\ t[e].names[m] # i
  BY <1>1, <1>2 DEF Shape
<1>13. Shape(u)
  <2>1. ASSUME NEW e \in Inode, NEW m \in Name, u[e].names[m] # 0
        PROVE  /\ u[e].type = "dir"
               /\ u[e].names[m] # e /\ u[e].names[m] # ROOTINO
               /\ u[u[e].names[m]].type # "free"
               /\ u[u[e].names[m]].type = "dir" =>
                    /\ u[u[e].names[m]].up = e
                    /\ \A k \in Name : u[e].names[k] = u[e].names[m] => k = m
    <3>1. CASE e = d /\ m = n
      <4>1. u[e].names[m] = i /\ \A k \in Name : k # n => u[d].names[k] # i
        BY <1>11, <1>12, <3>1 DEF OneMore
      <4>2. u[i].type # "free" /\ (u[i].type = "dir" => u[i].up = d)
        BY <1>7, <1>a DEF sub
      <4> QED
        BY <1>2, <1>8, <3>1, <4>1, <4>2
    <3>2. CASE e # d \/ m # n
      <4> DEFINE f == t[e].names[m]
      <4>1. u[e].names[m] = f /\ f \in Inode /\ f # i /\ e # i
        BY <1>3, <1>11, <1>12, <2>1, <3>2 DEF OneMore
      <4>2. /\ t[e].type = "dir" /\ f # e /\ f # ROOTINO /\ t[f].type # "free"
            /\ t[f].type = "dir" => /\ t[f].up = e
                                    /\ \A k \in Name : t[e].names[k] = f => k = m
        BY <1>1, <4>1, Constants DEF Shape
      <4>3. /\ u[e].type = t[e].type /\ u[f].type = t[f].type /\ u[f].up = t[f].up
        BY <1>8, <1>10, <4>1
      <4>4. \A k \in Name : u[e].names[k] = f => t[e].names[k] = f
        BY <1>11, <4>1 DEF OneMore
      <4> QED
        BY <4>1, <4>2, <4>3, <4>4
    <3> QED
      BY <3>1, <3>2
  <2>2. \A j \in Inode : /\ u[j].type = "dir" => u[j].up # 0
                         /\ u[j].type = "free" => u[j].nlink = 0
    <3>1. \A j \in Inode : /\ t[j].type = "dir" => t[j].up # 0
                           /\ t[j].type = "free" => t[j].nlink = 0
      BY <1>1 DEF Shape
    <3>2. u[i].type # "free" /\ (u[i].type = "dir" => u[i].up # 0)
      BY <1>7, <1>a, Constants DEF sub
    <3> QED
      BY <1>8, <1>10, <3>1, <3>2
  <2>3. u[ROOTINO].type = "dir"
    <3>1. t[ROOTINO].type = "dir" /\ ROOTINO \in Inode
      BY <1>1, Constants DEF Shape
    <3> QED
      BY <1>2, <1>8, <1>10, <3>1
  <2> QED
    BY <1>9, <2>1, <2>2, <2>3 DEF Shape
<1>14. /\ Cardinality(NamesIn(u, i)) = Cardinality(NamesIn(t, i)) + 1
       /\ NamesIn(u, i) # {} /\ NamesIn(t, i) = {}
       /\ \A j \in Inode : j # i => NamesIn(u, j) = NamesIn(t, j)
  <2>1. NamesIn(t, i) = {}
    BY <1>12 DEF NamesIn
  <2>2. /\ Cardinality(NamesIn(u, i)) = Cardinality(NamesIn(t, i)) + 1
        /\ \A j \in Inode : j # i => NamesIn(u, j) = NamesIn(t, j)
        /\ NamesIn(u, i) # {}
    BY <1>11, NameAdded
  <2> QED
    BY <2>1, <2>2
<1>15. \A j \in Inode : SubdirsIn(u, j) = IF sub /\ j = d THEN SubdirsIn(t, j) \cup {i}
                                          ELSE SubdirsIn(t, j)
  <2> TAKE j \in Inode
  <2>1. \A e \in Inode : e # i => (e \in SubdirsIn(u, j) <=> e \in SubdirsIn(t, j))
    BY <1>8, <1>10, <1>14 DEF SubdirsIn
  <2>2. i \notin SubdirsIn(t, j)
    BY <1>14 DEF SubdirsIn
  <2>3. i \in SubdirsIn(u, j) <=> sub /\ j = d
    BY <1>7, <1>14, <1>a, Constants DEF SubdirsIn, sub
  <2>4. SubdirsIn(u, j) \subseteq Inode /\ SubdirsIn(t, j) \subseteq Inode
    BY DEF SubdirsIn
  <2>5. CASE sub /\ j = d
    <3>1. SubdirsIn(u, j) = SubdirsIn(t, j) \cup {i}
      BY <2>1, <2>3, <2>4, <2>5
    <3> QED
      BY <2>5, <3>1
  <2>6. CASE ~(sub /\ j = d)
    <3>1. i \notin SubdirsIn(u, j)
      BY <2>3, <2>6
    <3>2. SubdirsIn(u, j) = SubdirsIn(t, j)
      BY <2>1, <2>2, <2>4, <3>1
    <3> QED
      BY <2>6, <3>2
  <2> QED
    BY <2>5, <2>6
<1>16. \A j \in Inode : Cardinality(SubdirsIn(u, j)) =
                          Cardinality(SubdirsIn(t, j)) + Bit(sub /\ d = j)
  <2> TAKE j \in Inode
  <2>1. Cardinality(SubdirsIn(t, j)) \in Nat /\ IsFiniteSet(SubdirsIn(t, j))
    BY ClaimsNat
  <2>2. CASE sub /\ d = j
    <3>1. i \notin SubdirsIn(t, j)
      BY <1>14 DEF SubdirsIn
    <3>2. Cardinality(SubdirsIn(t, j) \cup {i}) = Cardinality(SubdirsIn(t, j)) + 1
      BY <2>1, <3>1, FS_AddElement
    <3> QED
      BY <1>15, <2>2, <3>2 DEF Bit
  <2>3. CASE ~(sub /\ d = j)
    <3>1. SubdirsIn(u, j) = SubdirsIn(t, j)
      BY <1>15, <2>3
    <3> QED
      BY <2>1, <2>3, <3>1 DEF Bit
  <2> QED
    BY <2>2, <2>3
<1>17. Claims(t, i) = 0
  <2>1. ASSUME NEW e \in SubdirsIn(t, i) PROVE FALSE
    <3>1. PICK c \in Inode, m \in Name : t[c].names[m] = e
      BY <2>1 DEF SubdirsIn, NamesIn
    <3>2. e \in Inode /\ t[e].type = "dir" /\ t[e].up = i
      BY <2>1 DEF SubdirsIn
    <3>3. c = i
      BY <1>1, <3>1, <3>2, Constants DEF Shape
    <3> QED
      BY <1>12, <3>1, <3>2, <3>3, Constants
  <2>2. Cardinality(NamesIn(t, i)) = 0 /\ Cardinality(SubdirsIn(t, i)) = 0
    <3>1. NamesIn(t, i) = {} /\ SubdirsIn(t, i) = {}
      BY <1>14, <2>1
    <3> QED
      BY <3>1, FS_EmptySet
  <2> QED
    BY <1>2, <2>2 DEF Claims, Bit
<1>18. \A j \in Inode : Claims(u, j) = Claims(t, j) + Bit(i = j) + Bit(sub /\ d = j)
  <2> TAKE j \in Inode
  <2>1. /\ Cardinality(NamesIn(t, j)) \in Nat /\ Cardinality(SubdirsIn(t, j)) \in Nat
        /\ Bit(j = ROOTINO) \in Nat /\ Bit(i = j) \in Nat /\ Bit(sub /\ d = j) \in Nat
    BY ClaimsNat DEF Bit
  <2>2. Cardinality(NamesIn(u, j)) = Cardinality(NamesIn(t, j)) + Bit(i = j)
    <3>1. CASE i = j
      BY <1>14, <2>1, <3>1 DEF Bit
    <3>2. CASE i # j
      BY <1>14, <2>1, <3>2 DEF Bit
    <3> QED
      BY <3>1, <3>2
  <2> QED
    BY <1>16, <2>1, <2>2 DEF Claims
<1>19. Links(u, a)
  <2> SUFFICES ASSUME NEW j \in Inode
               PROVE  IF u[j].type = "free" THEN a[j] = 0
                      ELSE /\ u[j].nlink >= Claims(u, j) + a[j]
                           /\ ~u[j].lost => u[j].nlink = Claims(u, j) + a[j]
    BY DEF Links
  <2>1. IF t[j].type = "free" THEN a[j] = 0
        ELSE /\ t[j].nlink >= Claims(t, j) + a[j]
             /\ ~t[j].lost => t[j].nlink = Claims(t, j) + a[j]
    BY <1>1 DEF Links
  <2>2. Claims(t, j) \in Nat /\ a[j] \in Nat /\ t[j].nlink \in Nat
    BY <1>3
  <2>3. CASE j = i
    <3>1. Claims(u, i) = 1
      BY <1>2, <1>17, <1>18 DEF Bit
    <3> QED
      BY <1>7, <2>1, <2>2, <2>3, <3>1
  <2>4. CASE j = d
    <3>1. Claims(u, d) = Claims(t, d) + Bit(sub)
      BY <1>2, <1>3, <1>18 DEF Bit
    <3>2. Bit(sub) \in Nat
      BY DEF Bit
    <3> QED
      BY <1>8, <2>1, <2>2, <2>4, <3>1, <3>2
  <2>5. CASE j # i /\ j # d
    <3>1. Claims(u, j) = Claims(t, j)
      BY <1>3, <1>18, <2>5 DEF Bit
    <3> QED
      BY <1>10, <2>1, <2>5, <3>1
  <2> QED
    BY <2>3, <2>4, <2>5
<1>20. Plus(s, i) \in Counts /\ Plus(s, i)[i] = s[i] + 1
       /\ \A j \in Inode : j # i => Plus(s, i)[j] = s[j]
  BY <1>1 DEF Counts, Plus
<1>21. \A j \in Inode : u[j].ref = Plus(s, i)[j] + u[j].leaked
  <2>1. \A j \in Inode : t[j].ref = s[j] + t[j].leaked /\ t[j].leaked \in Nat
    BY <1>1 DEF Sound, Table, Record
  <2> TAKE j \in Inode
  <2>2. CASE j = i
    <3>1. /\ u[i].ref = t[i].ref + 1 /\ u[i].leaked = t[i].leaked
          /\ Plus(s, i)[i] = s[i] + 1 /\ t[i].ref = s[i] + t[i].leaked
          /\ s[i] \in Nat /\ t[i].leaked \in Nat
      BY <1>3, <1>7, <1>20, <2>1
    <3> QED
      BY <2>2, <3>1
  <2>3. CASE j = d
    BY <1>2, <1>8, <1>20, <2>1, <2>3
  <2>4. CASE j # i /\ j # d
    BY <1>10, <1>20, <2>1, <2>4
  <2> QED
    BY <2>2, <2>3, <2>4
<1>22. InTime(u)
  <2>1. \A j \in Inode : j # i /\ j # d /\ u[j].type # "free" /\ u[j].nlink = 0 => u[j].ref > 0
    BY <1>1, <1>10 DEF InTime
  <2>2. u[d].nlink = 0 => u[d].ref > 0
    <3>1. t[d].nlink = 0 => t[d].ref > 0
      BY <1>1 DEF InTime
    <3> QED
      BY <1>3, <1>8, <3>1 DEF Bit
  <2> QED
    BY <1>7, <2>1, <2>2 DEF InTime
<1>23. u = Made(t, d, n, i, type, target)
  BY DEF u, x, Made
<1>24. Sound(u, a, Plus(s, i))
  BY <1>1, <1>13, <1>19, <1>20, <1>21, <1>22 DEF Sound
<1>25. \A j \in Inode : j # i => u[j].type = t[j].type
  BY <1>8, <1>10
<1> QED
  BY <1>7, <1>23, <1>24, <1>25

-----------------------------------------------------------------------------
(* The inductive invariant *)

Component == Name \cup {".", ".."}
Path == {path \in Seq(Component \cup {"/"}) : Names(path) \in Seq(Component)}

Call ==
  [call : Calls \cup {"none"},
   stage : {"first", "old", "new", "exists", "create", "target"},
   at : {"user", "walk", "found", "parent", "last"},
   ip : Inode \cup {0}, rest : Seq(Component), path : Path, old : Inode \cup {0},
   depth : Nat, nest : Nat]

\* The inode whose next name link() has announced.
Old(c) == IF c.stage = "new" THEN c.old ELSE 0

\* What a call knows of the inodes it holds, and in which stages it may be.
Right(t, c) ==
  /\ c.ip # 0 <=> c.at \in {"walk", "found", "parent"}
  /\ c.at = "user" => c.stage = "first"
  /\ c.at = "found" => ~WantsParent(c)
  /\ c.at = "last" => c.stage # "new"
  /\ c.at = "parent" => WantsParent(c) /\ Len(c.rest) = 1 /\ t[c.ip].type = "dir"
  /\ c.call = "link" => c.stage \in {"old", "new"}
  /\ c.call = "symlink" <=> c.stage \in {"exists", "create"}
  /\ c.stage = "new" => /\ c.call = "link" /\ c.old # 0
                        /\ t[c.old].type \in {"file", "symlink"}

Count(f, i) == Cardinality({p \in Proc : f[p] = i})

\* The announced names and the pointers.
Ips == [p \in Proc |-> ctx[p].ip]
Olds == [p \in Proc |-> Old(ctx[p])]
Ann == [i \in Inode |-> Count(Olds, i)]
Refs == [i \in Inode |-> Count(cwd, i) + Count(ofile, i) + Count(Ips, i) + Count(Olds, i)]

\* Those of one process.
Weight(c, w, o, i) == Bit(w = i) + Bit(o = i) + Bit(c.ip = i) + Bit(Old(c) = i)

IInv ==
  /\ cwd \in [Proc -> Inode] /\ ofile \in [Proc -> Inode \cup {0}]
  /\ ctx \in [Proc -> Call]
  /\ Sound(inode, Ann, Refs)
  /\ \A p \in Proc :
       /\ Right(inode, ctx[p])
       /\ inode[cwd[p]].type # "free"
       /\ ofile[p] # 0 => inode[ofile[p]].type # "free"
  /\ panic # "unlink: nlink < 1"

AllBut(f, g, p) == \A q \in Proc : q # p => g[q] = f[q]

\* Counting is changed by one process.
LEMMA CountMoved ==
  ASSUME NEW f, NEW g, NEW p \in Proc, AllBut(f, g, p), NEW i
  PROVE  /\ Count(f, i) \in Nat /\ Count(g, i) \in Nat
         /\ Count(g, i) = Count(f, i) - Bit(f[p] = i) + Bit(g[p] = i)
         /\ Bit(f[p] = i) \in Nat /\ Bit(g[p] = i) \in Nat
<1> DEFINE F == {q \in Proc : f[q] = i}
           G == {q \in Proc : g[q] = i}
<1>1. /\ IsFiniteSet(F) /\ IsFiniteSet(G)
      /\ Cardinality(F) \in Nat /\ Cardinality(G) \in Nat
  BY Constants, FS_Subset, FS_CardinalityType
<1>2. /\ Count(f, i) = Cardinality(F) /\ Count(g, i) = Cardinality(G)
      /\ (f[p] = i <=> p \in F) /\ (g[p] = i <=> p \in G)
  BY DEF Count
<1>3. F \ {p} = G \ {p}
  BY DEF AllBut
<1> HIDE DEF F, G
<1>4. p \in F => Cardinality(F \ {p}) = Cardinality(F) - 1
  BY <1>1, FS_RemoveElement
<1>5. p \in G => Cardinality(G \ {p}) = Cardinality(G) - 1
  BY <1>1, FS_RemoveElement
<1>6. /\ p \notin F => F \ {p} = F
      /\ p \notin G => G \ {p} = G
  OBVIOUS
<1>7. /\ Bit(f[p] = i) = IF p \in F THEN 1 ELSE 0
      /\ Bit(g[p] = i) = IF p \in G THEN 1 ELSE 0
  BY DEF Bit, F, G
<1>8. Count(g, i) = Count(f, i) - Bit(f[p] = i) + Bit(g[p] = i)
  <2>1. Cardinality(F \ {p}) = Cardinality(F) - Bit(f[p] = i)
    BY <1>1, <1>4, <1>6, <1>7
  <2>2. Cardinality(G \ {p}) = Cardinality(G) - Bit(g[p] = i)
    BY <1>1, <1>5, <1>6, <1>7
  <2>3. Cardinality(F \ {p}) = Cardinality(G \ {p})
    BY <1>3
  <2>4. Bit(f[p] = i) \in Nat /\ Bit(g[p] = i) \in Nat
    BY DEF Bit
  <2> QED
    BY <1>1, <1>2, <2>1, <2>2, <2>3, <2>4
<1> QED
  BY <1>1, <1>2, <1>8 DEF Bit

LEMMA CountNat ==
  ASSUME NEW f, NEW i
  PROVE  Count(f, i) \in Nat
BY Constants, FS_Subset, FS_CardinalityType DEF Count

\* A pointer is counted.
LEMMA Counted ==
  ASSUME NEW f, NEW p \in Proc
  PROVE  Count(f, f[p]) \in Nat /\ Count(f, f[p]) > 0
<1> DEFINE F == {q \in Proc : f[q] = f[p]}
<1>1. IsFiniteSet(F) /\ Cardinality(F) \in Nat /\ p \in F
  BY Constants, FS_Subset, FS_CardinalityType
<1> HIDE DEF F
<1>2. Cardinality(F) # 0
  BY <1>1, FS_EmptySet
<1> QED
  BY <1>1, <1>2 DEF Count, F

\* What a process points to is counted.
LEMMA Pointed ==
  ASSUME IInv, NEW p \in Proc, NEW i \in Inode
  PROVE  /\ Refs[i] \in Nat /\ Ann[i] \in Nat
         /\ i \in {cwd[p], ofile[p], ctx[p].ip, Old(ctx[p])} => Refs[i] > 0
         /\ i = Old(ctx[p]) => Ann[i] > 0
         /\ Refs[i] >= Weight(ctx[p], cwd[p], ofile[p], i)
         /\ Ann[i] >= Bit(Old(ctx[p]) = i)
<1>1. /\ Count(cwd, i) \in Nat /\ Count(ofile, i) \in Nat
      /\ Count(Ips, i) \in Nat /\ Count(Olds, i) \in Nat
  BY CountNat
<1>2. /\ cwd[p] = i => Count(cwd, i) > 0
      /\ ofile[p] = i => Count(ofile, i) > 0
      /\ Ips[p] = i => Count(Ips, i) > 0
      /\ Olds[p] = i => Count(Olds, i) > 0
  BY Counted
<1>3. Ips[p] = ctx[p].ip /\ Olds[p] = Old(ctx[p])
  BY DEF Ips, Olds
<1>4. /\ Refs[i] = Count(cwd, i) + Count(ofile, i) + Count(Ips, i) + Count(Olds, i)
      /\ Ann[i] = Count(Olds, i)
  BY DEF Refs, Ann
<1> QED
  BY <1>1, <1>2, <1>3, <1>4 DEF Weight, Bit

\* A step of p alone.
Moves(p) ==
  /\ cwd' \in [Proc -> Inode] /\ ofile' \in [Proc -> Inode \cup {0}]
  /\ ctx' \in [Proc -> Call]
  /\ \A q \in Proc : q # p => /\ cwd'[q] = cwd[q] /\ ofile'[q] = ofile[q]
                              /\ ctx'[q] = ctx[q]

\* The counts change by what p takes and gives up.
LEMMA RefsMoved ==
  ASSUME IInv, NEW p \in Proc, Moves(p), NEW i \in Inode
  PROVE  /\ Refs'[i] = Refs[i] - Weight(ctx[p], cwd[p], ofile[p], i)
                         + Weight(ctx'[p], cwd'[p], ofile'[p], i)
         /\ Ann'[i] = Ann[i] - Bit(Old(ctx[p]) = i) + Bit(Old(ctx'[p]) = i)
         /\ \A q \in Proc : i \in {cwd'[q], ofile'[q], ctx'[q].ip, Old(ctx'[q])} => Refs'[i] > 0
<1>1. /\ Ips[p] = ctx[p].ip /\ Olds[p] = Old(ctx[p])
      /\ Ips'[p] = ctx'[p].ip /\ Olds'[p] = Old(ctx'[p])
      /\ AllBut(Ips, Ips', p) /\ AllBut(Olds, Olds', p)
      /\ AllBut(cwd, cwd', p) /\ AllBut(ofile, ofile', p)
  BY DEF Ips, Olds, Moves, AllBut
<1>2. /\ Count(cwd, i) \in Nat /\ Count(cwd', i) \in Nat
      /\ Count(cwd', i) = Count(cwd, i) - Bit(cwd[p] = i) + Bit(cwd'[p] = i)
  BY <1>1, CountMoved
<1>3. /\ Count(ofile, i) \in Nat /\ Count(ofile', i) \in Nat
      /\ Count(ofile', i) = Count(ofile, i) - Bit(ofile[p] = i) + Bit(ofile'[p] = i)
  BY <1>1, CountMoved
<1>4. /\ Count(Ips, i) \in Nat /\ Count(Ips', i) \in Nat
      /\ Count(Ips', i) = Count(Ips, i) - Bit(Ips[p] = i) + Bit(Ips'[p] = i)
  BY <1>1, CountMoved
<1>5. /\ Count(Olds, i) \in Nat /\ Count(Olds', i) \in Nat
      /\ Count(Olds', i) = Count(Olds, i) - Bit(Olds[p] = i) + Bit(Olds'[p] = i)
  BY <1>1, CountMoved
<1>6. /\ Refs[i] = Count(cwd, i) + Count(ofile, i) + Count(Ips, i) + Count(Olds, i)
      /\ Ann[i] = Count(Olds, i)
      /\ Refs'[i] = Count(cwd', i) + Count(ofile', i) + Count(Ips', i) + Count(Olds', i)
      /\ Ann'[i] = Count(Olds', i)
  BY DEF Refs, Ann
<1>7. ASSUME NEW q \in Proc, i \in {cwd'[q], ofile'[q], ctx'[q].ip, Old(ctx'[q])}
      PROVE  Refs'[i] > 0
  <2>1. /\ cwd'[q] = i => Count(cwd', i) > 0
        /\ ofile'[q] = i => Count(ofile', i) > 0
        /\ Ips'[q] = i => Count(Ips', i) > 0
        /\ Olds'[q] = i => Count(Olds', i) > 0
    BY Counted
  <2>2. Ips'[q] = ctx'[q].ip /\ Olds'[q] = Old(ctx'[q])
    BY DEF Ips, Olds
  <2> QED
    BY <1>2, <1>3, <1>4, <1>5, <1>6, <1>7, <2>1, <2>2
<1>8. /\ Bit(cwd[p] = i) \in Nat /\ Bit(cwd'[p] = i) \in Nat
      /\ Bit(ofile[p] = i) \in Nat /\ Bit(ofile'[p] = i) \in Nat
      /\ Bit(ctx[p].ip = i) \in Nat /\ Bit(ctx'[p].ip = i) \in Nat
      /\ Bit(Old(ctx[p]) = i) \in Nat /\ Bit(Old(ctx'[p]) = i) \in Nat
  BY DEF Bit
<1>9. Refs'[i] = Refs[i] - Weight(ctx[p], cwd[p], ofile[p], i)
                   + Weight(ctx'[p], cwd'[p], ofile'[p], i)
  BY <1>1, <1>2, <1>3, <1>4, <1>5, <1>6, <1>8 DEF Weight
<1>10. Ann'[i] = Ann[i] - Bit(Old(ctx[p]) = i) + Bit(Old(ctx'[p]) = i)
  BY <1>1, <1>5, <1>6
<1> QED
  BY <1>7, <1>9, <1>10

\* a and s are the counts after a step of p.
Balance(p, a, s) ==
  \A i \in Inode :
    /\ s[i] = Refs[i] - Weight(ctx[p], cwd[p], ofile[p], i)
                + Weight(ctx'[p], cwd'[p], ofile'[p], i)
    /\ a[i] = Ann[i] - Bit(Old(ctx[p]) = i) + Bit(Old(ctx'[p]) = i)

\* A step of p leaves the invariant true if its table is sound for the pointers
\* that p has afterwards, and what the others hold stays what it is.
LEMMA Step ==
  ASSUME IInv, NEW p \in Proc, Moves(p), NEW a, NEW s,
         Sound(inode', a, s), Keeps(inode, inode', s),
         Balance(p, a, s),
         Right(inode', ctx'[p]), inode'[cwd'[p]].type # "free",
         ofile'[p] # 0 => inode'[ofile'[p]].type # "free",
         panic' # "unlink: nlink < 1"
  PROVE  IInv'
<1>1. Refs' = s
  <2>1. ASSUME NEW i \in Inode PROVE Refs'[i] = s[i]
    <3>1. Refs'[i] = Refs[i] - Weight(ctx[p], cwd[p], ofile[p], i)
                       + Weight(ctx'[p], cwd'[p], ofile'[p], i)
      BY RefsMoved
    <3> QED
      BY <3>1 DEF Balance
  <2>2. Refs' = [i \in Inode |-> Refs'[i]]
    BY DEF Refs
  <2>3. s = [i \in Inode |-> s[i]]
    BY DEF Sound, Counts
  <2> QED
    BY <2>1, <2>2, <2>3
<1>2. Ann' = a
  <2>1. ASSUME NEW i \in Inode PROVE Ann'[i] = a[i]
    <3>1. Ann'[i] = Ann[i] - Bit(Old(ctx[p]) = i) + Bit(Old(ctx'[p]) = i)
      BY RefsMoved
    <3> QED
      BY <3>1 DEF Balance
  <2>2. Ann' = [i \in Inode |-> Ann'[i]]
    BY DEF Ann
  <2>3. a = [i \in Inode |-> a[i]]
    BY DEF Sound, Counts
  <2> QED
    BY <2>1, <2>2, <2>3
<1>3. ASSUME NEW q \in Proc, q # p
      PROVE  /\ Right(inode', ctx'[q]) /\ inode'[cwd'[q]].type # "free"
             /\ ofile'[q] # 0 => inode'[ofile'[q]].type # "free"
  <2>1. \A i \in Inode : i \in {cwd[q], ofile[q], ctx[q].ip, Old(ctx[q])} => s[i] > 0
    BY <1>1, <1>3, RefsMoved DEF Moves
  <2>2. /\ cwd'[q] = cwd[q] /\ ofile'[q] = ofile[q] /\ ctx'[q] = ctx[q]
        /\ cwd[q] \in Inode /\ ofile[q] \in Inode \cup {0} /\ ctx[q] \in Call
    BY <1>3 DEF Moves, IInv
  <2>3. /\ Right(inode, ctx[q]) /\ inode[cwd[q]].type # "free"
        /\ ofile[q] # 0 => inode[ofile[q]].type # "free"
    BY DEF IInv
  <2>4. \A i \in Inode : i \in {cwd[q], ofile[q], ctx[q].ip, Old(ctx[q])}
                           /\ inode[i].type # "free" => inode'[i].type = inode[i].type
    BY <2>1 DEF Keeps
  <2>5. inode'[cwd'[q]].type # "free"
    BY <2>2, <2>3, <2>4
  <2>6. ofile'[q] # 0 => inode'[ofile'[q]].type # "free"
    BY <2>2, <2>3, <2>4
  <2>7. ctx[q].at = "parent" => inode'[ctx[q].ip].type = "dir"
    <3>1. SUFFICES ASSUME ctx[q].at = "parent" PROVE inode'[ctx[q].ip].type = "dir"
      OBVIOUS
    <3>2. ctx[q].ip \in Inode /\ inode[ctx[q].ip].type = "dir"
      BY <2>2, <2>3, <3>1 DEF Right, Call
    <3> QED
      BY <2>4, <3>2
  <2>8. ctx[q].stage = "new" => inode'[ctx[q].old].type \in {"file", "symlink"}
    <3>1. SUFFICES ASSUME ctx[q].stage = "new"
                   PROVE  inode'[ctx[q].old].type \in {"file", "symlink"}
      OBVIOUS
    <3>2. /\ ctx[q].old \in Inode /\ inode[ctx[q].old].type \in {"file", "symlink"}
          /\ Old(ctx[q]) = ctx[q].old
      BY <2>2, <2>3, <3>1 DEF Right, Call, Old
    <3> QED
      BY <2>4, <3>2
  <2>9. Right(inode', ctx[q])
    BY <2>3, <2>7, <2>8 DEF Right
  <2> QED
    BY <2>2, <2>5, <2>6, <2>9
<1>4. \A q \in Proc : /\ Right(inode', ctx'[q]) /\ inode'[cwd'[q]].type # "free"
                      /\ ofile'[q] # 0 => inode'[ofile'[q]].type # "free"
  BY <1>3
<1> QED
  BY <1>1, <1>2, <1>4 DEF IInv, Moves

-----------------------------------------------------------------------------
(* Paths, and the steps that several calls share *)

LEMMA SlashIsPath == <<"/">> \in Path
<1>1. <<"/">> # <<>> /\ Head(<<"/">>) = "/" /\ Tail(<<"/">>) = <<>>
  OBVIOUS
<1>2. Names(<<"/">>) = <<>>
  BY <1>1 DEF Names
<1>3. <<"/">> \in Seq(Component \cup {"/"}) /\ <<>> \in Seq(Component)
  OBVIOUS
<1> QED
  BY <1>2, <1>3 DEF Path

\* Where namex() starts, and the names it goes through.
LEMMA PathsTyped ==
  /\ \A path \in Paths \cup Targets \cup {<<>>} : path \in Path
  /\ \A path \in Path, rest \in Seq(Component) : path \o rest \in Path
<1>1. \A path \in Seq(Component \cup {"/"}) :
        (\A k \in 2..Len(path) : path[k] # "/") => path \in Path
  <2> SUFFICES ASSUME NEW path \in Seq(Component \cup {"/"}),
                      \A k \in 2..Len(path) : path[k] # "/"
               PROVE  Names(path) \in Seq(Component)
    BY DEF Path
  <2>1. CASE path # <<>> /\ Head(path) = "/"
    <3>1. Tail(path) \in Seq(Component \cup {"/"}) /\ Len(Tail(path)) = Len(path) - 1
      BY <2>1
    <3>2. \A k \in 1..Len(Tail(path)) : Tail(path)[k] \in Component
      BY <2>1
    <3>3. Tail(path) \in Seq(Component)
      <4> DEFINE rest == Tail(path)
      <4>1. rest \in Seq(Component \cup {"/"}) /\ \A k \in 1..Len(rest) : rest[k] \in Component
        BY <3>1, <3>2
      <4> HIDE DEF rest
      <4>2. rest \in Seq(Component)
        BY <4>1
      <4> QED
        BY <4>2 DEF rest
    <3> QED
      BY <2>1, <3>3 DEF Names
  <2>2. CASE ~(path # <<>> /\ Head(path) = "/")
    <3>1. \A k \in 1..Len(path) : path[k] \in Component
      BY <2>2
    <3> QED
      BY <2>2, <3>1 DEF Names
  <2> QED
    BY <2>1, <2>2
<1>2. \A path \in Paths \cup Targets \cup {<<>>} : path \in Path
  <2>1. \A path \in Paths \cup Targets :
          /\ path \in Seq(Component \cup {"/"})
          /\ \A k \in 2..Len(path) : path[k] # "/"
    <3>1. Component \cup {"/"} = Name \cup {"/", ".", ".."}
      BY DEF Component
    <3> TAKE path \in Paths \cup Targets
    <3>2. /\ path \in Seq(Name \cup {"/", ".", ".."})
          /\ \A k \in 2..Len(path) : path[k] # "/"
      BY FileTreeAssumption
    <3> QED
      BY <3>1, <3>2
  <2>2. <<>> \in Path
    <3>1. Names(<<>>) = <<>>
      BY DEF Names
    <3>2. <<>> \in Seq(Component) /\ <<>> \in Seq(Component \cup {"/"})
      OBVIOUS
    <3> QED
      BY <3>1, <3>2 DEF Path
  <2> QED
    BY <1>1, <2>1, <2>2
<1>3. ASSUME NEW path \in Path, NEW rest \in Seq(Component)
      PROVE  path \o rest \in Path
  <2>1. path \in Seq(Component \cup {"/"}) /\ Names(path) \in Seq(Component)
    BY DEF Path
  <2>2. "/" \notin Component
    BY FileTreeAssumption DEF Component
  <2>3. path \o rest \in Seq(Component \cup {"/"})
    BY <2>1
  <2>4. \A k \in 2..Len(path) : path[k] # "/"
    <3>1. CASE path # <<>> /\ Head(path) = "/"
      <4>1. Tail(path) \in Seq(Component)
        BY <2>1, <3>1 DEF Names
      <4>2. \A k \in 2..Len(path) : path[k] = Tail(path)[k - 1] /\ k - 1 \in 1..Len(Tail(path))
        BY <2>1, <3>1
      <4>3. \A k \in 1..Len(Tail(path)) : Tail(path)[k] \in Component
        BY <4>1
      <4> QED
        BY <2>2, <4>2, <4>3
    <3>2. CASE ~(path # <<>> /\ Head(path) = "/")
      <4>1. path \in Seq(Component)
        BY <2>1, <3>2 DEF Names
      <4> QED
        BY <2>2, <4>1
    <3> QED
      BY <3>1, <3>2
  <2>5. \A k \in 2..Len(path \o rest) : (path \o rest)[k] # "/"
    <3> TAKE k \in 2..Len(path \o rest)
    <3>1. CASE k <= Len(path)
      BY <2>1, <2>4, <3>1
    <3>2. CASE k > Len(path)
      <4>1. /\ (path \o rest)[k] = rest[k - Len(path)]
            /\ k - Len(path) \in 1..Len(rest)
        BY <2>1, <3>2
      <4> QED
        BY <2>2, <4>1
    <3> QED
      BY <2>1, <3>1, <3>2
  <2> QED
    BY <1>1, <2>3, <2>5
<1> QED
  BY <1>2, <1>3

\* a and s are the counts when p's call has given up what it holds, and announced
\* a name of old or of no inode.
Dropped(p, a, s, old) ==
  \A i \in Inode :
    /\ s[i] = Refs[i] - Bit(ctx[p].ip = i) - Bit(Old(ctx[p]) = i) + Bit(old = i)
    /\ a[i] = Ann[i] - Bit(Old(ctx[p]) = i) + Bit(old = i)

\* What a process has open and its directory are kept.
LEMMA OwnKept ==
  ASSUME IInv, NEW p \in Proc, NEW t, NEW a, NEW s, Moves(p), UNCHANGED <<cwd, ofile>>,
         Balance(p, a, s), Keeps(inode, t, s)
  PROVE  t[cwd[p]].type # "free" /\ (ofile[p] # 0 => t[ofile[p]].type # "free")
<1>1. \A i \in Inode : i \in {cwd[p], ofile[p]} => s[i] > 0
  <2> TAKE i \in Inode
  <2>1. Refs'[i] = s[i]
    BY RefsMoved DEF Balance
  <2> QED
    BY <2>1, RefsMoved
<1>2. /\ cwd[p] \in Inode /\ ofile[p] \in Inode \cup {0} /\ inode[cwd[p]].type # "free"
      /\ ofile[p] # 0 => inode[ofile[p]].type # "free"
  BY DEF IInv
<1>3. t[cwd[p]].type # "free"
  BY <1>1, <1>2 DEF Keeps
<1>4. ofile[p] # 0 => t[ofile[p]].type # "free"
  BY <1>1, <1>2 DEF Keeps
<1> QED
  BY <1>3, <1>4

\* A call gives up what it holds, and announces nothing.
LEMMA LetGo ==
  ASSUME IInv, NEW p \in Proc, NEW t, NEW a, NEW s, NEW c \in Call,
         inode' = t, ctx' = [ctx EXCEPT ![p] = c], UNCHANGED <<panic, cwd, ofile>>,
         Sound(t, a, s), Keeps(inode, t, s), Dropped(p, a, s, 0),
         Right(t, c), c.ip = 0, Old(c) = 0
  PROVE  IInv'
<1>1. Moves(p) /\ ctx'[p] = c
  BY DEF IInv, Moves
<1>2. Balance(p, a, s)
  <2> SUFFICES ASSUME NEW i \in Inode
               PROVE  /\ s[i] = Refs[i] - Weight(ctx[p], cwd[p], ofile[p], i)
                                   + Weight(ctx'[p], cwd'[p], ofile'[p], i)
                      /\ a[i] = Ann[i] - Bit(Old(ctx[p]) = i) + Bit(Old(ctx'[p]) = i)
    BY DEF Balance
  <2>1. Bit(c.ip = i) = 0 /\ Bit(Old(c) = i) = 0 /\ Bit(0 = i) = 0
    BY Constants DEF Bit
  <2>2. /\ Bit(cwd[p] = i) \in Nat /\ Bit(ofile[p] = i) \in Nat
        /\ Bit(ctx[p].ip = i) \in Nat /\ Bit(Old(ctx[p]) = i) \in Nat
    BY DEF Bit
  <2>3. Refs[i] \in Nat /\ Ann[i] \in Nat
    BY Pointed
  <2> QED
    BY <1>1, <2>1, <2>2, <2>3 DEF Weight, Dropped
<1>3. /\ t[cwd[p]].type # "free"
      /\ ofile[p] # 0 => t[ofile[p]].type # "free"
  BY <1>1, <1>2, OwnKept
<1>4. panic' # "unlink: nlink < 1"
  BY DEF IInv
<1>5. /\ Sound(inode', a, s) /\ Keeps(inode, inode', s)
      /\ Right(inode', ctx'[p]) /\ inode'[cwd'[p]].type # "free"
      /\ ofile'[p] # 0 => inode'[ofile'[p]].type # "free"
  BY <1>1, <1>3
<1> QED
  BY <1>1, <1>2, <1>4, <1>5, Step

LEMMA IdleIsRight ==
  /\ Idle \in Call /\ Old(Idle) = 0 /\ Idle.ip = 0 /\ Idle.at = "user"
  /\ Idle.stage = "first" /\ Idle.call = "none"
  /\ \A t : Right(t, Idle)
<1>1. Idle \in Call /\ Old(Idle) = 0 /\ Idle.ip = 0 /\ Idle.at = "user"
      /\ Idle.stage = "first" /\ Idle.call = "none"
  BY PathsTyped DEF Idle, Call, Old
<1> QED
  BY <1>1 DEF Right

\* A call returns.
LEMMA ReturnsStep ==
  ASSUME IInv, NEW p \in Proc, NEW t, NEW a, NEW s,
         Returns(p, t), UNCHANGED <<cwd, ofile>>,
         Sound(t, a, s), Keeps(inode, t, s), Dropped(p, a, s, 0)
  PROVE  IInv'
<1>1. inode' = t /\ ctx' = [ctx EXCEPT ![p] = Idle] /\ panic' = panic
  BY DEF Returns
<1> QED
  BY <1>1, IdleIsRight, LetGo

\* namex() begins, for a call c that holds nothing else than an announced name.
LEMMA WalkStep ==
  ASSUME IInv, NEW p \in Proc, NEW t, NEW a, NEW s, NEW path \in Path, NEW c \in Call,
         Walk(p, t, path, c), UNCHANGED <<cwd, ofile>>,
         Sound(t, a, s), Keeps(inode, t, s), Dropped(p, a, s, Old(c)),
         c.call = "link" => c.stage \in {"old", "new"},
         c.call = "symlink" <=> c.stage \in {"exists", "create"},
         c.stage = "new" => /\ c.call = "link" /\ c.old # 0
                            /\ t[c.old].type \in {"file", "symlink"}
  PROVE  IInv'
<1> DEFINE d == From(p, path)
           e == [c EXCEPT !.at = "walk", !.ip = d, !.rest = Names(path)]
<1>1. d \in Inode /\ Names(path) \in Seq(Component)
  BY Constants DEF From, IInv, Path
<1>2. inode' = Get(t, d) /\ ctx' = [ctx EXCEPT ![p] = e] /\ panic' = panic
  BY DEF Walk
<1>3. /\ e \in Call /\ e.at = "walk" /\ e.ip = d /\ Old(e) = Old(c)
      /\ e.call = c.call /\ e.stage = c.stage /\ e.old = c.old
  BY <1>1 DEF Call, Old
<1> HIDE DEF d, e
<1>4. Moves(p) /\ ctx'[p] = e
  BY <1>2, <1>3 DEF IInv, Moves
<1>5. /\ Sound(inode', a, Plus(s, d))
      /\ \A i \in Inode : inode'[i].type = t[i].type
  BY <1>1, <1>2, GetSound
<1>6. /\ \A i \in Inode : Plus(s, d)[i] = s[i] + Bit(d = i) /\ s[i] \in Nat
      /\ Plus(s, d) \in Counts
  BY <1>1 DEF Sound, Counts, Plus, Bit
<1>7. Balance(p, a, Plus(s, d))
  <2> SUFFICES ASSUME NEW i \in Inode
               PROVE  /\ Plus(s, d)[i] = Refs[i] - Weight(ctx[p], cwd[p], ofile[p], i)
                                   + Weight(ctx'[p], cwd'[p], ofile'[p], i)
                      /\ a[i] = Ann[i] - Bit(Old(ctx[p]) = i) + Bit(Old(ctx'[p]) = i)
    BY DEF Balance
  <2>1. /\ Bit(cwd[p] = i) \in Nat /\ Bit(ofile[p] = i) \in Nat
        /\ Bit(ctx[p].ip = i) \in Nat /\ Bit(Old(ctx[p]) = i) \in Nat
        /\ Bit(d = i) \in Nat /\ Bit(Old(c) = i) \in Nat
    BY DEF Bit
  <2>2. Refs[i] \in Nat /\ Ann[i] \in Nat
    BY Pointed
  <2> QED
    BY <1>3, <1>4, <1>6, <2>1, <2>2 DEF Weight, Dropped
<1>8. Keeps(inode, inode', Plus(s, d))
  <2> SUFFICES ASSUME NEW i \in Inode, Plus(s, d)[i] > 0, inode[i].type # "free"
               PROVE  inode'[i].type = inode[i].type
    BY DEF Keeps
  <2>1. CASE s[i] > 0
    BY <1>5, <2>1 DEF Keeps
  <2>2. CASE i = d /\ d = ROOTINO
    BY <1>5, <2>2 DEF IInv, Sound, Shape
  <2>3. CASE i = d /\ d = cwd[p]
    <3>1. s[i] = Refs[i] - Bit(ctx[p].ip = i) - Bit(Old(ctx[p]) = i) + Bit(Old(c) = i)
      BY DEF Dropped
    <3>2. Refs[i] >= Weight(ctx[p], cwd[p], ofile[p], i)
      BY Pointed
    <3>3. s[i] > 0
      BY <2>3, <3>1, <3>2, Pointed DEF Weight, Bit
    <3> QED
      BY <2>1, <3>3
  <2> QED
    BY <1>6, <2>1, <2>2, <2>3 DEF Bit, d, From
<1>9. inode'[cwd[p]].type # "free" /\ (ofile[p] # 0 => inode'[ofile[p]].type # "free")
  BY <1>4, <1>7, <1>8, OwnKept
<1>10. Right(inode', e)
  <2>1. c.stage = "new" => inode'[c.old].type \in {"file", "symlink"}
    <3> SUFFICES ASSUME c.stage = "new" PROVE inode'[c.old].type \in {"file", "symlink"}
      OBVIOUS
    <3>1. c.old \in Inode
      BY DEF Call
    <3> QED
      BY <1>5, <3>1
  <2> QED
    BY <1>1, <1>3, <2>1, Constants DEF Right
<1>11. panic' # "unlink: nlink < 1" /\ cwd' = cwd /\ ofile' = ofile
  BY <1>2 DEF IInv
<1> QED
  BY <1>4, <1>5, <1>7, <1>8, <1>9, <1>10, <1>11, Step

\* namex() puts the inode that it has.
LEMMA IpPut ==
  ASSUME IInv, NEW p \in Proc, ctx[p].at \in {"walk", "found", "parent"}
  PROVE  /\ ctx[p] \in Call /\ ctx[p].ip \in Inode
         /\ Sound(Put(inode, ctx[p].ip), Ann, Minus(Refs, ctx[p].ip))
         /\ Keeps(inode, Put(inode, ctx[p].ip), Minus(Refs, ctx[p].ip))
         /\ Dropped(p, Ann, Minus(Refs, ctx[p].ip), Old(ctx[p]))
         /\ \A j \in Inode : Minus(Refs, ctx[p].ip)[j] = Refs[j] - Bit(ctx[p].ip = j)
<1> DEFINE i == ctx[p].ip
<1>1. ctx[p] \in Call /\ i \in Inode
  BY DEF IInv, Right, Call
<1>2. Sound(inode, Ann, Refs) /\ Refs[i] > 0
  BY <1>1, Pointed DEF IInv
<1>3. Sound(Put(inode, i), Ann, Minus(Refs, i)) /\ Keeps(inode, Put(inode, i), Minus(Refs, i))
  BY <1>1, <1>2, PutSound
<1>4. \A j \in Inode : Minus(Refs, i)[j] = Refs[j] - Bit(i = j)
  <2>1. Refs \in Counts
    BY <1>2 DEF Sound
  <2> QED
    BY <1>1, <2>1 DEF Counts, Minus, Bit
<1>5. Dropped(p, Ann, Minus(Refs, i), Old(ctx[p]))
  <2> SUFFICES ASSUME NEW j \in Inode
               PROVE  /\ Minus(Refs, i)[j] = Refs[j] - Bit(i = j) - Bit(Old(ctx[p]) = j)
                                              + Bit(Old(ctx[p]) = j)
                      /\ Ann[j] = Ann[j] - Bit(Old(ctx[p]) = j) + Bit(Old(ctx[p]) = j)
    BY DEF Dropped
  <2>1. Bit(i = j) \in Nat /\ Bit(Old(ctx[p]) = j) \in Nat
    BY DEF Bit
  <2>2. Refs[j] \in Nat /\ Ann[j] \in Nat
    BY Pointed
  <2> QED
    BY <1>4, <2>1, <2>2
<1> QED
  BY <1>1, <1>3, <1>4, <1>5
\* A step that changes neither inodes nor pointers.
LEMMA Unmoved ==
  ASSUME IInv, UNCHANGED <<inode, cwd, ofile, ctx>>, panic' # "unlink: nlink < 1"
  PROVE  IInv'
<1>1. Refs' = Refs /\ Ann' = Ann
  BY DEF Refs, Ann, Ips, Olds, Count
<1> QED
  BY <1>1 DEF IInv

\* What is held is put.
LEMMA PutHeld ==
  ASSUME NEW t, NEW a, NEW s, NEW i \in Inode,
         Sound(t, a, s), Keeps(inode, t, s), s[i] > 0
  PROVE  /\ Sound(Put(t, i), a, Minus(s, i)) /\ Keeps(inode, Put(t, i), Minus(s, i))
         /\ \A j \in Inode : Minus(s, i)[j] = s[j] - Bit(i = j) /\ s[j] \in Nat
         /\ Keeps(t, Put(t, i), Minus(s, i))
<1>1. Sound(Put(t, i), a, Minus(s, i)) /\ Keeps(t, Put(t, i), Minus(s, i))
  BY PutSound
<1>2. \A j \in Inode : Minus(s, i)[j] = s[j] - Bit(i = j) /\ s[j] \in Nat
  BY DEF Sound, Counts, Minus, Bit
<1>3. Keeps(inode, Put(t, i), Minus(s, i))
  <2> SUFFICES ASSUME NEW j \in Inode, Minus(s, i)[j] > 0, inode[j].type # "free"
               PROVE  Put(t, i)[j].type = inode[j].type
    BY DEF Keeps
  <2>1. s[j] > 0
    BY <1>2 DEF Bit
  <2>2. t[j].type = inode[j].type
    BY <2>1 DEF Keeps
  <2> QED
    BY <1>1, <2>2 DEF Keeps
<1> QED
  BY <1>1, <1>2, <1>3

\* link() gives up.
LEMMA UndoneStep ==
  ASSUME IInv, NEW p \in Proc, ctx[p].at \in {"walk", "parent"}, ctx[p].stage = "new",
         Returns(p, Put(Undone(Put(inode, ctx[p].ip), ctx[p].old), ctx[p].old)),
         UNCHANGED <<cwd, ofile>>
  PROVE  IInv'
<1> DEFINE c == ctx[p]
           t == Put(inode, c.ip)
           s == Minus(Refs, c.ip)
           o == c.old
           u == Undone(t, o)
           a == Minus(Ann, o)
           r == Minus(s, o)
<1>1. /\ c \in Call /\ c.ip \in Inode /\ Right(inode, c)
      /\ Sound(t, Ann, s) /\ Keeps(inode, t, s)
      /\ \A j \in Inode : s[j] = Refs[j] - Bit(c.ip = j)
  BY IpPut DEF IInv
<1>2. o \in Inode /\ Old(c) = o
  BY <1>1 DEF Right, Call, Old
<1> HIDE DEF t, s
<1>3. /\ Refs[o] >= Bit(c.ip = o) + 1 /\ Ann[o] >= 1
      /\ Refs[o] \in Nat /\ Ann[o] \in Nat
  BY <1>2, Pointed DEF Weight, Bit
<1>4. s[o] > 0
  BY <1>1, <1>2, <1>3 DEF Bit
<1>5. Sound(u, a, s) /\ \A j \in Inode : u[j].type = t[j].type
  BY <1>1, <1>2, <1>3, <1>4, UndoneSound
<1> HIDE DEF u
<1>6. Keeps(inode, u, s)
  BY <1>1, <1>5 DEF Keeps
<1>7. \A j \in Inode : a[j] = Ann[j] - Bit(o = j)
  BY <1>1, <1>2 DEF Sound, Counts, Minus, Bit
<1> HIDE DEF a, o
<1>8. Sound(Put(u, o), a, Minus(s, o)) /\ Keeps(inode, Put(u, o), Minus(s, o))
  BY <1>2, <1>4, <1>5, <1>6, PutHeld
<1>9. \A j \in Inode : Minus(s, o)[j] = s[j] - Bit(o = j)
  BY <1>1, <1>2 DEF Sound, Counts, Minus, Bit
<1> HIDE DEF r
<1>10. Dropped(p, a, r, 0)
  <2> SUFFICES ASSUME NEW j \in Inode
               PROVE  /\ r[j] = Refs[j] - Bit(c.ip = j) - Bit(Old(c) = j) + Bit(0 = j)
                      /\ a[j] = Ann[j] - Bit(Old(c) = j) + Bit(0 = j)
    BY DEF Dropped
  <2>1. Bit(0 = j) = 0
    BY Constants DEF Bit
  <2>2. /\ Refs[j] \in Nat /\ Ann[j] \in Nat /\ Bit(c.ip = j) \in Nat
        /\ Bit(o = j) \in Nat
    BY Pointed DEF Bit
  <2> QED
    BY <1>1, <1>2, <1>7, <1>9, <2>1, <2>2 DEF r
<1>11. Returns(p, Put(u, o))
  BY DEF u, t, o
<1> QED
  BY <1>8, <1>10, <1>11, ReturnsStep DEF r

\* namex() has found nothing.
LEMMA NotFoundStep ==
  ASSUME IInv, NEW p \in Proc, ctx[p].at = "walk",
         NotFound(p, Put(inode, ctx[p].ip)), UNCHANGED <<cwd, ofile>>
  PROVE  IInv'
<1> DEFINE c == ctx[p]
           t == Put(inode, c.ip)
           s == Minus(Refs, c.ip)
<1>1. /\ c \in Call /\ c.ip \in Inode /\ Right(inode, c)
      /\ Sound(t, Ann, s) /\ Keeps(inode, t, s) /\ Dropped(p, Ann, s, Old(c))
      /\ \A j \in Inode : s[j] = Refs[j] - Bit(c.ip = j)
  BY IpPut DEF IInv
<1> HIDE DEF t, s
<1>2. CASE c.stage # "new" /\ Returns(p, t)
  <2>1. Dropped(p, Ann, s, 0)
    BY <1>1, <1>2 DEF Old
  <2> QED
    BY <1>1, <1>2, <2>1, ReturnsStep
<1>3. CASE c.stage = "exists" /\ Walk(p, t, c.path, [c EXCEPT !.stage = "create"])
  <2> DEFINE e == [c EXCEPT !.stage = "create"]
  <2>1. /\ e \in Call /\ e.stage = "create" /\ e.call = c.call /\ Old(e) = 0
        /\ c.path \in Path /\ Old(c) = 0
    BY <1>1, <1>3 DEF Call, Old
  <2>2. c.call = "symlink"
    BY <1>1, <1>3 DEF Right
  <2>3. Walk(p, t, c.path, e)
    BY <1>3
  <2> HIDE DEF e
  <2>4. /\ e.call = "link" => e.stage \in {"old", "new"}
        /\ e.call = "symlink" <=> e.stage \in {"exists", "create"}
        /\ e.stage = "new" => /\ e.call = "link" /\ e.old # 0
                              /\ t[e.old].type \in {"file", "symlink"}
    BY <2>1, <2>2
  <2>5. Dropped(p, Ann, s, Old(e))
    BY <1>1, <2>1
  <2> QED
    BY <1>1, <2>1, <2>3, <2>4, <2>5, WalkStep
<1>4. CASE c.stage = "new" /\ Returns(p, Put(Undone(t, c.old), c.old))
  BY <1>1, <1>4, UndoneStep DEF t
<1>5. CASE Panics("iunlock")
  <2>1. inode' = inode /\ ctx' = ctx /\ panic' = "iunlock"
    BY <1>5 DEF Panics
  <2> QED
    BY <2>1, Unmoved
<1> QED
  BY <1>2, <1>3, <1>4, <1>5 DEF NotFound, t

-----------------------------------------------------------------------------
(* The actions of namex() *)

LEMMA EnterStep == ASSUME IInv, NEW p \in Proc, Enter(p) PROVE IInv'
<1>1. PICK call \in Calls, path \in Paths :
        Walk(p, inode, path, [Idle EXCEPT !.call = call, !.path = path,
               !.stage = IF call = "link" THEN "old" ELSE
                         IF call = "symlink" THEN "exists" ELSE "first"])
  BY DEF Enter
<1> DEFINE stage == IF call = "link" THEN "old" ELSE
                    IF call = "symlink" THEN "exists" ELSE "first"
           c == [Idle EXCEPT !.call = call, !.path = path, !.stage = stage]
<1>2. stage \in {"old", "exists", "first"} /\ (call = "link" => stage = "old")
      /\ (call = "symlink" <=> stage = "exists")
  OBVIOUS
<1>3. path \in Path
  BY PathsTyped
<1>4. Walk(p, inode, path, c)
  BY <1>1
<1> HIDE DEF stage
<1>5. c \in Call /\ c.call = call /\ c.stage = stage /\ Old(c) = 0
  BY <1>2, <1>3, IdleIsRight DEF Call, Old
<1> HIDE DEF c
<1>6. Sound(inode, Ann, Refs) /\ Keeps(inode, inode, Refs)
  BY DEF IInv, Keeps
<1>7. Dropped(p, Ann, Refs, Old(c))
  <2>1. ctx[p].ip = 0 /\ Old(ctx[p]) = 0
    BY IdleIsRight DEF Enter
  <2> SUFFICES ASSUME NEW i \in Inode
               PROVE  /\ Refs[i] = Refs[i] - Bit(0 = i) - Bit(0 = i) + Bit(0 = i)
                      /\ Ann[i] = Ann[i] - Bit(0 = i) + Bit(0 = i)
    BY <1>5, <2>1 DEF Dropped
  <2>2. Bit(0 = i) = 0
    BY Constants DEF Bit
  <2> QED
    BY <2>2, Pointed
<1>8. /\ c.call = "link" => c.stage \in {"old", "new"}
      /\ c.call = "symlink" <=> c.stage \in {"exists", "create"}
      /\ c.stage = "new" => /\ c.call = "link" /\ c.old # 0
                            /\ inode[c.old].type \in {"file", "symlink"}
  BY <1>2, <1>5
<1>9. UNCHANGED <<cwd, ofile>>
  BY DEF Enter
<1> QED
  BY <1>3, <1>4, <1>5, <1>6, <1>7, <1>8, <1>9, WalkStep

\* The code stops in a panic.
LEMMA PanicSteps ==
  ASSUME IInv, NEW p \in Proc, WalkPanics(p) \/ FoundPanics(p) \/ CreatePanics(p)
  PROVE  IInv'
<1>1. /\ UNCHANGED <<inode, cwd, ofile, ctx>>
      /\ panic' \in {"ilock: no type", "ialloc: no inodes"}
  BY DEF WalkPanics, FoundPanics, CreatePanics, Panics
<1> QED
  BY <1>1, Unmoved

LEMMA WalkRefusedStep == ASSUME IInv, NEW p \in Proc, WalkRefused(p) PROVE IInv'
BY NotFoundStep DEF WalkRefused, At

\* A call goes on with the inode that it holds.
LEMMA PlaceStep ==
  ASSUME IInv, NEW p \in Proc, NEW c \in Call, c.ip = ctx[p].ip, Old(c) = Old(ctx[p]),
         ctx' = [ctx EXCEPT ![p] = c], UNCHANGED <<inode, cwd, ofile, panic>>,
         Right(inode, c)
  PROVE  IInv'
<1>1. Moves(p) /\ ctx'[p] = c
  BY DEF IInv, Moves
<1>2. Sound(inode', Ann, Refs) /\ Keeps(inode, inode', Refs)
  BY DEF IInv, Keeps
<1>3. Balance(p, Ann, Refs)
  <2> SUFFICES ASSUME NEW i \in Inode
               PROVE  /\ Refs[i] = Refs[i] - Weight(ctx[p], cwd[p], ofile[p], i)
                                   + Weight(ctx'[p], cwd'[p], ofile'[p], i)
                      /\ Ann[i] = Ann[i] - Bit(Old(ctx[p]) = i) + Bit(Old(ctx'[p]) = i)
    BY DEF Balance
  <2>1. /\ Bit(cwd[p] = i) \in Nat /\ Bit(ofile[p] = i) \in Nat
        /\ Bit(ctx[p].ip = i) \in Nat /\ Bit(Old(ctx[p]) = i) \in Nat
    BY DEF Bit
  <2>2. Refs[i] \in Nat /\ Ann[i] \in Nat
    BY Pointed
  <2> QED
    BY <1>1, <2>1, <2>2 DEF Weight
<1>4. /\ Right(inode', ctx'[p]) /\ inode'[cwd'[p]].type # "free"
      /\ ofile'[p] # 0 => inode'[ofile'[p]].type # "free"
      /\ panic' # "unlink: nlink < 1"
  BY <1>1 DEF IInv
<1> QED
  BY <1>1, <1>2, <1>3, <1>4, Step

LEMMA WalkToParentStep == ASSUME IInv, NEW p \in Proc, WalkToParent(p) PROVE IInv'
<1> DEFINE c == [ctx[p] EXCEPT !.at = "parent"]
<1>1. ctx[p] \in Call /\ Right(inode, ctx[p])
  BY DEF IInv
<1>2. /\ ctx[p].at = "walk" /\ inode[ctx[p].ip].type = "dir"
      /\ WantsParent(ctx[p]) /\ Len(ctx[p].rest) = 1
  BY DEF WalkToParent, At, Reads, Locked
<1>3. ctx' = [ctx EXCEPT ![p] = c] /\ UNCHANGED <<inode, cwd, ofile, panic>>
  BY DEF WalkToParent
<1>4. /\ c \in Call /\ c.ip = ctx[p].ip /\ Old(c) = Old(ctx[p]) /\ c.at = "parent"
      /\ c.call = ctx[p].call /\ c.stage = ctx[p].stage /\ c.rest = ctx[p].rest
      /\ c.old = ctx[p].old
  BY <1>1 DEF Call, Old
<1> HIDE DEF c
<1>5. Right(inode, c)
  BY <1>1, <1>2, <1>4 DEF Right, WantsParent
<1> QED
  BY <1>3, <1>4, <1>5, PlaceStep

LEMMA RestOverwrittenStep == ASSUME IInv, NEW p \in Proc, RestOverwritten(p) PROVE IInv'
<1>1. PICK path \in Paths : ctx' = [ctx EXCEPT ![p].rest = Names(path)]
  BY DEF RestOverwritten
<1> DEFINE c == [ctx[p] EXCEPT !.rest = Names(path)]
<1>2. ctx[p] \in Call /\ Right(inode, ctx[p]) /\ ctx[p].at = "walk"
  BY DEF IInv, RestOverwritten, InBuffer
<1>3. Names(path) \in Seq(Component)
  BY PathsTyped DEF Path
<1>4. ctx' = [ctx EXCEPT ![p] = c] /\ UNCHANGED <<inode, cwd, ofile, panic>>
  BY <1>1 DEF RestOverwritten, IInv
<1>5. /\ c \in Call /\ c.ip = ctx[p].ip /\ Old(c) = Old(ctx[p]) /\ c.at = ctx[p].at
      /\ c.call = ctx[p].call /\ c.stage = ctx[p].stage /\ c.old = ctx[p].old
  BY <1>2, <1>3 DEF Call, Old
<1> HIDE DEF c
<1>6. Right(inode, c)
  BY <1>2, <1>5 DEF Right, WantsParent
<1> QED
  BY <1>4, <1>5, <1>6, PlaceStep

LEMMA WalkEndsStep == ASSUME IInv, NEW p \in Proc, WalkEnds(p) PROVE IInv'
<1>1. ctx[p].at = "walk" /\ UNCHANGED <<cwd, ofile>>
  BY DEF WalkEnds, At
<1>2. CASE WantsParent(ctx[p])
  BY <1>1, <1>2, NotFoundStep DEF WalkEnds
<1>3. CASE ~WantsParent(ctx[p])
  <2> DEFINE c == [ctx[p] EXCEPT !.at = "found"]
  <2>1. ctx[p] \in Call /\ Right(inode, ctx[p])
    BY DEF IInv
  <2>2. ctx' = [ctx EXCEPT ![p] = c] /\ UNCHANGED <<inode, cwd, ofile, panic>>
    BY <1>3 DEF WalkEnds
  <2>3. /\ c \in Call /\ c.ip = ctx[p].ip /\ Old(c) = Old(ctx[p]) /\ c.at = "found"
        /\ c.call = ctx[p].call /\ c.stage = ctx[p].stage /\ c.old = ctx[p].old
    BY <2>1 DEF Call, Old
  <2> HIDE DEF c
  <2>4. Right(inode, c)
    BY <1>1, <1>3, <2>1, <2>3 DEF Right, WantsParent
  <2> QED
    BY <2>2, <2>3, <2>4, PlaceStep
<1> QED
  BY <1>2, <1>3

\* A name found is an inode, or 0.
LEMMA LookupType ==
  ASSUME NEW t \in Table, NEW d \in Inode, NEW n \in Component
  PROVE  Lookup(t, d, n) \in Inode \cup {0}
<1>1. t[d] \in Record
  BY DEF Table
<1>2. t[d].up \in Inode \cup {0} /\ \A m \in Name : t[d].names[m] \in Inode \cup {0}
  BY <1>1 DEF Record
<1>3. CASE n = "."
  BY <1>3 DEF Lookup
<1>4. CASE n = ".."
  BY <1>2, <1>4 DEF Lookup
<1>5. CASE n # "." /\ n # ".."
  BY <1>2, <1>5 DEF Lookup, Component
<1> QED
  BY <1>3, <1>4, <1>5

\* The references of p's call, when it has taken i and put its inode.
Taking(p, s, i) ==
  \A j \in Inode : s[j] = Refs[j] - Bit(ctx[p].ip = j) + Bit(i = j)

LEMMA TakenSound ==
  ASSUME IInv, NEW p \in Proc, ctx[p].at \in {"walk", "found", "parent"}, NEW i \in Inode
  PROVE  LET t == Taken(inode, ctx[p].ip, i)
             s == Minus(Plus(Refs, i), ctx[p].ip)
         IN /\ Sound(t, Ann, s) /\ Keeps(inode, t, s) /\ Taking(p, s, i) /\ s[i] > 0
            /\ t[i].type = inode[i].type
            /\ Sound(Put(t, i), Ann, Minus(s, i)) /\ Keeps(inode, Put(t, i), Minus(s, i))
            /\ Dropped(p, Ann, Minus(s, i), Old(ctx[p]))
<1> DEFINE d == ctx[p].ip
           u == Get(inode, i)
           r == Plus(Refs, i)
           t == Put(u, d)
           s == Minus(r, d)
<1>1. d \in Inode /\ Refs[d] > 0 /\ Refs \in Counts /\ Ann \in Counts
      /\ Refs[i] >= Bit(d = i) /\ Refs[i] \in Nat
  <2>1. ctx[p].ip \in Inode
    BY IpPut
  <2>2. Refs[i] >= Weight(ctx[p], cwd[p], ofile[p], i) /\ Refs[i] \in Nat
    BY Pointed
  <2>3. Refs[i] >= Bit(d = i)
    BY <2>2 DEF Weight, Bit
  <2>4. Refs \in Counts /\ Ann \in Counts
    BY DEF IInv, Sound
  <2>5. Refs[ctx[p].ip] > 0
    BY <2>1, Pointed
  <2> QED
    BY <2>1, <2>2, <2>3, <2>4, <2>5
<1>2. Sound(u, Ann, r) /\ \A j \in Inode : u[j].type = inode[j].type
  <2>1. Sound(inode, Ann, Refs)
    BY DEF IInv
  <2>2. Sound(u, Ann, r)
    BY <2>1, GetSound
  <2>3. inode \in Table
    BY <2>1 DEF Sound, Shape
  <2>4. \A j \in Inode : u[j].type = inode[j].type
    BY <2>3, GetType
  <2> QED
    BY <2>2, <2>4
<1>3. \A j \in Inode : r[j] = Refs[j] + Bit(i = j) /\ Refs[j] \in Nat
  BY <1>1 DEF Counts, Plus, Bit
<1> HIDE DEF u, r, d
<1>4. r[d] > 0
  BY <1>1, <1>3 DEF Bit
<1>5. Keeps(inode, u, r)
  BY <1>2 DEF Keeps
<1>6. Sound(t, Ann, s) /\ Keeps(inode, t, s) /\ Keeps(u, t, s)
  BY <1>1, <1>2, <1>4, <1>5, PutHeld
<1>7. \A j \in Inode : s[j] = r[j] - Bit(d = j)
  BY <1>1, <1>2 DEF Sound, Counts, Minus, Bit
<1> HIDE DEF t, s
<1>8. s[i] > 0
  BY <1>1, <1>3, <1>7 DEF Bit
<1>9. t[i].type = inode[i].type
  <2>1. CASE inode[i].type # "free"
    BY <1>6, <1>8, <2>1 DEF Keeps
  <2>2. CASE inode[i].type = "free"
    <3>1. CASE LastPut(u[d]) /\ i = d
      BY <2>2, <3>1 DEF t, Put, Freed, Free
    <3>2. CASE LastPut(u[d]) /\ i # d
      <4>1. u \in Table
        BY <1>2 DEF Sound, Shape
      <4>2. t[i] = u[i] \/ t[i] = [u[i] EXCEPT !.lost = TRUE]
        BY <3>2 DEF t, Put, Freed
      <4> QED
        BY <1>2, <4>1, <4>2 DEF Table, Record
    <3>3. CASE ~LastPut(u[d])
      <4>1. u \in Table
        BY <1>2 DEF Sound, Shape
      <4> QED
        BY <1>1, <1>2, <3>3, <4>1 DEF t, Put, Table, Record
    <3> QED
      BY <3>1, <3>2, <3>3
  <2> QED
    BY <2>1, <2>2
<1>10. Sound(Put(t, i), Ann, Minus(s, i)) /\ Keeps(inode, Put(t, i), Minus(s, i))
  BY <1>6, <1>8, PutHeld
<1>11. Taking(p, s, i)
  <2> SUFFICES ASSUME NEW j \in Inode
               PROVE  s[j] = Refs[j] - Bit(d = j) + Bit(i = j)
    BY DEF Taking, d
  <2>1. Bit(d = j) \in Nat /\ Bit(i = j) \in Nat
    BY DEF Bit
  <2> QED
    BY <1>3, <1>7, <2>1
<1>12. Dropped(p, Ann, Minus(s, i), Old(ctx[p]))
  <2> SUFFICES ASSUME NEW j \in Inode
               PROVE  /\ Minus(s, i)[j] = Refs[j] - Bit(d = j) - Bit(Old(ctx[p]) = j)
                                            + Bit(Old(ctx[p]) = j)
                      /\ Ann[j] = Ann[j] - Bit(Old(ctx[p]) = j) + Bit(Old(ctx[p]) = j)
    BY DEF Dropped, d
  <2>1. Minus(s, i)[j] = s[j] - Bit(i = j)
    BY <1>6 DEF Sound, Counts, Minus, Bit
  <2>2. /\ Bit(d = j) \in Nat /\ Bit(i = j) \in Nat /\ Bit(Old(ctx[p]) = j) \in Nat
        /\ Ann[j] \in Nat
    BY <1>1 DEF Bit, Counts
  <2> QED
    BY <1>3, <1>7, <2>1, <2>2
<1> QED
  BY <1>6, <1>8, <1>9, <1>10, <1>11, <1>12 DEF Taken, t, s, u, r, d

\* namex() goes on to the next name, or follows a link to its target.
LEMMA WalkOnStep == ASSUME IInv, NEW p \in Proc, WalkOn(p) PROVE IInv'
<1> DEFINE c == ctx[p]
           next == Lookup(inode, c.ip, Head(c.rest))
           t == Taken(inode, c.ip, next)
           s == Minus(Plus(Refs, next), c.ip)
           link == Follows(c) /\ inode[next].type = "symlink" /\ Tail(c.rest) # <<>>
<1>1. /\ c \in Call /\ Right(inode, c) /\ inode \in Table
      /\ c.at = "walk" /\ c.rest # <<>> /\ next # 0 /\ UNCHANGED <<cwd, ofile>>
  BY DEF WalkOn, At, IInv, Sound, Shape
<1>2. c.rest \in Seq(Component) /\ Head(c.rest) \in Component
      /\ Tail(c.rest) \in Seq(Component) /\ c.ip \in Inode
  BY <1>1 DEF Call, Right
<1>3. next \in Inode
  BY <1>1, <1>2, LookupType
<1>4. /\ Sound(t, Ann, s) /\ Keeps(inode, t, s) /\ Taking(p, s, next)
      /\ Sound(Put(t, next), Ann, Minus(s, next))
      /\ Keeps(inode, Put(t, next), Minus(s, next))
      /\ Dropped(p, Ann, Minus(s, next), Old(c))
  BY <1>1, <1>3, TakenSound
<1>5. \/ Panics("ilock: no type")
      \/ Panics("stack")
      \/ /\ inode' = t /\ ctx' = [ctx EXCEPT ![p].ip = next, ![p].rest = Tail(c.rest)]
         /\ UNCHANGED panic
      \/ /\ link
         /\ \E path \in Concatenated(p, inode[next].target, Tail(c.rest)) :
              Walk(p, Put(t, next), path, [c EXCEPT !.nest = @ + 1])
  BY DEF WalkOn
<1> HIDE DEF next, t, s
<1>6. CASE Panics("ilock: no type") \/ Panics("stack")
  <2>1. inode' = inode /\ ctx' = ctx /\ panic' # "unlink: nlink < 1"
    BY <1>6 DEF Panics
  <2> QED
    BY <1>1, <2>1, Unmoved
<1>7. CASE /\ inode' = t /\ ctx' = [ctx EXCEPT ![p].ip = next, ![p].rest = Tail(c.rest)]
           /\ UNCHANGED panic
  <2> DEFINE e == [c EXCEPT !.ip = next, !.rest = Tail(c.rest)]
  <2>1. /\ e \in Call /\ e.ip = next /\ e.at = c.at /\ e.stage = c.stage /\ e.call = c.call
        /\ e.old = c.old /\ Old(e) = Old(c)
    BY <1>1, <1>2, <1>3 DEF Call, Old
  <2>2. ctx' = [ctx EXCEPT ![p] = e]
    BY <1>7 DEF IInv
  <2> HIDE DEF e
  <2>3. Moves(p) /\ ctx'[p] = e
    BY <1>1, <2>1, <2>2 DEF IInv, Moves
  <2>4. Balance(p, Ann, s)
    <3> SUFFICES ASSUME NEW i \in Inode
                 PROVE  /\ s[i] = Refs[i] - Weight(ctx[p], cwd[p], ofile[p], i)
                                     + Weight(ctx'[p], cwd'[p], ofile'[p], i)
                        /\ Ann[i] = Ann[i] - Bit(Old(ctx[p]) = i) + Bit(Old(ctx'[p]) = i)
      BY DEF Balance
    <3>1. /\ Bit(cwd[p] = i) \in Nat /\ Bit(ofile[p] = i) \in Nat
          /\ Bit(c.ip = i) \in Nat /\ Bit(Old(c) = i) \in Nat /\ Bit(next = i) \in Nat
      BY DEF Bit
    <3>2. Refs[i] \in Nat /\ Ann[i] \in Nat
      BY Pointed
    <3>3. s[i] = Refs[i] - Bit(c.ip = i) + Bit(next = i)
      BY <1>4 DEF Taking
    <3>4. /\ ctx'[p].ip = next /\ Old(ctx'[p]) = Old(c)
          /\ cwd'[p] = cwd[p] /\ ofile'[p] = ofile[p]
      BY <1>1, <2>1, <2>3
    <3> QED
      BY <3>1, <3>2, <3>3, <3>4 DEF Weight
  <2>5. t[cwd[p]].type # "free" /\ (ofile[p] # 0 => t[ofile[p]].type # "free")
    BY <1>1, <1>4, <2>3, <2>4, OwnKept
  <2>6. Right(t, e)
    <3>1. c.stage = "new" => t[c.old].type \in {"file", "symlink"}
      <4> SUFFICES ASSUME c.stage = "new" PROVE t[c.old].type \in {"file", "symlink"}
        OBVIOUS
      <4>1. c.old \in Inode /\ Old(c) = c.old /\ inode[c.old].type \in {"file", "symlink"}
        BY <1>1 DEF Right, Call, Old
      <4>2. Refs[c.old] >= Bit(c.ip = c.old) + 1 /\ Refs[c.old] \in Nat
        BY <4>1, Pointed DEF Weight, Bit
      <4>3. s[c.old] > 0
        BY <1>4, <4>1, <4>2 DEF Taking, Bit
      <4> QED
        BY <1>4, <4>1, <4>3 DEF Keeps
    <3> QED
      BY <1>1, <1>3, <2>1, <3>1, Constants DEF Right, WantsParent
  <2>7. panic' # "unlink: nlink < 1" /\ cwd' = cwd /\ ofile' = ofile
    BY <1>1, <1>7 DEF IInv
  <2> QED
    BY <1>4, <1>7, <2>3, <2>4, <2>5, <2>6, <2>7, Step
<1>8. CASE /\ link
           /\ \E path \in Concatenated(p, inode[next].target, Tail(c.rest)) :
                Walk(p, Put(t, next), path, [c EXCEPT !.nest = @ + 1])
  <2>1. PICK path \in Concatenated(p, inode[next].target, Tail(c.rest)) :
          Walk(p, Put(t, next), path, [c EXCEPT !.nest = @ + 1])
    BY <1>8
  <2> DEFINE e == [c EXCEPT !.nest = @ + 1]
  <2>2. path \in Path
    <3>1. inode[next].target \in Path
      <4>1. inode[next].target \in Targets \cup {<<>>}
        BY <1>1, <1>3 DEF Table, Record
      <4> QED
        BY <4>1, PathsTyped
    <3>2. /\ inode[next].target \o Tail(c.rest) \in Path
          /\ <<"/">> \o Tail(c.rest) \in Path
      BY <1>2, <3>1, PathsTyped, SlashIsPath
    <3>3. \/ path = inode[next].target \o Tail(c.rest)
          \/ path = <<"/">> \o Tail(c.rest)
          \/ path \in Paths
      BY <2>1 DEF Concatenated
    <3> QED
      BY <3>2, <3>3, PathsTyped
  <2>3. Walk(p, Put(t, next), path, e)
    BY <2>1
  <2>4. e \in Call /\ e.call = c.call /\ e.stage = c.stage /\ Old(e) = Old(c)
    BY <1>1 DEF Call, Old
  <2> HIDE DEF e
  <2>5. /\ c.call \in {"open", "chmod"}
        /\ c.stage = "first"
    BY <1>8 DEF Follows
  <2>6. /\ e.call = "link" => e.stage \in {"old", "new"}
        /\ e.call = "symlink" <=> e.stage \in {"exists", "create"}
        /\ e.stage = "new" => /\ e.call = "link" /\ e.old # 0
                              /\ Put(t, next)[e.old].type \in {"file", "symlink"}
    BY <2>4, <2>5
  <2>7. Dropped(p, Ann, Minus(s, next), Old(e))
    BY <1>4, <2>4
  <2> QED
    BY <1>1, <1>4, <2>2, <2>3, <2>4, <2>6, <2>7, WalkStep
<1> QED
  BY <1>5, <1>6, <1>7, <1>8

-----------------------------------------------------------------------------
(* The actions on the inode that namex() has found *)

\* The call puts the inode and returns.
LEMMA PutReturns ==
  ASSUME IInv, NEW p \in Proc, ctx[p].at \in {"walk", "found", "parent"},
         Old(ctx[p]) = 0, Returns(p, Put(inode, ctx[p].ip)), UNCHANGED <<cwd, ofile>>
  PROVE  IInv'
<1>1. /\ Sound(Put(inode, ctx[p].ip), Ann, Minus(Refs, ctx[p].ip))
      /\ Keeps(inode, Put(inode, ctx[p].ip), Minus(Refs, ctx[p].ip))
      /\ Dropped(p, Ann, Minus(Refs, ctx[p].ip), 0)
  BY IpPut
<1> QED
  BY <1>1, ReturnsStep

\* The call returns with i open.
LEMMA OpensStep ==
  ASSUME IInv, NEW p \in Proc, NEW t, NEW s, NEW i \in Inode,
         Returns(p, t), UNCHANGED cwd, ofile[p] = 0, ofile' = [ofile EXCEPT ![p] = i],
         Sound(t, Ann, s), Keeps(inode, t, s), Taking(p, s, i), Old(ctx[p]) = 0,
         t[i].type # "free"
  PROVE  IInv'
<1>1. inode' = t /\ ctx' = [ctx EXCEPT ![p] = Idle] /\ panic' = panic
  BY DEF Returns
<1>2. Moves(p) /\ ctx'[p] = Idle /\ ofile'[p] = i /\ cwd'[p] = cwd[p]
  BY <1>1, IdleIsRight DEF IInv, Moves
<1>3. ASSUME NEW j \in Inode
      PROVE  /\ s[j] = Refs[j] - Weight(ctx[p], cwd[p], ofile[p], j)
                           + Weight(ctx'[p], cwd'[p], ofile'[p], j)
             /\ Ann[j] = Ann[j] - Bit(Old(ctx[p]) = j) + Bit(Old(ctx'[p]) = j)
  <2>1. Bit(0 = j) = 0
    BY Constants DEF Bit
  <2>2. /\ Bit(cwd[p] = j) \in Nat /\ Bit(i = j) \in Nat /\ Bit(ctx[p].ip = j) \in Nat
    BY DEF Bit
  <2>3. Refs[j] \in Nat /\ Ann[j] \in Nat
    BY Pointed
  <2>4. s[j] = Refs[j] - Bit(ctx[p].ip = j) + Bit(i = j)
    BY DEF Taking
  <2>5. Weight(ctx[p], cwd[p], ofile[p], j) = Bit(cwd[p] = j) + Bit(ctx[p].ip = j)
    BY <2>1, <2>2 DEF Weight
  <2>6. Weight(ctx'[p], cwd'[p], ofile'[p], j) = Bit(cwd[p] = j) + Bit(i = j)
    BY <1>2, <2>1, <2>2, IdleIsRight DEF Weight
  <2>7. Old(ctx'[p]) = 0
    BY <1>2, IdleIsRight
  <2> QED
    BY <2>1, <2>2, <2>3, <2>4, <2>5, <2>6, <2>7
<1>4. Balance(p, Ann, s)
  BY <1>3 DEF Balance
<1>5. t[cwd[p]].type # "free"
  <2>1. cwd[p] \in Inode /\ inode[cwd[p]].type # "free"
    BY DEF IInv
  <2>2. Refs'[cwd[p]] = s[cwd[p]]
    BY <1>2, <1>3, <2>1, RefsMoved
  <2>3. Refs'[cwd[p]] > 0
    BY <1>2, <2>1, RefsMoved
  <2> QED
    BY <2>1, <2>2, <2>3 DEF Keeps
<1>6. /\ Sound(inode', Ann, s) /\ Keeps(inode, inode', s)
      /\ Right(inode', ctx'[p]) /\ inode'[cwd'[p]].type # "free"
      /\ ofile'[p] # 0 => inode'[ofile'[p]].type # "free"
      /\ panic' # "unlink: nlink < 1"
  BY <1>1, <1>2, <1>5, IdleIsRight DEF IInv
<1> QED
  BY <1>2, <1>4, <1>6, Step

LEMMA OpenStep == ASSUME IInv, NEW p \in Proc, sys_open(p) PROVE IInv'
<1> DEFINE i == ctx[p].ip
<1>1. /\ ctx[p].at = "found" /\ Old(ctx[p]) = 0 /\ i \in Inode
      /\ inode[i].type # "free" /\ UNCHANGED cwd
  <2>1. ctx[p].at = "found" /\ inode[i].type # "free" /\ UNCHANGED cwd
    BY DEF sys_open, Found, At, Type, Locked
  <2>2. Right(inode, ctx[p])
    BY DEF IInv
  <2> QED
    BY <2>1, <2>2, IpPut DEF Right, Old, WantsParent
<1>2. \/ UNCHANGED ofile /\ Returns(p, Put(inode, i))
      \/ ofile[p] = 0 /\ ofile' = [ofile EXCEPT ![p] = i] /\ Returns(p, inode)
  BY DEF sys_open, OpenFile
<1>3. CASE UNCHANGED ofile /\ Returns(p, Put(inode, i))
  BY <1>1, <1>3, PutReturns
<1>4. CASE ofile[p] = 0 /\ ofile' = [ofile EXCEPT ![p] = i] /\ Returns(p, inode)
  <2>1. Sound(inode, Ann, Refs) /\ Keeps(inode, inode, Refs)
    BY DEF IInv, Keeps
  <2>2. Taking(p, Refs, i)
    <3> SUFFICES ASSUME NEW j \in Inode
                 PROVE  Refs[j] = Refs[j] - Bit(i = j) + Bit(i = j)
      BY DEF Taking
    <3>1. Refs[j] \in Nat /\ Bit(i = j) \in Nat
      BY Pointed DEF Bit
    <3> QED
      BY <3>1
  <2> QED
    BY <1>1, <1>4, <2>1, <2>2, OpensStep
<1> QED
  BY <1>2, <1>3, <1>4

LEMMA FollowLinkStep == ASSUME IInv, NEW p \in Proc, FollowLink(p) PROVE IInv'
<1> DEFINE c == ctx[p]
           t == Put(inode, c.ip)
           s == Minus(Refs, c.ip)
           e == [c EXCEPT !.stage = "target", !.depth = @ + 1, !.old = c.ip, !.ip = 0,
                          !.nest = 0]
<1>1. /\ c.at = "found" /\ c.call \in {"open", "chmod", "readlink"}
      /\ UNCHANGED <<cwd, ofile>>
      /\ \/ Returns(p, t) \/ Panics("iunlock") \/ Walk(p, t, Locked(p).target, e)
  BY DEF FollowLink, At
<1>2. /\ c \in Call /\ c.ip \in Inode /\ inode \in Table /\ Old(c) = 0
  <2>1. Right(inode, c) /\ inode \in Table
    BY DEF IInv, Sound, Shape
  <2> QED
    BY <1>1, <2>1, IpPut DEF Right, Old, WantsParent
<1>3. Sound(t, Ann, s) /\ Keeps(inode, t, s) /\ Dropped(p, Ann, s, 0)
  BY <1>1, <1>2, IpPut
<1> HIDE DEF t, s
<1>4. CASE Returns(p, t)
  BY <1>1, <1>3, <1>4, ReturnsStep
<1>5. CASE Panics("iunlock")
  <2>1. inode' = inode /\ ctx' = ctx /\ panic' # "unlink: nlink < 1"
    BY <1>5 DEF Panics
  <2> QED
    BY <1>1, <2>1, Unmoved
<1>6. CASE Walk(p, t, Locked(p).target, e)
  <2>1. Locked(p).target \in Path
    <3>1. Locked(p).target \in Targets \cup {<<>>}
      BY <1>2 DEF Locked, Table, Record
    <3> QED
      BY <3>1, PathsTyped
  <2>2. /\ e \in Call /\ e.stage = "target" /\ e.call = c.call /\ Old(e) = 0
    <3> DEFINE b == [[c EXCEPT !.depth = @ + 1] EXCEPT !.stage = "target"]
    <3>1. b \in Call /\ b.stage = "target" /\ b.call = c.call
      <4> DEFINE f == [c EXCEPT !.depth = @ + 1]
      <4>1. f \in Call /\ f.call = c.call
        BY <1>2 DEF Call
      <4> HIDE DEF f
      <4>2. [f EXCEPT !.stage = "target"] \in Call
        BY <4>1 DEF Call
      <4> QED
        BY <4>1, <4>2 DEF Call, f
    <3>2. e = [b EXCEPT !.old = c.ip, !.ip = 0, !.nest = 0]
      BY <1>2 DEF Call
    <3> HIDE DEF b, e
    <3>3. e \in Call /\ e.stage = b.stage /\ e.call = b.call
      BY <1>2, <3>1, <3>2 DEF Call
    <3> QED
      BY <3>1, <3>3 DEF Old
  <2>3. Walk(p, t, Locked(p).target, e)
    BY <1>6
  <2> HIDE DEF e
  <2>4. /\ e.call = "link" => e.stage \in {"old", "new"}
        /\ e.call = "symlink" <=> e.stage \in {"exists", "create"}
        /\ e.stage = "new" => /\ e.call = "link" /\ e.old # 0
                              /\ t[e.old].type \in {"file", "symlink"}
    BY <1>1, <2>2
  <2>5. Dropped(p, Ann, s, Old(e))
    BY <1>3, <2>2
  <2> QED
    BY <1>1, <1>3, <2>1, <2>2, <2>3, <2>4, <2>5, WalkStep
<1> QED
  BY <1>1, <1>4, <1>5, <1>6

LEMMA ChmodStep == ASSUME IInv, NEW p \in Proc, sys_chmod(p) PROVE IInv'
<1> DEFINE i == ctx[p].ip
<1>1. /\ ctx[p].at = "found" /\ Old(ctx[p]) = 0 /\ i \in Inode /\ UNCHANGED <<cwd, ofile>>
  <2>1. ctx[p].at = "found" /\ UNCHANGED <<cwd, ofile>>
    BY DEF sys_chmod, Found, At
  <2>2. Right(inode, ctx[p])
    BY DEF IInv
  <2> QED
    BY <2>1, <2>2, IpPut DEF Right, Old, WantsParent
<1>2. PICK set \in BOOLEAN, recursive \in BOOLEAN :
        LET refused == ctx[p].stage = "target" /\ recursive /\ Type(p) = "dir"
                         /\ ~Locked(p).readable
            changed == IF recursive THEN Below(inode, i) ELSE {i}
        IN Returns(p, Put(IF refused THEN inode
                          ELSE [j \in Inode |-> IF j \in changed
                                  THEN [inode[j] EXCEPT !.readable = set] ELSE inode[j]], i))
  BY DEF sys_chmod
<1> DEFINE changed == IF recursive THEN Below(inode, i) ELSE {i}
           u == Changed(inode, changed, set)
<1>3. Returns(p, Put(inode, i)) \/ Returns(p, Put(u, i))
  BY <1>2 DEF Changed
<1>4. CASE Returns(p, Put(inode, i))
  BY <1>1, <1>4, PutReturns
<1>5. CASE Returns(p, Put(u, i))
  <2>1. Sound(inode, Ann, Refs)
    BY DEF IInv
  <2> HIDE DEF changed
  <2>2. Sound(u, Ann, Refs)
    BY <2>1, ChangedSound
  <2>3. \A j \in Inode : u[j].type = inode[j].type
    BY <2>1, ChangedSound
  <2> HIDE DEF u
  <2>4. Keeps(inode, u, Refs) /\ Refs[i] > 0
    BY <1>1, <2>3, Pointed DEF Keeps
  <2>5. Sound(Put(u, i), Ann, Minus(Refs, i)) /\ Keeps(inode, Put(u, i), Minus(Refs, i))
    BY <1>1, <2>2, <2>4, PutHeld
  <2>6. Dropped(p, Ann, Minus(Refs, i), 0)
    BY <1>1, IpPut
  <2> QED
    BY <1>1, <1>5, <2>5, <2>6, ReturnsStep
<1> QED
  BY <1>3, <1>4, <1>5

LEMMA ReadlinkStep == ASSUME IInv, NEW p \in Proc, sys_readlink(p) PROVE IInv'
<1> DEFINE c == ctx[p]
           t == Put(inode, c.ip)
           s == Minus(Refs, c.ip)
           e == [c EXCEPT !.at = "last", !.ip = 0]
<1>1. /\ c.at = "found" /\ UNCHANGED <<cwd, ofile>> /\ c.call = "readlink"
      /\ \/ Returns(p, t)
         \/ inode' = t /\ ctx' = [ctx EXCEPT ![p] = e] /\ UNCHANGED panic
  BY DEF sys_readlink, Found, At
<1>2. /\ c \in Call /\ c.ip \in Inode /\ Right(inode, c) /\ c.stage # "new" /\ Old(c) = 0
  <2>1. Right(inode, c)
    BY DEF IInv
  <2> QED
    BY <1>1, <2>1, IpPut DEF Right, Old, WantsParent
<1>3. Sound(t, Ann, s) /\ Keeps(inode, t, s) /\ Dropped(p, Ann, s, 0)
  BY <1>1, <1>2, IpPut
<1> HIDE DEF t, s
<1>4. CASE Returns(p, t)
  BY <1>1, <1>3, <1>4, ReturnsStep
<1>5. CASE inode' = t /\ ctx' = [ctx EXCEPT ![p] = e] /\ UNCHANGED panic
  <2>1. /\ e \in Call /\ e.ip = 0 /\ e.at = "last" /\ e.stage = c.stage /\ e.call = c.call
        /\ Old(e) = 0
    BY <1>2 DEF Call, Old
  <2>2. ctx' = [ctx EXCEPT ![p] = e]
    BY <1>5
  <2> HIDE DEF e
  <2>3. Right(t, e)
    BY <1>1, <1>2, <2>1 DEF Right
  <2> QED
    BY <1>1, <1>3, <1>5, <2>1, <2>2, <2>3, LetGo
<1> QED
  BY <1>1, <1>4, <1>5

LEMMA ReadLastStep == ASSUME IInv, NEW p \in Proc, ReadLast(p) PROVE IInv'
<1>1. /\ ctx[p].at = "last" /\ UNCHANGED <<cwd, ofile>>
      /\ Returns(p, inode) \/ Panics("iunlock")
  BY DEF ReadLast, At
<1>2. CASE Returns(p, inode)
  <2>1. ctx[p].ip = 0 /\ Old(ctx[p]) = 0
    BY <1>1 DEF IInv, Right, Old
  <2>2. Sound(inode, Ann, Refs) /\ Keeps(inode, inode, Refs)
    BY DEF IInv, Keeps
  <2>3. Dropped(p, Ann, Refs, 0)
    <3> SUFFICES ASSUME NEW i \in Inode
                 PROVE  /\ Refs[i] = Refs[i] - Bit(0 = i) - Bit(0 = i) + Bit(0 = i)
                        /\ Ann[i] = Ann[i] - Bit(0 = i) + Bit(0 = i)
      BY <2>1 DEF Dropped
    <3>1. Bit(0 = i) = 0
      BY Constants DEF Bit
    <3> QED
      BY <3>1, Pointed
  <2> QED
    BY <1>1, <1>2, <2>2, <2>3, ReturnsStep
<1>3. CASE Panics("iunlock")
  <2>1. inode' = inode /\ ctx' = ctx /\ panic' # "unlink: nlink < 1"
    BY <1>3 DEF Panics
  <2> QED
    BY <1>1, <2>1, Unmoved
<1> QED
  BY <1>1, <1>2, <1>3

LEMMA ChdirStep == ASSUME IInv, NEW p \in Proc, sys_chdir(p) PROVE IInv'
<1> DEFINE i == ctx[p].ip
           t == Put(inode, cwd[p])
           s == Minus(Refs, cwd[p])
<1>1. /\ ctx[p].at = "found" /\ UNCHANGED ofile /\ inode[i].type # "free"
      /\ \/ cwd' = [cwd EXCEPT ![p] = i] /\ Returns(p, t)
         \/ UNCHANGED cwd /\ Returns(p, Put(inode, i))
  BY DEF sys_chdir, Found, At, Type, Locked
<1>2. Old(ctx[p]) = 0 /\ i \in Inode /\ cwd[p] \in Inode
  <2>1. Right(inode, ctx[p]) /\ cwd[p] \in Inode
    BY DEF IInv
  <2> QED
    BY <1>1, <2>1, IpPut DEF Right, Old, WantsParent
<1>3. CASE UNCHANGED cwd /\ Returns(p, Put(inode, i))
  BY <1>1, <1>2, <1>3, PutReturns
<1>4. CASE cwd' = [cwd EXCEPT ![p] = i] /\ Returns(p, t)
  <2>1. Sound(inode, Ann, Refs) /\ Keeps(inode, inode, Refs)
    BY DEF IInv, Keeps
  <2>2. Refs[cwd[p]] > 0
    BY <1>2, Pointed
  <2>3. Sound(t, Ann, s) /\ Keeps(inode, t, s)
    BY <1>2, <2>1, <2>2, PutHeld
  <2>4. \A j \in Inode : s[j] = Refs[j] - Bit(cwd[p] = j)
    BY <1>2, <2>1 DEF Sound, Counts, Minus, Bit
  <2> HIDE DEF s, t
  <2>5. inode' = t /\ ctx' = [ctx EXCEPT ![p] = Idle] /\ panic' = panic
    BY <1>4 DEF Returns
  <2>6. Moves(p) /\ ctx'[p] = Idle /\ ofile'[p] = ofile[p] /\ cwd'[p] = i
    BY <1>1, <1>2, <1>4, <2>5, IdleIsRight DEF IInv, Moves
  <2>7. ASSUME NEW j \in Inode
        PROVE  /\ s[j] = Refs[j] - Weight(ctx[p], cwd[p], ofile[p], j)
                             + Weight(ctx'[p], cwd'[p], ofile'[p], j)
               /\ Ann[j] = Ann[j] - Bit(Old(ctx[p]) = j) + Bit(Old(ctx'[p]) = j)
    <3>1. Bit(0 = j) = 0
      BY Constants DEF Bit
    <3>2. /\ Bit(cwd[p] = j) \in Nat /\ Bit(i = j) \in Nat /\ Bit(ofile[p] = j) \in Nat
      BY DEF Bit
    <3>3. Refs[j] \in Nat /\ Ann[j] \in Nat
      BY Pointed
    <3>4. s[j] = Refs[j] - Bit(cwd[p] = j)
      BY <2>4
    <3>5. Weight(ctx[p], cwd[p], ofile[p], j)
            = Bit(cwd[p] = j) + Bit(ofile[p] = j) + Bit(i = j)
      BY <1>2, <3>1, <3>2 DEF Weight
    <3>6. Weight(ctx'[p], cwd'[p], ofile'[p], j) = Bit(i = j) + Bit(ofile[p] = j)
      BY <2>6, <3>1, <3>2, IdleIsRight DEF Weight
    <3>7. Old(ctx'[p]) = 0
      BY <2>6, IdleIsRight
    <3>8. s[j] = Refs[j] - Weight(ctx[p], cwd[p], ofile[p], j)
                   + Weight(ctx'[p], cwd'[p], ofile'[p], j)
      <4> HIDE DEF i
      <4> QED
        BY <3>2, <3>3, <3>4, <3>5, <3>6
    <3> QED
      BY <1>2, <3>1, <3>3, <3>7, <3>8
  <2>8. Balance(p, Ann, s)
    BY <2>7 DEF Balance
  <2>9. s[i] > 0 /\ (ofile[p] # 0 => s[ofile[p]] > 0)
    <3>1. \A j \in Inode : /\ Refs[j] >= Weight(ctx[p], cwd[p], ofile[p], j)
                           /\ Refs[j] \in Nat
      BY Pointed
    <3>2. \A j \in Inode : j \in {i, ofile[p]} => s[j] > 0
      BY <2>4, <3>1 DEF Weight, Bit
    <3>3. ofile[p] \in Inode \cup {0}
      BY DEF IInv
    <3> QED
      BY <1>2, <3>2, <3>3
  <2>10. t[i].type # "free" /\ (ofile[p] # 0 => t[ofile[p]].type # "free")
    <3>1. ofile[p] \in Inode \cup {0} /\ (ofile[p] # 0 => inode[ofile[p]].type # "free")
      BY DEF IInv
    <3> QED
      BY <1>1, <1>2, <2>3, <2>9, <3>1 DEF Keeps
  <2>11. /\ Sound(inode', Ann, s) /\ Keeps(inode, inode', s)
         /\ Right(inode', ctx'[p]) /\ inode'[cwd'[p]].type # "free"
         /\ ofile'[p] # 0 => inode'[ofile'[p]].type # "free"
         /\ panic' # "unlink: nlink < 1"
    BY <2>3, <2>5, <2>6, <2>10, IdleIsRight DEF IInv
  <2> QED
    BY <2>6, <2>8, <2>11, Step
<1> QED
  BY <1>1, <1>3, <1>4

LEMMA LinkOldStep == ASSUME IInv, NEW p \in Proc, LinkOld(p) PROVE IInv'
<1> DEFINE i == ctx[p].ip
           c == [ctx[p] EXCEPT !.stage = "new", !.old = i]
           t == Raised(inode, i)
           a == Plus(Ann, i)
<1>1. /\ ctx[p].at = "found" /\ ctx[p].call = "link" /\ UNCHANGED <<cwd, ofile>>
      /\ inode[i].type # "free"
      /\ \/ Returns(p, Put(inode, i))
         \/ inode[i].type # "dir" /\ \E path \in Paths : Walk(p, t, path, c)
  BY DEF LinkOld, Found, At, Type, Locked, Linkable
<1>2. Old(ctx[p]) = 0 /\ i \in Inode /\ ctx[p] \in Call
  <2>1. Right(inode, ctx[p])
    BY DEF IInv
  <2> QED
    BY <1>1, <2>1, IpPut DEF Right, Old, WantsParent
<1>3. CASE Returns(p, Put(inode, i))
  BY <1>1, <1>2, <1>3, PutReturns
<1>4. CASE inode[i].type # "dir" /\ \E path \in Paths : Walk(p, t, path, c)
  <2>1. PICK path \in Paths : Walk(p, t, path, c)
    BY <1>4
  <2>2. Sound(inode, Ann, Refs) /\ Refs[i] > 0 /\ Ann \in Counts /\ inode \in Table
    BY <1>2, Pointed DEF IInv, Sound, Shape
  <2>3. Sound(t, a, Refs) /\ \A j \in Inode : t[j].type = inode[j].type
    BY <1>1, <1>2, <2>2, RaisedSound
  <2>4. \A j \in Inode : a[j] = Ann[j] + Bit(i = j)
    BY <1>2, <2>2 DEF Counts, Plus, Bit
  <2> HIDE DEF t, a
  <2>5. Keeps(inode, t, Refs)
    BY <2>3 DEF Keeps
  <2>6. /\ c \in Call /\ c.stage = "new" /\ c.call = "link" /\ c.old = i /\ Old(c) = i
    BY <1>1, <1>2 DEF Call, Old
  <2> HIDE DEF c
  <2>7. Dropped(p, a, Refs, Old(c))
    <3> SUFFICES ASSUME NEW j \in Inode
                 PROVE  /\ Refs[j] = Refs[j] - Bit(i = j) - Bit(0 = j) + Bit(i = j)
                        /\ a[j] = Ann[j] - Bit(0 = j) + Bit(i = j)
      BY <1>2, <2>6 DEF Dropped
    <3>1. Bit(0 = j) = 0
      BY Constants DEF Bit
    <3>2. Refs[j] \in Nat /\ Ann[j] \in Nat /\ Bit(i = j) \in Nat
      BY Pointed DEF Bit
    <3> QED
      BY <2>4, <3>1, <3>2
  <2>8. t[i].type \in {"file", "symlink"}
    <3>1. inode[i].type \in {"free", "file", "dir", "symlink"}
      BY <1>2, <2>2 DEF Table, Record
    <3> QED
      BY <1>1, <1>2, <1>4, <2>3, <3>1
  <2>9. /\ c.call = "link" => c.stage \in {"old", "new"}
        /\ c.call = "symlink" <=> c.stage \in {"exists", "create"}
        /\ c.stage = "new" => /\ c.call = "link" /\ c.old # 0
                              /\ t[c.old].type \in {"file", "symlink"}
    BY <1>2, <2>6, <2>8, Constants
  <2>10. path \in Path
    BY PathsTyped
  <2> QED
    BY <1>1, <2>1, <2>3, <2>5, <2>6, <2>7, <2>9, <2>10, WalkStep
<1> QED
  BY <1>1, <1>3, <1>4

LEMMA SymlinkExistsStep == ASSUME IInv, NEW p \in Proc, SymlinkExists(p) PROVE IInv'
<1> DEFINE i == ctx[p].ip
           t == [inode EXCEPT ![i].leaked = @ + 1]
<1>1. ctx[p].at = "found" /\ UNCHANGED <<cwd, ofile>> /\ Returns(p, t)
  BY DEF SymlinkExists, Found, At
<1>2. Old(ctx[p]) = 0 /\ i \in Inode
  <2>1. Right(inode, ctx[p])
    BY DEF IInv
  <2> QED
    BY <1>1, <2>1, IpPut DEF Right, Old, WantsParent
<1>3. Sound(inode, Ann, Refs) /\ Refs[i] > 0
  BY <1>2, Pointed DEF IInv
<1>4. Sound(t, Ann, Minus(Refs, i)) /\ \A j \in Inode : t[j].type = inode[j].type
  BY <1>2, <1>3, LeakedSound
<1> HIDE DEF t
<1>5. Keeps(inode, t, Minus(Refs, i))
  BY <1>4 DEF Keeps
<1>6. Dropped(p, Ann, Minus(Refs, i), 0)
  BY <1>1, <1>2, IpPut
<1> QED
  BY <1>1, <1>4, <1>5, <1>6, ReturnsStep

-----------------------------------------------------------------------------
(* The actions in the directory that nameiparent() has found *)

LEMMA ParentHas ==
  ASSUME IInv, NEW p \in Proc, ctx[p].at = "parent"
  PROVE  /\ ctx[p].ip \in Inode /\ inode[ctx[p].ip].type = "dir" /\ inode \in Table
         /\ LastName(p) \in Component /\ Entry(p) \in Inode \cup {0}
         /\ LastName(p) \in Name => Entry(p) = inode[ctx[p].ip].names[LastName(p)]
         /\ Entry(p) = 0 => LastName(p) \in Name
         /\ ctx[p].call # "link" => Old(ctx[p]) = 0
         /\ Refs[ctx[p].ip] > 0
<1> DEFINE c == ctx[p]
           d == c.ip
<1>1. /\ c \in Call /\ Right(inode, c) /\ inode \in Table /\ Shape(inode)
  BY DEF IInv, Sound, Shape
<1>2. d \in Inode /\ inode[d].type = "dir" /\ c.rest \in Seq(Component) /\ Len(c.rest) = 1
  BY <1>1 DEF Right, Call
<1>3. LastName(p) \in Component
  BY <1>2 DEF LastName
<1>4. Entry(p) \in Inode \cup {0}
  BY <1>1, <1>2, <1>3, LookupType DEF Entry
<1>5. LastName(p) \in Name => Entry(p) = inode[d].names[LastName(p)]
  <2>1. Name \cap {"/", ".", ".."} = {}
    BY FileTreeAssumption
  <2> QED
    BY <2>1 DEF Entry, Lookup
<1>6. Entry(p) = 0 => LastName(p) \in Name
  <2>1. inode[d].up # 0 /\ d # 0
    BY <1>1, <1>2, Constants DEF Shape
  <2>2. LastName(p) = "." => Entry(p) = d
    BY DEF Entry, Lookup
  <2>3. LastName(p) = ".." => Entry(p) = inode[d].up
    BY DEF Entry, Lookup
  <2> QED
    BY <1>3, <2>1, <2>2, <2>3 DEF Component
<1>7. c.call # "link" => Old(c) = 0
  BY <1>1 DEF Right, Old
<1>8. Refs[d] > 0
  BY <1>2, Pointed
<1> QED
  BY <1>1, <1>2, <1>3, <1>4, <1>5, <1>6, <1>7, <1>8

LEMMA LinkNewStep == ASSUME IInv, NEW p \in Proc, LinkNew(p) PROVE IInv'
<1> DEFINE c == ctx[p]
           d == c.ip
           n == LastName(p)
           o == c.old
<1>1. /\ c.at = "parent" /\ c.call = "link" /\ UNCHANGED <<cwd, ofile>>
      /\ IF Entry(p) # 0
         THEN Returns(p, Put(Undone(Put(inode, d), o), o))
         ELSE Returns(p, Put(Put(Linked(inode, d, n, o), d), o))
  BY DEF LinkNew, Parent, At
<1>2. /\ c.stage = "new" /\ o \in Inode /\ Old(c) = o /\ inode[o].type \in {"file", "symlink"}
  <2>1. Right(inode, c) /\ c \in Call
    BY DEF IInv
  <2>2. c.stage = "new"
    BY <1>1, <2>1 DEF Right, WantsParent
  <2> QED
    BY <2>1, <2>2 DEF Right, Call, Old
<1>3. CASE Entry(p) # 0
  BY <1>1, <1>2, <1>3, UndoneStep
<1>4. CASE Entry(p) = 0
  <2> DEFINE u == Linked(inode, d, n, o)
             a == Minus(Ann, o)
             s == Minus(Refs, d)
  <2>1. d \in Inode /\ inode[d].type = "dir" /\ n \in Name /\ inode[d].names[n] = 0
        /\ Refs[d] > 0
    BY <1>1, <1>4, ParentHas
  <2>2. Sound(inode, Ann, Refs)
    BY DEF IInv
  <2>3. /\ Refs[o] >= Bit(d = o) + 1 /\ Ann[o] >= 1
        /\ Refs[o] \in Nat /\ Ann[o] \in Nat
    BY <1>2, Pointed DEF Weight, Bit
  <2> HIDE DEF n
  <2>4. Sound(u, a, Refs) /\ \A j \in Inode : u[j].type = inode[j].type
    BY <1>2, <2>1, <2>2, <2>3, LinkedSound
  <2>5. \A j \in Inode : a[j] = Ann[j] - Bit(o = j)
    BY <1>2, <2>2 DEF Sound, Counts, Minus, Bit
  <2>6. \A j \in Inode : s[j] = Refs[j] - Bit(d = j)
    BY <2>1, <2>2 DEF Sound, Counts, Minus, Bit
  <2> HIDE DEF u, a
  <2>7. Keeps(inode, u, Refs)
    BY <2>4 DEF Keeps
  <2>8. Sound(Put(u, d), a, s) /\ Keeps(inode, Put(u, d), s)
    BY <2>1, <2>4, <2>7, PutHeld
  <2> HIDE DEF s
  <2>9. s[o] > 0
    BY <1>2, <2>3, <2>6 DEF Bit
  <2>10. /\ Sound(Put(Put(u, d), o), a, Minus(s, o))
         /\ Keeps(inode, Put(Put(u, d), o), Minus(s, o))
    BY <1>2, <2>8, <2>9, PutHeld
  <2>11. \A j \in Inode : Minus(s, o)[j] = s[j] - Bit(o = j)
    BY <1>2, <2>8 DEF Sound, Counts, Minus, Bit
  <2>12. Dropped(p, a, Minus(s, o), 0)
    <3> SUFFICES ASSUME NEW j \in Inode
                 PROVE  /\ Minus(s, o)[j] = Refs[j] - Bit(d = j) - Bit(o = j) + Bit(0 = j)
                        /\ a[j] = Ann[j] - Bit(o = j) + Bit(0 = j)
      BY <1>2 DEF Dropped
    <3>1. Bit(0 = j) = 0
      BY Constants DEF Bit
    <3>2. /\ Refs[j] \in Nat /\ Ann[j] \in Nat /\ Bit(d = j) \in Nat /\ Bit(o = j) \in Nat
      BY Pointed DEF Bit
    <3> QED
      BY <2>5, <2>6, <2>11, <3>1, <3>2
  <2>13. Returns(p, Put(Put(u, d), o))
    BY <1>1, <1>4 DEF u, n
  <2> QED
    BY <1>1, <2>10, <2>12, <2>13, ReturnsStep
<1> QED
  BY <1>3, <1>4

LEMMA UnlinkStep == ASSUME IInv, NEW p \in Proc, sys_unlink(p) PROVE IInv'
<1> DEFINE d == ctx[p].ip
           n == LastName(p)
           i == Entry(p)
           t == Unlinked(Linked(inode, d, n, 0), d, i)
           u == Get(t, i)
           s == Minus(Plus(Refs, i), d)
<1>1. /\ ctx[p].at = "parent" /\ ctx[p].call = "unlink" /\ UNCHANGED <<cwd, ofile>>
      /\ \/ Returns(p, Put(inode, d))
         \/ n \in Name /\ i # 0 /\ inode[i].nlink < 1
         \/ n \in Name /\ i # 0 /\ Returns(p, Put(Put(u, d), i))
  BY DEF sys_unlink, Parent, At
<1>2. /\ d \in Inode /\ inode[d].type = "dir" /\ i \in Inode \cup {0}
      /\ n \in Name => inode[d].names[n] = i
      /\ Old(ctx[p]) = 0 /\ Refs[d] > 0
  BY <1>1, ParentHas
<1>3. Sound(inode, Ann, Refs)
  BY DEF IInv
<1>4. CASE Returns(p, Put(inode, d))
  BY <1>1, <1>2, <1>4, PutReturns
<1> HIDE DEF n, i
\* unlink() never finds a count of 0.
<1>5. ~(n \in Name /\ i # 0 /\ inode[i].nlink < 1)
  <2> SUFFICES ASSUME n \in Name, i # 0 PROVE ~(inode[i].nlink < 1)
    OBVIOUS
  <2>1. i \in Inode /\ inode[d].names[n] = i
    BY <1>2
  <2>2. inode[i].type # "free"
    <3>1. Shape(inode) /\ i # 0
      BY <1>3, <2>1, Constants DEF Sound
    <3> QED
      BY <1>2, <2>1, <3>1 DEF Shape
  <2>3. inode[i].nlink >= Claims(inode, i) + Ann[i]
    BY <1>3, <2>1, <2>2 DEF Sound, Links
  <2>4. Cardinality(NamesIn(inode, i)) >= 1
    BY <1>2, <2>1, NamedClaims
  <2>5. Claims(inode, i) >= 1
    BY <2>4, ClaimsNat DEF Claims, Bit
  <2>6. inode[i].nlink \in Nat /\ Ann[i] \in Nat /\ Claims(inode, i) \in Nat
    BY <1>3, <2>1, ClaimsNat DEF Sound, Shape, Table, Record, Counts
  <2> QED
    BY <2>3, <2>5, <2>6
<1>6. CASE n \in Name /\ i # 0 /\ Returns(p, Put(Put(u, d), i))
  <2>1. i \in Inode /\ inode[d].names[n] = i /\ n \in Name
    BY <1>2, <1>6
  <2>2. Sound(u, Ann, Plus(Refs, i)) /\ \A j \in Inode : u[j].type = inode[j].type
    BY <1>2, <1>3, <2>1, UnlinkedSound
  <2>3. \A j \in Inode : Plus(Refs, i)[j] = Refs[j] + Bit(i = j) /\ Refs[j] \in Nat
    BY <1>3, <2>1 DEF Sound, Counts, Plus, Bit
  <2> HIDE DEF u, d
  <2>4. Keeps(inode, u, Plus(Refs, i)) /\ Plus(Refs, i)[d] > 0
    BY <1>2, <2>2, <2>3 DEF Keeps, Bit
  <2>5. Sound(Put(u, d), Ann, s) /\ Keeps(inode, Put(u, d), s)
    BY <1>2, <2>2, <2>4, PutHeld
  <2>6. \A j \in Inode : s[j] = Refs[j] + Bit(i = j) - Bit(d = j)
    BY <1>2, <2>2, <2>3 DEF Sound, Counts, Minus, Bit
  <2> HIDE DEF s
  <2>7. s[i] > 0
    BY <1>2, <2>1, <2>3, <2>6 DEF Bit
  <2>8. /\ Sound(Put(Put(u, d), i), Ann, Minus(s, i))
        /\ Keeps(inode, Put(Put(u, d), i), Minus(s, i))
    BY <2>1, <2>5, <2>7, PutHeld
  <2>9. \A j \in Inode : Minus(s, i)[j] = s[j] - Bit(i = j)
    BY <2>1, <2>5 DEF Sound, Counts, Minus, Bit
  <2>10. Dropped(p, Ann, Minus(s, i), 0)
    <3> SUFFICES ASSUME NEW j \in Inode
                 PROVE  /\ Minus(s, i)[j] = Refs[j] - Bit(d = j) - Bit(0 = j) + Bit(0 = j)
                        /\ Ann[j] = Ann[j] - Bit(0 = j) + Bit(0 = j)
      BY <1>2 DEF Dropped, d
    <3>1. Bit(0 = j) = 0
      BY Constants DEF Bit
    <3>2. /\ Refs[j] \in Nat /\ Ann[j] \in Nat /\ Bit(d = j) \in Nat /\ Bit(i = j) \in Nat
      BY Pointed DEF Bit
    <3> QED
      BY <2>6, <2>9, <3>1, <3>2
  <2> QED
    BY <1>1, <1>6, <2>8, <2>10, ReturnsStep
<1> QED
  BY <1>1, <1>4, <1>5, <1>6

\* ialloc() finds a free inode if there is one.
LEMMA NewIsFree ==
  ASSUME Unallocated # {}
  PROVE  NewInode \in Inode /\ inode[NewInode].type = "free"
<1> DEFINE R == OpToRel(<, Nat)
<1>1. Unallocated \subseteq Nat /\ Unallocated \subseteq Inode
  BY Constants DEF Unallocated
<1>2. IsWellFoundedOn(R, Nat)
  BY NatLessThanWellFounded
<1>3. PICK i \in Unallocated : \A j \in Unallocated : <<j, i>> \notin R
  BY <1>1, <1>2, WFMin
<1>4. \A j \in Unallocated : ~(j < i)
  BY <1>1, <1>3 DEF OpToRel
<1>5. \A j \in Unallocated : i <= j
  BY <1>1, <1>4
<1>6. NewInode \in Unallocated
  BY <1>5 DEF NewInode
<1> QED
  BY <1>1, <1>6 DEF Unallocated

\* create() makes an inode, and puts the directory.
LEMMA CreatedSound ==
  ASSUME IInv, NEW p \in Proc, ctx[p].at = "parent", Entry(p) = 0, Unallocated # {},
         NEW type \in {"file", "dir", "symlink"}, NEW target \in Targets \cup {<<>>}
  PROVE  LET t == Created(ctx[p].ip, LastName(p), NewInode, type, target)
             s == Minus(Plus(Refs, NewInode), ctx[p].ip)
         IN /\ NewInode \in Inode
            /\ Sound(t, Ann, s) /\ Keeps(inode, t, s) /\ Taking(p, s, NewInode)
            /\ t[NewInode].type # "free"
            /\ Sound(Put(t, NewInode), Ann, Minus(s, NewInode))
            /\ Keeps(inode, Put(t, NewInode), Minus(s, NewInode))
            /\ Dropped(p, Ann, Minus(s, NewInode), Old(ctx[p]))
<1> DEFINE d == ctx[p].ip
           n == LastName(p)
           i == NewInode
           u == Made(inode, d, n, i, type, target)
           r == Plus(Refs, i)
           t == Put(u, d)
           s == Minus(r, d)
<1>1. /\ d \in Inode /\ inode[d].type = "dir" /\ n \in Name /\ inode[d].names[n] = 0
      /\ Refs[d] > 0
  BY ParentHas
<1>2. i \in Inode /\ inode[i].type = "free"
  BY NewIsFree
<1>3. Sound(inode, Ann, Refs)
  BY DEF IInv
<1> HIDE DEF n, i
<1>4. /\ Sound(u, Ann, r) /\ \A j \in Inode : j # i => u[j].type = inode[j].type
      /\ u[i].type = type
  BY <1>1, <1>2, <1>3, MadeSound
<1>5. \A j \in Inode : r[j] = Refs[j] + Bit(i = j) /\ Refs[j] \in Nat
  BY <1>2, <1>3 DEF Sound, Counts, Plus, Bit
<1> HIDE DEF u, r, d
<1>6. Keeps(inode, u, r)
  BY <1>2, <1>4 DEF Keeps
<1>7. r[d] > 0
  BY <1>1, <1>5 DEF Bit
<1>8. Sound(t, Ann, s) /\ Keeps(inode, t, s) /\ Keeps(u, t, s)
  BY <1>1, <1>4, <1>6, <1>7, PutHeld
<1>9. \A j \in Inode : s[j] = r[j] - Bit(d = j)
  BY <1>1, <1>4 DEF Sound, Counts, Minus, Bit
<1> HIDE DEF t, s
<1>10. s[i] > 0
  BY <1>1, <1>2, <1>5, <1>9 DEF Bit
<1>11. t[i].type # "free"
  BY <1>2, <1>4, <1>8, <1>10 DEF Keeps
<1>12. Sound(Put(t, i), Ann, Minus(s, i)) /\ Keeps(inode, Put(t, i), Minus(s, i))
  BY <1>2, <1>8, <1>10, PutHeld
<1>13. Taking(p, s, i)
  <2> SUFFICES ASSUME NEW j \in Inode
               PROVE  s[j] = Refs[j] - Bit(d = j) + Bit(i = j)
    BY DEF Taking, d
  <2>1. Bit(d = j) \in Nat /\ Bit(i = j) \in Nat
    BY DEF Bit
  <2> QED
    BY <1>5, <1>9, <2>1
<1>14. Dropped(p, Ann, Minus(s, i), Old(ctx[p]))
  <2> SUFFICES ASSUME NEW j \in Inode
               PROVE  /\ Minus(s, i)[j] = Refs[j] - Bit(d = j) - Bit(Old(ctx[p]) = j)
                                            + Bit(Old(ctx[p]) = j)
                      /\ Ann[j] = Ann[j] - Bit(Old(ctx[p]) = j) + Bit(Old(ctx[p]) = j)
    BY DEF Dropped, d
  <2>1. Minus(s, i)[j] = s[j] - Bit(i = j)
    BY <1>2, <1>8 DEF Sound, Counts, Minus, Bit
  <2>2. /\ Bit(d = j) \in Nat /\ Bit(i = j) \in Nat /\ Bit(Old(ctx[p]) = j) \in Nat
        /\ Ann[j] \in Nat
    BY Pointed DEF Bit
  <2> QED
    BY <1>5, <1>9, <2>1, <2>2
<1>15. t = Created(d, n, i, type, target)
  BY DEF Created, Made, t, u
<1> QED
  BY <1>2, <1>8, <1>11, <1>12, <1>13, <1>14, <1>15 DEF s, r, d, n, i

LEMMA CreateStep == ASSUME IInv, NEW p \in Proc, sys_create(p) PROVE IInv'
<1> DEFINE d == ctx[p].ip
           i == Entry(p)
           t == Taken(inode, d, i)
           s == Minus(Plus(Refs, i), d)
           new == NewInode
           u == Created(d, LastName(p), new, "file", <<>>)
           r == Minus(Plus(Refs, new), d)
<1>1. /\ ctx[p].at = "parent" /\ ctx[p].call = "create" /\ UNCHANGED cwd
      /\ \/ /\ Exists(p) /\ ofile[p] = 0 /\ ofile' = [ofile EXCEPT ![p] = i] /\ Returns(p, t)
         \/ Exists(p) /\ UNCHANGED ofile /\ Returns(p, Put(t, i))
         \/ /\ Absent(p) /\ Unallocated # {} /\ ofile[p] = 0
            /\ ofile' = [ofile EXCEPT ![p] = new] /\ Returns(p, u)
         \/ Absent(p) /\ Unallocated # {} /\ UNCHANGED ofile /\ Returns(p, Put(u, new))
  BY DEF sys_create, Parent, At
<1>2. Old(ctx[p]) = 0 /\ i \in Inode \cup {0}
  BY <1>1, ParentHas
<1>3. CASE Exists(p)
  <2>1. i \in Inode /\ inode[i].type # "free"
    BY <1>2, <1>3 DEF Exists
  <2>2. /\ Sound(t, Ann, s) /\ Keeps(inode, t, s) /\ Taking(p, s, i)
        /\ t[i].type = inode[i].type
        /\ Sound(Put(t, i), Ann, Minus(s, i)) /\ Keeps(inode, Put(t, i), Minus(s, i))
        /\ Dropped(p, Ann, Minus(s, i), 0)
    BY <1>1, <1>2, <2>1, TakenSound
  <2>3. \/ ofile[p] = 0 /\ ofile' = [ofile EXCEPT ![p] = i] /\ Returns(p, t)
        \/ UNCHANGED ofile /\ Returns(p, Put(t, i))
    BY <1>1, <1>3 DEF Exists, Absent
  <2> HIDE DEF t, s, i
  <2>4. CASE ofile[p] = 0 /\ ofile' = [ofile EXCEPT ![p] = i] /\ Returns(p, t)
    BY <1>1, <1>2, <2>1, <2>2, <2>4, OpensStep
  <2>5. CASE UNCHANGED ofile /\ Returns(p, Put(t, i))
    BY <1>1, <2>2, <2>5, ReturnsStep
  <2> QED
    BY <2>3, <2>4, <2>5
<1>4. CASE Absent(p) /\ Unallocated # {}
  <2>1. /\ new \in Inode /\ Sound(u, Ann, r) /\ Keeps(inode, u, r) /\ Taking(p, r, new)
        /\ u[new].type # "free"
        /\ Sound(Put(u, new), Ann, Minus(r, new)) /\ Keeps(inode, Put(u, new), Minus(r, new))
        /\ Dropped(p, Ann, Minus(r, new), 0)
    BY <1>1, <1>2, <1>4, CreatedSound DEF Absent
  <2>2. \/ ofile[p] = 0 /\ ofile' = [ofile EXCEPT ![p] = new] /\ Returns(p, u)
        \/ UNCHANGED ofile /\ Returns(p, Put(u, new))
    BY <1>1, <1>4 DEF Exists, Absent
  <2> HIDE DEF u, r, new
  <2>3. CASE ofile[p] = 0 /\ ofile' = [ofile EXCEPT ![p] = new] /\ Returns(p, u)
    BY <1>1, <1>2, <2>1, <2>3, OpensStep
  <2>4. CASE UNCHANGED ofile /\ Returns(p, Put(u, new))
    BY <1>1, <2>1, <2>4, ReturnsStep
  <2> QED
    BY <2>2, <2>3, <2>4
<1> QED
  BY <1>1, <1>3, <1>4

LEMMA MakeStep ==
  ASSUME IInv, NEW p \in Proc, NEW call \in {"mkdir", "symlink"},
         NEW type \in {"dir", "symlink"}, NEW target \in Targets \cup {<<>>},
         Make(p, call, type, target)
  PROVE  IInv'
<1> DEFINE d == ctx[p].ip
           i == Entry(p)
           t == Taken(inode, d, i)
           s == Minus(Plus(Refs, i), d)
           new == NewInode
           u == Created(d, LastName(p), new, type, target)
           r == Minus(Plus(Refs, new), d)
<1>1. /\ ctx[p].at = "parent" /\ ctx[p].call = call /\ UNCHANGED <<cwd, ofile>>
      /\ \/ Exists(p) /\ Returns(p, Put(t, i))
         \/ Absent(p) /\ Unallocated # {} /\ Returns(p, Put(u, new))
  BY DEF Make, Parent, At
<1>2. Old(ctx[p]) = 0 /\ i \in Inode \cup {0}
  BY <1>1, ParentHas
<1>3. CASE Exists(p) /\ Returns(p, Put(t, i))
  <2>1. i \in Inode
    BY <1>2, <1>3 DEF Exists
  <2>2. /\ Sound(Put(t, i), Ann, Minus(s, i)) /\ Keeps(inode, Put(t, i), Minus(s, i))
        /\ Dropped(p, Ann, Minus(s, i), 0)
    BY <1>1, <1>2, <2>1, TakenSound
  <2> HIDE DEF t, s, i
  <2> QED
    BY <1>1, <1>3, <2>2, ReturnsStep
<1>4. CASE Absent(p) /\ Unallocated # {} /\ Returns(p, Put(u, new))
  <2>1. /\ Sound(Put(u, new), Ann, Minus(r, new)) /\ Keeps(inode, Put(u, new), Minus(r, new))
        /\ Dropped(p, Ann, Minus(r, new), 0)
    BY <1>1, <1>2, <1>4, CreatedSound DEF Absent
  <2> HIDE DEF u, r, new
  <2> QED
    BY <1>1, <1>4, <2>1, ReturnsStep
<1> QED
  BY <1>1, <1>3, <1>4

LEMMA CloseStep == ASSUME IInv, NEW p \in Proc, sys_close(p) PROVE IInv'
<1> DEFINE i == ofile[p]
           t == Put(inode, i)
           s == Minus(Refs, i)
<1>1. /\ ctx[p] = Idle /\ i # 0 /\ inode' = t /\ ofile' = [ofile EXCEPT ![p] = 0]
      /\ UNCHANGED <<cwd, ctx, panic>>
  BY DEF sys_close
<1>2. i \in Inode /\ Sound(inode, Ann, Refs) /\ Keeps(inode, inode, Refs)
  BY <1>1 DEF IInv, Keeps
<1>3. Refs[i] > 0
  BY <1>2, Pointed
<1>4. Sound(t, Ann, s) /\ Keeps(inode, t, s)
  BY <1>2, <1>3, PutHeld
<1>5. \A j \in Inode : s[j] = Refs[j] - Bit(i = j)
  BY <1>2 DEF Sound, Counts, Minus, Bit
<1>6. Moves(p) /\ ofile'[p] = 0 /\ cwd'[p] = cwd[p] /\ ctx'[p] = Idle
  BY <1>1 DEF IInv, Moves
<1> HIDE DEF t, s
<1>7. ASSUME NEW j \in Inode
      PROVE  /\ s[j] = Refs[j] - Weight(ctx[p], cwd[p], ofile[p], j)
                           + Weight(ctx'[p], cwd'[p], ofile'[p], j)
             /\ Ann[j] = Ann[j] - Bit(Old(ctx[p]) = j) + Bit(Old(ctx'[p]) = j)
  <2>1. Bit(0 = j) = 0
    BY Constants DEF Bit
  <2>2. Bit(cwd[p] = j) \in Nat /\ Bit(i = j) \in Nat
    BY DEF Bit
  <2>3. Refs[j] \in Nat /\ Ann[j] \in Nat
    BY Pointed
  <2>4. s[j] = Refs[j] - Bit(i = j)
    BY <1>5
  <2>5. Weight(ctx[p], cwd[p], ofile[p], j) = Bit(cwd[p] = j) + Bit(i = j)
    BY <1>1, <2>1, <2>2, IdleIsRight DEF Weight
  <2>6. Weight(ctx'[p], cwd'[p], ofile'[p], j) = Bit(cwd[p] = j)
    BY <1>6, <2>1, <2>2, IdleIsRight DEF Weight
  <2>7. Old(ctx'[p]) = 0 /\ Old(ctx[p]) = 0
    BY <1>1, <1>6, IdleIsRight
  <2> HIDE DEF i
  <2> QED
    BY <2>1, <2>2, <2>3, <2>4, <2>5, <2>6, <2>7
<1>8. Balance(p, Ann, s)
  BY <1>7 DEF Balance
<1>9. t[cwd[p]].type # "free"
  <2>1. cwd[p] \in Inode /\ inode[cwd[p]].type # "free"
    BY DEF IInv
  <2>2. Refs'[cwd[p]] = s[cwd[p]]
    BY <1>6, <1>7, <2>1, RefsMoved
  <2>3. Refs'[cwd[p]] > 0
    BY <1>6, <2>1, RefsMoved
  <2> QED
    BY <1>4, <2>1, <2>2, <2>3 DEF Keeps
<1>10. /\ Sound(inode', Ann, s) /\ Keeps(inode, inode', s)
       /\ Right(inode', ctx'[p]) /\ inode'[cwd'[p]].type # "free"
       /\ ofile'[p] # 0 => inode'[ofile'[p]].type # "free"
       /\ panic' # "unlink: nlink < 1"
  BY <1>1, <1>4, <1>6, <1>9, IdleIsRight DEF IInv
<1> QED
  BY <1>6, <1>8, <1>10, Step

-----------------------------------------------------------------------------
(* The invariant *)

\* The directories made before form a chain below the root.
LEMMA InitStep == Init => IInv
<1> SUFFICES ASSUME Init PROVE IInv
  OBVIOUS
<1> DEFINE len == Len(Nested)
           Dirs == 1..len + 1
<1>1. /\ len \in Nat /\ len < NINODES /\ DOMAIN Nested = 1..len
      /\ \A k \in 1..len : Nested[k] \in Name
      /\ Dirs \subseteq Inode /\ ROOTINO = 1
  BY FileTreeAssumption DEF Inode, ROOTINO
<1>2. /\ cwd \in [Proc -> Dirs] /\ ofile = [p \in Proc |-> 0]
      /\ ctx = [p \in Proc |-> Idle] /\ panic = "none"
  BY DEF Init
<1>3. inode = [i \in Inode |->
       IF i \notin Dirs THEN Free
       ELSE [Free EXCEPT
               !.type = "dir", !.readable = TRUE,
               !.up = IF i = ROOTINO THEN ROOTINO ELSE i - 1,
               !.names = [n \in Name |-> IF i \in DOMAIN Nested /\ Nested[i] = n THEN i + 1 ELSE 0],
               !.nlink = IF i \in DOMAIN Nested THEN 2 ELSE 1,
               !.ref = Cardinality({p \in Proc : cwd[p] = i})]]
  BY DEF Init
<1>4. \A i \in Inode : i \notin Dirs => inode[i] = Free
  BY <1>3
<1>5. \A i \in Inode : i \notin Dirs =>
        /\ inode[i] \in Record /\ inode[i].type = "free" /\ inode[i].nlink = 0
        /\ inode[i].ref = 0 /\ inode[i].leaked = 0
        /\ \A n \in Name : inode[i].names[n] = 0
  <2>1. Free \in Record
    BY DEF Free, NoNames, Record
  <2>2. /\ Free.type = "free" /\ Free.nlink = 0 /\ Free.ref = 0 /\ Free.leaked = 0
        /\ \A n \in Name : Free.names[n] = 0
    BY DEF Free, NoNames
  <2> QED
    BY <1>4, <2>1, <2>2
<1>6. ASSUME NEW i \in Dirs
      PROVE  /\ inode[i] \in Record /\ inode[i].type = "dir" /\ ~inode[i].lost
             /\ inode[i].ref = Count(cwd, i) /\ inode[i].leaked = 0
             /\ inode[i].up = (IF i = 1 THEN 1 ELSE i - 1)
             /\ inode[i].nlink = (IF i <= len THEN 2 ELSE 1)
             /\ \A n \in Name : inode[i].names[n] = IF i <= len /\ Nested[i] = n THEN i + 1 ELSE 0
  <2> DEFINE up == IF i = ROOTINO THEN ROOTINO ELSE i - 1
             names == [n \in Name |-> IF i \in DOMAIN Nested /\ Nested[i] = n THEN i + 1 ELSE 0]
             nlink == IF i \in DOMAIN Nested THEN 2 ELSE 1
             ref == Cardinality({p \in Proc : cwd[p] = i})
  <2>1. inode[i] = [Free EXCEPT !.type = "dir", !.readable = TRUE, !.up = up,
                                !.names = names, !.nlink = nlink, !.ref = ref]
    BY <1>1, <1>3
  <2>2. up = (IF i = 1 THEN 1 ELSE i - 1) /\ up \in Inode
    BY <1>1 DEF Inode
  <2>3. nlink = (IF i <= len THEN 2 ELSE 1) /\ nlink \in Nat
    BY <1>1
  <2>4. ref = Count(cwd, i) /\ ref \in Nat
    BY CountNat DEF Count
  <2>5. /\ \A n \in Name : names[n] = IF i <= len /\ Nested[i] = n THEN i + 1 ELSE 0
        /\ names \in [Name -> Inode \cup {0}]
    <3>1. i <= len => i + 1 \in Inode
      BY <1>1
    <3>2. \A n \in Name : names[n] = IF i <= len /\ Nested[i] = n THEN i + 1 ELSE 0
      BY <1>1
    <3>3. \A n \in Name : names[n] \in Inode \cup {0}
      BY <3>1, <3>2
    <3> QED
      BY <3>2, <3>3
  <2> HIDE DEF up, names, nlink, ref
  <2>6. inode[i] = [type |-> "dir", nlink |-> nlink, ref |-> ref, up |-> up, names |-> names,
                    target |-> <<>>, readable |-> TRUE, lost |-> FALSE, leaked |-> 0]
    BY <2>1 DEF Free
  <2> QED
    BY <2>2, <2>3, <2>4, <2>5, <2>6 DEF Record
<1>7. \A i \in Inode : Ann[i] = 0 /\ Refs[i] = Count(cwd, i)
  <2> TAKE i \in Inode
  <2>1. \A p \in Proc : Ips[p] = 0 /\ Olds[p] = 0 /\ ofile[p] = 0
    BY <1>2, IdleIsRight DEF Ips, Olds
  <2>2. /\ {p \in Proc : Ips[p] = i} = {} /\ {p \in Proc : Olds[p] = i} = {}
        /\ {p \in Proc : ofile[p] = i} = {}
    BY <2>1, Constants
  <2>3. Count(Ips, i) = 0 /\ Count(Olds, i) = 0 /\ Count(ofile, i) = 0
    BY <2>2, FS_EmptySet DEF Count
  <2> QED
    BY <2>3, CountNat DEF Ann, Refs
<1>8. inode \in Table
  BY <1>3, <1>5, <1>6 DEF Table
<1>9. \A d \in Inode, n \in Name : inode[d].names[n] # 0 =>
        /\ d \in 1..len /\ Nested[d] = n /\ inode[d].names[n] = d + 1
  BY <1>5, <1>6
<1>10. Shape(inode)
  <2>1. ASSUME NEW d \in Inode, NEW n \in Name, inode[d].names[n] # 0
        PROVE  /\ inode[d].type = "dir"
               /\ inode[d].names[n] # d /\ inode[d].names[n] # ROOTINO
               /\ inode[inode[d].names[n]].type # "free"
               /\ inode[inode[d].names[n]].type = "dir" =>
                    /\ inode[inode[d].names[n]].up = d
                    /\ \A m \in Name : inode[d].names[m] = inode[d].names[n] => m = n
    <3>1. d \in 1..len /\ Nested[d] = n /\ inode[d].names[n] = d + 1
      BY <1>9, <2>1
    <3>2. d \in Dirs /\ d + 1 \in Dirs /\ d + 1 # 1 /\ d + 1 # d
      BY <1>1, <3>1
    <3>3. \A m \in Name : inode[d].names[m] = d + 1 => m = n
      BY <1>9, <3>1
    <3>4. inode[d].type = "dir" /\ inode[d + 1].type = "dir" /\ inode[d + 1].up = d
      BY <1>6, <3>1, <3>2
    <3> QED
      BY <1>1, <3>1, <3>2, <3>3, <3>4
  <2>2. \A i \in Inode : /\ inode[i].type = "dir" => inode[i].up # 0
                         /\ inode[i].type = "free" => inode[i].nlink = 0
    BY <1>1, <1>5, <1>6
  <2>3. inode[ROOTINO].type = "dir"
    BY <1>1, <1>6
  <2> QED
    BY <1>8, <2>1, <2>2, <2>3 DEF Shape
<1>11. ASSUME NEW i \in Dirs PROVE Claims(inode, i) = inode[i].nlink
  <2>1. NamesIn(inode, i) = IF i = 1 THEN {} ELSE {<<i - 1, Nested[i - 1]>>}
    <3>1. ASSUME NEW d \in Inode, NEW n \in Name
          PROVE  inode[d].names[n] = i <=> i # 1 /\ d = i - 1 /\ n = Nested[i - 1]
      <4>1. inode[d].names[n] = i => i # 1 /\ d = i - 1 /\ n = Nested[i - 1]
        BY <1>1, <1>9
      <4>2. i # 1 => /\ i - 1 \in Dirs /\ i - 1 <= len /\ Nested[i - 1] \in Name
                     /\ inode[i - 1].names[Nested[i - 1]] = i
        BY <1>1, <1>6
      <4> QED
        BY <4>1, <4>2
    <3>2. i # 1 => i - 1 \in Inode /\ Nested[i - 1] \in Name
      BY <1>1
    <3> QED
      BY <3>1, <3>2 DEF NamesIn
  <2>2. SubdirsIn(inode, i) = IF i <= len THEN {i + 1} ELSE {}
    <3>1. ASSUME NEW d \in Inode
          PROVE  d \in SubdirsIn(inode, i) <=> i <= len /\ d = i + 1
      <4>1. ASSUME d \in SubdirsIn(inode, i) PROVE i <= len /\ d = i + 1
        <5>1. inode[d].type = "dir" /\ inode[d].up = i /\ NamesIn(inode, d) # {}
          BY <4>1 DEF SubdirsIn
        <5>2. PICK e \in Inode, n \in Name : inode[e].names[n] = d
          BY <5>1 DEF NamesIn
        <5>3. e \in 1..len /\ d = e + 1
          BY <1>9, <5>2, Constants
        <5>4. d \in Dirs /\ d # 1
          BY <1>1, <5>3
        <5> QED
          BY <1>1, <1>6, <5>1, <5>3, <5>4
      <4>2. ASSUME i <= len, d = i + 1 PROVE d \in SubdirsIn(inode, i)
        <5>1. d \in Dirs /\ Nested[i] \in Name
          BY <1>1, <4>2
        <5>2. inode[d].type = "dir" /\ inode[d].up = i
          BY <1>6, <4>2, <5>1
        <5>3. inode[i].names[Nested[i]] = d
          BY <1>6, <4>2, <5>1
        <5> QED
          BY <1>1, <5>1, <5>2, <5>3, NamedClaims DEF SubdirsIn
      <4> QED
        BY <4>1, <4>2
    <3>2. i <= len => i + 1 \in Inode
      BY <1>1
    <3>3. SubdirsIn(inode, i) \subseteq Inode
      BY DEF SubdirsIn
    <3> QED
      BY <3>1, <3>2, <3>3
  <2>3. Cardinality(NamesIn(inode, i)) = IF i = 1 THEN 0 ELSE 1
    BY <2>1, FS_EmptySet, FS_Singleton
  <2>4. Cardinality(SubdirsIn(inode, i)) = IF i <= len THEN 1 ELSE 0
    BY <2>2, FS_EmptySet, FS_Singleton
  <2>5. inode[i].nlink = IF i <= len THEN 2 ELSE 1
    BY <1>6
  <2> QED
    BY <1>1, <2>3, <2>4, <2>5 DEF Claims, Bit
<1>12. Links(inode, Ann)
  <2>1. ASSUME NEW i \in Inode
        PROVE  IF inode[i].type = "free" THEN Ann[i] = 0
               ELSE /\ inode[i].nlink >= Claims(inode, i) + Ann[i]
                    /\ ~inode[i].lost => inode[i].nlink = Claims(inode, i) + Ann[i]
    <3>1. CASE i \notin Dirs
      BY <1>5, <1>7, <3>1
    <3>2. CASE i \in Dirs
      <4>1. Claims(inode, i) = inode[i].nlink /\ inode[i].nlink \in Nat /\ Ann[i] = 0
        BY <1>7, <1>8, <1>11, <3>2 DEF Table, Record
      <4> QED
        BY <1>6, <3>2, <4>1
    <3> QED
      BY <3>1, <3>2
  <2> QED
    BY <2>1 DEF Links
<1>13. InTime(inode)
  BY <1>5, <1>6 DEF InTime
<1>14. Ann \in Counts /\ Refs \in Counts
  <2>1. \A i \in Inode : Ann[i] \in Nat /\ Refs[i] \in Nat
    BY <1>7, CountNat
  <2> QED
    BY <2>1 DEF Ann, Refs, Counts
<1>15. \A i \in Inode : inode[i].ref = Refs[i] + inode[i].leaked
  <2> TAKE i \in Inode
  <2>1. CASE i \in Dirs
    BY <1>6, <1>7, <2>1, CountNat
  <2>2. CASE i \notin Dirs
    <3>1. {p \in Proc : cwd[p] = i} = {}
      BY <1>2, <2>2
    <3>2. Count(cwd, i) = 0
      BY <3>1, FS_EmptySet DEF Count
    <3> QED
      BY <1>5, <1>7, <2>2, <3>2
  <2> QED
    BY <2>1, <2>2
<1>16. Sound(inode, Ann, Refs)
  BY <1>10, <1>12, <1>13, <1>14, <1>15 DEF Sound
<1>17. cwd \in [Proc -> Inode] /\ ofile \in [Proc -> Inode \cup {0}] /\ ctx \in [Proc -> Call]
  BY <1>1, <1>2, IdleIsRight
<1>18. \A p \in Proc : /\ Right(inode, ctx[p]) /\ inode[cwd[p]].type # "free"
                       /\ ofile[p] # 0 => inode[ofile[p]].type # "free"
  BY <1>2, <1>6, IdleIsRight
<1> QED
  BY <1>2, <1>16, <1>17, <1>18 DEF IInv

LEMMA NextStep == IInv /\ [Next]_vars => IInv'
<1> SUFFICES ASSUME IInv, [Next]_vars PROVE IInv'
  OBVIOUS
<1>1. CASE UNCHANGED vars
  BY <1>1, Unmoved DEF vars, IInv
<1>2. ASSUME NEW p \in Proc, sys_mkdir(p) PROVE IInv'
  BY <1>2, MakeStep DEF sys_mkdir
<1>3. ASSUME NEW p \in Proc, sys_symlink(p) PROVE IInv'
  BY <1>3, MakeStep DEF sys_symlink
<1>4. ASSUME NEW p \in Proc,
             \/ Running /\ Enter(p)
             \/ WalkPanics(p) \/ WalkRefused(p) \/ WalkToParent(p) \/ WalkOn(p) \/ WalkEnds(p)
             \/ RestOverwritten(p) \/ FoundPanics(p) \/ sys_open(p) \/ FollowLink(p)
             \/ sys_chmod(p) \/ sys_readlink(p) \/ ReadLast(p) \/ sys_chdir(p) \/ LinkOld(p)
             \/ SymlinkExists(p) \/ LinkNew(p) \/ sys_unlink(p) \/ CreatePanics(p)
             \/ sys_create(p) \/ sys_close(p)
      PROVE  IInv'
  BY <1>4, EnterStep, PanicSteps, WalkRefusedStep, WalkToParentStep, WalkOnStep, WalkEndsStep,
     RestOverwrittenStep, OpenStep, FollowLinkStep, ChmodStep, ReadlinkStep, ReadLastStep, ChdirStep, LinkOldStep,
     SymlinkExistsStep, LinkNewStep, UnlinkStep, CreateStep, CloseStep
<1> QED
  BY <1>1, <1>2, <1>3, <1>4 DEF Next

LEMMA Inductive == Spec => []IInv
BY InitStep, NextStep, PTL DEF Spec

-----------------------------------------------------------------------------
(* What follows from the invariant *)

\* A directory's name.
LEMMA NameOfDirectory ==
  ASSUME NEW t, Shape(t), NEW i \in Inode, t[i].type = "dir",
         NEW d \in Inode, NEW n \in Name, t[d].names[n] = i
  PROVE  t[i].up = d /\ i # d /\ \A m \in Name : t[d].names[m] = i => m = n
<1>1. t[d].names[n] # 0
  BY Constants
<1>2. /\ t[d].names[n] # d
      /\ t[t[d].names[n]].type = "dir" =>
           /\ t[t[d].names[n]].up = d
           /\ \A m \in Name : t[d].names[m] = t[d].names[n] => m = n
  BY <1>1 DEF Shape
<1> QED
  BY <1>2

\* The model's sets are those that have been counted.
LEMMA SameSets ==
  ASSUME IInv, NEW i \in Inode
  PROVE  /\ NamesOf(i) = NamesIn(inode, i)
         /\ Subdirs(i) \ {i} = SubdirsIn(inode, i)
         /\ Cardinality(Announced(i)) = Ann[i]
<1>1. \A j : NamesOf(j) = NamesIn(inode, j)
  BY DEF NamesOf, NamesIn
<1>2. Subdirs(i) = SubdirsIn(inode, i)
  BY <1>1 DEF Subdirs, SubdirsIn
<1>3. i \notin SubdirsIn(inode, i)
  <2> SUFFICES ASSUME inode[i].type = "dir", inode[i].up = i, NamesIn(inode, i) # {}
               PROVE  FALSE
    BY DEF SubdirsIn
  <2>1. PICK d \in Inode, n \in Name : inode[d].names[n] = i
    BY DEF NamesIn
  <2>2. Shape(inode)
    BY DEF IInv, Sound
  <2>3. i # d /\ inode[i].up = d
    BY <2>1, <2>2, NameOfDirectory
  <2> QED
    BY <2>3
<1>4. Announced(i) = {p \in Proc : Olds[p] = i}
  BY Constants DEF Announced, Olds, Old
<1> QED
  BY <1>1, <1>2, <1>3, <1>4 DEF Ann, Count

\* nlink is the number of names of an inode, with what create(), unlink() and the
\* two halves of sys_link() do to it in between, and sys_unlink() never panics with
\* "unlink: nlink < 1".
THEOREM LinksCounted == Spec => []LinksExact
<1>1. IInv => LinksExact
  <2> SUFFICES ASSUME IInv PROVE LinksExact
    OBVIOUS
  <2>1. ASSUME NEW i \in Inode, Allocated(i), ~inode[i].lost
        PROVE  inode[i].nlink = Cardinality(NamesOf(i)) + Cardinality(Subdirs(i) \ {i})
                          + Cardinality(Announced(i)) + (IF i = ROOTINO THEN 1 ELSE 0)
    <3>1. inode[i].nlink = Claims(inode, i) + Ann[i]
      BY <2>1 DEF IInv, Sound, Links, Allocated
    <3>2. /\ Cardinality(NamesIn(inode, i)) \in Nat /\ Cardinality(SubdirsIn(inode, i)) \in Nat
          /\ Ann[i] \in Nat
      BY ClaimsNat, CountNat DEF Ann
    <3>3. /\ NamesOf(i) = NamesIn(inode, i)
          /\ Subdirs(i) \ {i} = SubdirsIn(inode, i)
          /\ Cardinality(Announced(i)) = Ann[i]
      BY SameSets
    <3> QED
      BY <3>1, <3>2, <3>3 DEF Claims, Bit
  <2>2. panic # "unlink: nlink < 1"
    BY DEF IInv
  <2> QED
    BY <2>1, <2>2 DEF LinksExact
<1> QED
  BY <1>1, Inductive, PTL

\* ref is the number of pointers to an inode, whatever iget(), idup() and iput()
\* the calls of the other processes make meanwhile; what sys_symlink() leaks is
\* counted apart.
THEOREM RefsCounted == Spec => []RefExact
<1>1. IInv => RefExact
  <2> SUFFICES ASSUME IInv, NEW i \in Inode
               PROVE  inode[i].ref = Cardinality({p \in Proc : cwd[p] = i})
                        + Cardinality({p \in Proc : ofile[p] = i})
                        + Cardinality({p \in Proc : ctx[p].ip = i})
                        + Cardinality(Announced(i)) + inode[i].leaked
    BY DEF RefExact
  <2>1. inode[i].ref = Refs[i] + inode[i].leaked
    BY DEF IInv, Sound
  <2>2. Refs[i] = Count(cwd, i) + Count(ofile, i) + Count(Ips, i) + Ann[i]
    BY DEF Refs, Ann
  <2>3. /\ Count(cwd, i) = Cardinality({p \in Proc : cwd[p] = i})
        /\ Count(ofile, i) = Cardinality({p \in Proc : ofile[p] = i})
        /\ Count(Ips, i) = Cardinality({p \in Proc : ctx[p].ip = i})
    <3>1. {p \in Proc : Ips[p] = i} = {p \in Proc : ctx[p].ip = i}
      BY DEF Ips
    <3> QED
      BY <3>1 DEF Count
  <2>4. Cardinality(Announced(i)) = Ann[i]
    BY SameSets
  <2> QED
    BY <2>1, <2>2, <2>3, <2>4
<1> QED
  BY <1>1, Inductive, PTL

\* iput() frees an inode only when nobody can reach it any more, and keeps one
\* that has neither a name nor a reference only if its name went with a directory
\* that was freed or if it is a removed directory with a subdirectory in it.
THEOREM FreedNotTooSoon == Spec => []FreedInTime
<1>1. IInv => FreedInTime
  <2> SUFFICES ASSUME IInv PROVE FreedInTime
    OBVIOUS
  <2>1. inode \in Table /\ Shape(inode) /\ InTime(inode)
    BY DEF IInv, Sound, Shape
  <2>2. TypeOK
    BY <2>1 DEF IInv, TypeOK, Table, Record
  <2>3. ASSUME NEW i \in Inode, NamesOf(i) # {} PROVE Allocated(i)
    <3>1. PICK d \in Inode, n \in Name : inode[d].names[n] = i
      BY <2>3 DEF NamesOf
    <3> QED
      BY <2>1, <3>1, Constants DEF Shape, Allocated
  <2>4. \A i \in Inode, p \in Proc : i \in {cwd[p], ofile[p]} => Allocated(i)
    BY Constants DEF IInv, Allocated
  <2>5. ASSUME NEW i \in Inode, Allocated(i), inode[i].ref = 0, NamesOf(i) = {},
               i # ROOTINO, ~inode[i].lost, Subdirs(i) = {}
        PROVE  FALSE
    <3>1. inode[i].nlink = Claims(inode, i) + Ann[i]
      BY <2>5 DEF IInv, Sound, Links, Allocated
    <3>2. /\ NamesIn(inode, i) = {} /\ SubdirsIn(inode, i) = {}
          /\ Cardinality({}) = 0
      BY <2>5, SameSets, FS_EmptySet
    <3>3. Claims(inode, i) = 0
      BY <2>5, <3>2 DEF Claims, Bit
    <3>4. Ann[i] = 0
      <4>1. /\ Ann[i] = Count(Olds, i)
            /\ Refs[i] = Count(cwd, i) + Count(ofile, i) + Count(Ips, i) + Count(Olds, i)
        BY DEF Ann, Refs
      <4>2. inode[i].ref = Refs[i] + inode[i].leaked /\ inode[i].leaked \in Nat
        BY <2>1 DEF IInv, Sound, Table, Record
      <4> QED
        BY <2>5, <4>1, <4>2, CountNat
    <3> QED
      BY <2>1, <2>5, <3>1, <3>3, <3>4 DEF InTime, Allocated
  <2> QED
    BY <2>2, <2>3, <2>4, <2>5 DEF FreedInTime
<1> QED
  BY <1>1, Inductive, PTL

\* The directories are a tree: sys_link() refuses them and create() gives each one
\* name, in the directory that its ".." is.
THEOREM DirectoriesAreATree == Spec => []OneParent
<1>1. IInv => OneParent
  <2> SUFFICES ASSUME IInv, NEW d \in Inode, inode[d].type = "dir",
                      NEW e \in NamesOf(d), NEW f \in NamesOf(d)
               PROVE  e = f /\ e[1] = inode[d].up
    BY DEF OneParent
  <2>1. /\ e \in Inode \X Name /\ f \in Inode \X Name
        /\ inode[e[1]].names[e[2]] = d /\ inode[f[1]].names[f[2]] = d
    BY DEF NamesOf
  <2>2. e[1] \in Inode /\ e[2] \in Name /\ f[1] \in Inode /\ f[2] \in Name
        /\ e = <<e[1], e[2]>> /\ f = <<f[1], f[2]>>
    BY <2>1
  <2>3. Shape(inode)
    BY DEF IInv, Sound
  <2>4. inode[d].up = e[1] /\ inode[d].up = f[1]
    BY <2>1, <2>2, <2>3, NameOfDirectory
  <2>5. e[2] = f[2]
    BY <2>1, <2>2, <2>3, <2>4, NameOfDirectory
  <2> QED
    BY <2>2, <2>4, <2>5
<1> QED
  BY <1>1, Inductive, PTL
=============================================================================
