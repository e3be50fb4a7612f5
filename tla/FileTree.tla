------------------------------ MODULE FileTree ------------------------------
(***************************************************************************)
(* Inodes, directories, paths and symbolic links (mp4/kernel/fs.c) and the *)
(* system calls on them (mp4/kernel/sysfile.c), several processes at once. *)
(*                                                                         *)
(* A step is what a call does under the locks of one group of inodes:      *)
(* namex() holds one inode at a time and only references between two       *)
(* steps; the call's own work on the inodes it found is one step, since    *)
(* what it locks it locks before it unlocks anything, or does not change   *)
(* while a reference is held (the type of an inode).                       *)
(* The content of files and the write bit of a mode are left out, and so   *)
(* are fork() and exit(); a process has one descriptor for inodes.  The    *)
(* log makes each call durable as a whole and is the subject of MirrorLog. *)
(***************************************************************************)
EXTENDS Integers, Sequences, FiniteSets

CONSTANTS
  Proc,
  Name,         \* of directory entries, besides "." and ".."
  NINODES,      \* bound: inodes of the disk
  Nested,       \* names of the directories made before, each in the one before it
  Paths,        \* of the calls: sequences of names, "/" first if absolute
  Targets,      \* of symbolic links, paths too
  Calls,        \* the calls processes make
  MaxLinks,     \* follow_symlink() gives up after this many, 10 in the code
  MaxNest,      \* bound: nested calls of namex() that fit on the kernel's stack
  MaxCalls      \* bound: calls in a behaviour

ASSUME FileTreeAssumption ==
  /\ NINODES \in Nat \ {0} /\ Nested \in Seq(Name) /\ Len(Nested) < NINODES
  /\ MaxLinks \in Nat /\ MaxNest \in Nat /\ MaxCalls \in Nat
  /\ Name \intersect {"/", ".", ".."} = {}
  /\ IsFiniteSet(Proc) /\ IsFiniteSet(Name)
  /\ \A path \in Paths \union Targets :
       /\ path \in Seq(Name \union {"/", ".", ".."})
       /\ \A k \in 2..Len(path) : path[k] # "/"
  /\ Calls \subseteq {"open", "create", "mkdir", "link", "unlink", "chdir", "symlink",
                      "readlink", "chmod"}

Inode == 1..NINODES
ROOTINO == 1

VARIABLES
  inode,     \* the inodes, on disk and in the cache
  cwd, ofile,   \* per process: its directory, and the file it has open or 0
  ctx,       \* per process: the call it is in
  panic,     \* the message of the panic that stopped the system
  calls      \* calls made so far

vars == <<inode, cwd, ofile, ctx, panic, calls>>

NoNames == [n \in Name |-> 0]
Free == [type |-> "free", nlink |-> 0, ref |-> 0, up |-> 0, names |-> NoNames,
         target |-> <<>>, readable |-> FALSE, lost |-> FALSE, leaked |-> 0]
Idle == [call |-> "none", stage |-> "first", at |-> "user", ip |-> 0, rest |-> <<>>,
         path |-> <<>>, old |-> 0, depth |-> 0, nest |-> 0]

\* lost: a directory that held a name of the inode was freed with the name in it.
\* leaked: references that no pointer is left for.
Init ==
  LET Dirs == 1..Len(Nested) + 1 IN
  /\ cwd \in [Proc -> Dirs]
  /\ inode = [i \in Inode |->
       IF i \notin Dirs THEN Free
       ELSE [Free EXCEPT
               !.type = "dir", !.readable = TRUE,
               !.up = IF i = ROOTINO THEN ROOTINO ELSE i - 1,
               !.names = [n \in Name |-> IF i \in DOMAIN Nested /\ Nested[i] = n THEN i + 1 ELSE 0],
               !.nlink = IF i \in DOMAIN Nested THEN 2 ELSE 1,
               !.ref = Cardinality({p \in Proc : cwd[p] = i})]]
  /\ ofile = [p \in Proc |-> 0]
  /\ ctx = [p \in Proc |-> Idle]
  /\ panic = "none"
  /\ calls = 0

-----------------------------------------------------------------------------
(* Inodes: iget(), iput(), ialloc(), dirlookup() on the table t of inodes *)

Get(t, i) == [t EXCEPT ![i].ref = @ + 1]

\* What iput() frees.  Mutant: another reference does not matter.
LastPutUnlinked(ip) == ip.nlink = 0
LastPut(ip) == ip.ref = 1 /\ ip.nlink = 0

Freed(t, i) ==
  [j \in Inode |-> IF j = i THEN [Free EXCEPT !.ref = t[i].ref - 1]
                   ELSE IF \E n \in Name : t[i].names[n] = j THEN [t[j] EXCEPT !.lost = TRUE]
                   ELSE t[j]]

Put(t, i) == IF LastPut(t[i]) THEN Freed(t, i) ELSE [t EXCEPT ![i].ref = @ - 1]

Lookup(t, d, n) ==
  CASE n = "." -> d [] n = ".." -> t[d].up [] OTHER -> t[d].names[n]

Unallocated == {i \in Inode : inode[i].type = "free"}
\* ialloc() takes the first free inode of the disk; an entry of the cache may exist.
NewInode == CHOOSE i \in Unallocated : \A j \in Unallocated : i <= j

-----------------------------------------------------------------------------
(* Steps of a call *)

Running == panic = "none"

Panics(message) == panic' = message /\ UNCHANGED <<inode, ctx>>

\* The call returns, and leaves the inodes as t.
Returns(p, t) == inode' = t /\ ctx' = [ctx EXCEPT ![p] = Idle] /\ UNCHANGED panic

Names(path) == IF path # <<>> /\ Head(path) = "/" THEN Tail(path) ELSE path
From(p, path) == IF path # <<>> /\ Head(path) = "/" THEN ROOTINO ELSE cwd[p]

\* namex() begins: a reference to the directory it starts in.
Walk(p, t, path, c) ==
  /\ inode' = Get(t, From(p, path))
  /\ ctx' = [ctx EXCEPT ![p] = [c EXCEPT !.at = "walk", !.ip = From(p, path),
                                         !.rest = Names(path)]]
  /\ UNCHANGED panic

Follows(c) == c.call \in {"open", "chmod"} /\ c.stage = "first"
WantsParent(c) ==
  c.call \in {"create", "mkdir", "unlink"} \/ c.stage \in {"new", "create"}

\* Mutant: the count stays raised.
UndoneKept(t, i) == t
Undone(t, i) == [t EXCEPT ![i].nlink = @ - 1]

\* namex() returns 0, having put what it held: what the call makes of it.
NotFound(p, t) ==
  LET c == ctx[p] IN
  \/ c.stage \in {"first", "old", "create"} /\ Returns(p, t)
  \/ c.stage = "exists" /\ Walk(p, t, c.path, [c EXCEPT !.stage = "create"])
  \/ c.stage = "new" /\ Returns(p, Put(Undone(t, c.old), c.old))
  \/ c.stage = "target" /\ c.call = "open" /\ Returns(p, t)
  \/ c.stage = "target" /\ c.call \in {"chmod", "readlink"} /\ Panics("iunlock")

Enter(p) ==
  /\ ctx[p] = Idle /\ calls < MaxCalls
  /\ calls' = calls + 1
  /\ \E call \in Calls, path \in Paths :
       Walk(p, inode, path, [Idle EXCEPT !.call = call, !.path = path,
              !.stage = IF call = "link" THEN "old" ELSE
                        IF call = "symlink" THEN "exists" ELSE "first"])
  /\ UNCHANGED <<cwd, ofile>>

-----------------------------------------------------------------------------
(* One round of the loop of namex() *)

At(p, place) == Running /\ ctx[p].at = place

\* The rest of the path lies in the static buffer of concat_path().
InBuffer(p) == ctx[p].at = "walk" /\ ctx[p].nest > 0

\* What concat_path() leaves in its buffer: the target, a slash and the rest, or
\* anything if the rest lies in the buffer that it overwrites.
Concatenated(p, target, rest) ==
  {(IF target = <<>> THEN <<"/">> ELSE target) \o rest}
    \union (IF InBuffer(p) THEN Paths ELSE {})

\* Another process concatenates a path of its own in the buffer.
RestOverwritten(p) ==
  /\ Running /\ InBuffer(p)
  /\ \E q \in Proc \ {p} : InBuffer(q)
  /\ \E path \in Paths : ctx' = [ctx EXCEPT ![p].rest = Names(path)]
  /\ UNCHANGED <<inode, cwd, ofile, panic, calls>>

Locked(p) == inode[ctx[p].ip]

Reads(ip) == ip.type = "dir" /\ ip.readable

WalkPanics(p) ==
  /\ At(p, "walk") /\ ctx[p].rest # <<>>
  /\ Locked(p).type = "free"
  /\ Panics("ilock: no type")
  /\ UNCHANGED <<cwd, ofile, calls>>

WalkRefused(p) ==
  LET c == ctx[p] IN
  /\ At(p, "walk") /\ c.rest # <<>>
  /\ Locked(p).type # "free"
  /\ \/ ~Reads(Locked(p))
     \/ Reads(Locked(p)) /\ ~(WantsParent(c) /\ Len(c.rest) = 1)
          /\ Lookup(inode, c.ip, Head(c.rest)) = 0
  /\ NotFound(p, Put(inode, c.ip))
  /\ UNCHANGED <<cwd, ofile, calls>>

WalkToParent(p) ==
  /\ At(p, "walk") /\ Reads(Locked(p))
  /\ WantsParent(ctx[p]) /\ Len(ctx[p].rest) = 1
  /\ ctx' = [ctx EXCEPT ![p].at = "parent"]
  /\ UNCHANGED <<inode, cwd, ofile, panic, calls>>

\* The entry is held, the directory put.  Mutant: the directory is only unlocked.
TakenKept(t, d, i) == Get(t, i)
Taken(t, d, i) == Put(Get(t, i), d)

WalkOn(p) ==
  LET c == ctx[p]
      next == Lookup(inode, c.ip, Head(c.rest))
      t == Taken(inode, c.ip, next)
      link == Follows(c) /\ inode[next].type = "symlink" /\ Tail(c.rest) # <<>>
  IN
  /\ At(p, "walk") /\ c.rest # <<>> /\ Reads(Locked(p))
  /\ ~(WantsParent(c) /\ Len(c.rest) = 1)
  /\ next # 0
  /\ \/ Follows(c) /\ inode[next].type = "free" /\ Panics("ilock: no type")
     \/ /\ ~(Follows(c) /\ inode[next].type = "free") /\ ~link
        /\ inode' = t
        /\ ctx' = [ctx EXCEPT ![p].ip = next, ![p].rest = Tail(c.rest)]
        /\ UNCHANGED panic
     \/ link /\ c.nest = MaxNest /\ Panics("stack")
     \/ /\ link /\ c.nest < MaxNest
        /\ \E path \in Concatenated(p, inode[next].target, Tail(c.rest)) :
             Walk(p, Put(t, next), path, [c EXCEPT !.nest = @ + 1])
  /\ UNCHANGED <<cwd, ofile, calls>>

WalkEnds(p) ==
  LET c == ctx[p] IN
  /\ At(p, "walk") /\ c.rest = <<>>
  /\ IF WantsParent(c) THEN NotFound(p, Put(inode, c.ip))
     ELSE ctx' = [ctx EXCEPT ![p].at = "found"] /\ UNCHANGED <<inode, panic>>
  /\ UNCHANGED <<cwd, ofile, calls>>

-----------------------------------------------------------------------------
(* The calls, with the inode that namex() has found *)

Found(p, call) == At(p, "found") /\ ctx[p].call = call
Type(p) == Locked(p).type

\* ilock() reads an inode that nobody has allocated.
FoundPanics(p) ==
  /\ At(p, "found") /\ Type(p) = "free" /\ ctx[p].call # "symlink"
  /\ Panics("ilock: no type")
  /\ UNCHANGED <<cwd, ofile, calls>>

\* fdalloc() fails when the process has no descriptor left.
OpenFile(p, i) ==
  \/ ofile[p] = 0 /\ ofile' = [ofile EXCEPT ![p] = i] /\ Returns(p, inode)
  \/ ofile[p] # 0 /\ UNCHANGED ofile /\ Returns(p, Put(inode, i))

\* What is no link may be refused, by its type or by its mode; with O_NOACCESS
\* a link is opened itself, and nothing is refused for its mode.
sys_open(p) ==
  /\ Found(p, "open") /\ Type(p) # "free"
  /\ \/ OpenFile(p, ctx[p].ip)
     \/ Type(p) # "symlink" /\ UNCHANGED ofile /\ Returns(p, Put(inode, ctx[p].ip))
  /\ UNCHANGED <<cwd, calls>>

\* One link of follow_symlink(), which puts it before it looks for the target.
FollowLink(p) ==
  LET c == ctx[p]
      t == Put(inode, c.ip)
  IN
  /\ At(p, "found") /\ c.call \in {"open", "chmod", "readlink"} /\ Type(p) = "symlink"
  /\ LET next == [c EXCEPT !.stage = "target", !.depth = @ + 1, !.old = c.ip, !.ip = 0,
                           !.nest = 0] IN
     IF c.depth > MaxLinks \/ Locked(p).target = <<>>
     THEN IF c.call = "open" THEN Returns(p, t) ELSE Panics("iunlock")
     ELSE Walk(p, t, Locked(p).target, next)
  /\ UNCHANGED <<cwd, ofile, calls>>

Below(t, d) ==
  LET down[k \in 0..NINODES] ==
        IF k = 0 THEN {d}
        ELSE down[k - 1] \union
             ({t[e].names[n] : e \in down[k - 1], n \in Name} \ {0})
  IN down[NINODES]

sys_chmod(p) ==
  LET i == ctx[p].ip IN
  /\ Found(p, "chmod") /\ Type(p) \in {"file", "dir"}
  /\ \E set \in BOOLEAN, recursive \in BOOLEAN :
       LET refused == ctx[p].stage = "target" /\ recursive /\ Type(p) = "dir"
                        /\ ~Locked(p).readable
           changed == IF recursive THEN Below(inode, i) ELSE {i}
       IN Returns(p, Put(IF refused THEN inode
                         ELSE [j \in Inode |-> IF j \in changed
                                 THEN [inode[j] EXCEPT !.readable = set] ELSE inode[j]], i))
  /\ UNCHANGED <<cwd, ofile, calls>>

\* A path that is no link is refused.  Behind the last link there is something
\* else: the link is read again, without a lock and without a reference.
sys_readlink(p) ==
  LET c == ctx[p] IN
  /\ Found(p, "readlink") /\ Type(p) \in {"file", "dir"}
  /\ IF c.stage = "first" THEN Returns(p, Put(inode, c.ip))
     ELSE /\ inode' = Put(inode, c.ip)
          /\ ctx' = [ctx EXCEPT ![p] = [c EXCEPT !.at = "last", !.ip = 0]]
          /\ UNCHANGED panic
  /\ UNCHANGED <<cwd, ofile, calls>>

\* The cache may have given the entry to another inode.
ReadLast(p) ==
  LET i == ctx[p].old IN
  /\ At(p, "last")
  /\ \/ inode[i].type = "symlink" /\ Returns(p, inode)
     \/ (inode[i].type # "symlink" \/ inode[i].ref = 0) /\ Panics("iunlock")
  /\ UNCHANGED <<cwd, ofile, calls>>

sys_chdir(p) ==
  LET i == ctx[p].ip IN
  /\ Found(p, "chdir") /\ Type(p) # "free"
  /\ IF Type(p) = "dir"
     THEN cwd' = [cwd EXCEPT ![p] = i] /\ Returns(p, Put(inode, cwd[p]))
     ELSE UNCHANGED cwd /\ Returns(p, Put(inode, i))
  /\ UNCHANGED <<ofile, calls>>

\* Mutant: directories, too.
LinkableAny(i) == TRUE
Linkable(i) == inode[i].type # "dir"
Raised(t, i) == [t EXCEPT ![i].nlink = @ + 1]

\* link(): the first half, up to nameiparent(new).
LinkOld(p) ==
  LET c == ctx[p] IN
  /\ Found(p, "link") /\ Type(p) # "free"
  /\ \/ ~Linkable(c.ip) /\ Returns(p, Put(inode, c.ip))
     \/ /\ Linkable(c.ip)
        /\ \E path \in Paths :
             Walk(p, Raised(inode, c.ip), path,
                  [c EXCEPT !.stage = "new", !.old = c.ip])
  /\ UNCHANGED <<cwd, ofile, calls>>

\* symlink() on a path that exists: the reference that namei() returns is lost.
SymlinkExists(p) ==
  /\ Found(p, "symlink")
  /\ Returns(p, [inode EXCEPT ![ctx[p].ip].leaked = @ + 1])
  /\ UNCHANGED <<cwd, ofile, calls>>

-----------------------------------------------------------------------------
(* The calls, with the directory that nameiparent() has found *)

Parent(p, call) == At(p, "parent") /\ ctx[p].call = call
LastName(p) == Head(ctx[p].rest)
Entry(p) == Lookup(inode, ctx[p].ip, LastName(p))

Linked(t, d, n, i) == [t EXCEPT ![d].names[n] = i]

\* link(): the second half.
LinkNew(p) ==
  LET c == ctx[p] IN
  /\ Parent(p, "link")
  /\ IF Entry(p) # 0
     THEN Returns(p, Put(Undone(Put(inode, c.ip), c.old), c.old))
     ELSE Returns(p, Put(Put(Linked(inode, c.ip, LastName(p), c.old), c.ip), c.old))
  /\ UNCHANGED <<cwd, ofile, calls>>

Empty(d) == inode[d].names = NoNames
Removable(i) == inode[i].type = "dir" => Empty(i)

Unlinked(t, d, i) ==
  LET u == [t EXCEPT ![i].nlink = @ - 1]
  IN IF t[i].type = "dir" THEN [u EXCEPT ![d].nlink = @ - 1] ELSE u

sys_unlink(p) ==
  LET d == ctx[p].ip
      i == Entry(p)
  IN
  /\ Parent(p, "unlink")
  /\ IF LastName(p) \notin Name \/ i = 0 THEN Returns(p, Put(inode, d))
     ELSE IF inode[i].nlink < 1 THEN Panics("unlink: nlink < 1")
     ELSE IF ~Removable(i) THEN Returns(p, Put(inode, d))
     ELSE LET t == Unlinked(Linked(inode, d, LastName(p), 0), d, i)
          IN Returns(p, Put(Put(Get(t, i), d), i))
  /\ UNCHANGED <<cwd, ofile, calls>>

\* create(): a new inode of the type under the name.
Created(d, n, i, type, target) ==
  LET t == [inode EXCEPT ![i].type = type, ![i].nlink = 1, ![i].readable = TRUE,
                         ![i].target = target, ![i].ref = @ + 1,
                         ![i].up = IF type = "dir" THEN d ELSE 0,
                         ![d].nlink = IF type = "dir" THEN @ + 1 ELSE @]
  IN Put(Linked(t, d, n, i), d)

Exists(p) == Entry(p) # 0 /\ inode[Entry(p)].type # "free"
Absent(p) == Entry(p) = 0

\* create() locks what it finds: ".." may be the name of a freed directory.  And
\* ialloc() may find no inode.
CreatePanics(p) ==
  /\ At(p, "parent") /\ ctx[p].call \in {"create", "mkdir", "symlink"}
  /\ \/ ~Exists(p) /\ ~Absent(p) /\ Panics("ilock: no type")
     \/ Absent(p) /\ Unallocated = {} /\ Panics("ialloc: no inodes")
  /\ UNCHANGED <<cwd, ofile, calls>>

\* open() with O_CREATE.
sys_create(p) ==
  LET d == ctx[p].ip IN
  /\ Parent(p, "create")
  /\ \/ /\ Exists(p)
        /\ LET t == Taken(inode, d, Entry(p)) IN
           IF inode[Entry(p)].type = "file" /\ ofile[p] = 0
           THEN ofile' = [ofile EXCEPT ![p] = Entry(p)] /\ Returns(p, t)
           ELSE UNCHANGED ofile /\ Returns(p, Put(t, Entry(p)))
     \/ /\ Absent(p) /\ Unallocated # {}
        /\ LET t == Created(d, LastName(p), NewInode, "file", <<>>) IN
           IF ofile[p] = 0
           THEN ofile' = [ofile EXCEPT ![p] = NewInode] /\ Returns(p, t)
           ELSE UNCHANGED ofile /\ Returns(p, Put(t, NewInode))
  /\ UNCHANGED <<cwd, calls>>

\* mkdir() and the second half of symlink().
Make(p, call, type, target) ==
  LET d == ctx[p].ip IN
  /\ Parent(p, call)
  /\ \/ Exists(p) /\ Returns(p, Put(Taken(inode, d, Entry(p)), Entry(p)))
     \/ /\ Absent(p) /\ Unallocated # {}
        /\ Returns(p, Put(Created(d, LastName(p), NewInode, type, target), NewInode))
  /\ UNCHANGED <<cwd, ofile, calls>>

sys_mkdir(p) == Make(p, "mkdir", "dir", <<>>)
sys_symlink(p) == \E target \in Targets : Make(p, "symlink", "symlink", target)

sys_close(p) ==
  /\ Running /\ ctx[p] = Idle /\ ofile[p] # 0
  /\ inode' = Put(inode, ofile[p])
  /\ ofile' = [ofile EXCEPT ![p] = 0]
  /\ UNCHANGED <<cwd, ctx, panic, calls>>

-----------------------------------------------------------------------------
Next ==
  \E p \in Proc :
    \/ Running /\ Enter(p)
    \/ WalkPanics(p) \/ WalkRefused(p) \/ WalkToParent(p) \/ WalkOn(p) \/ WalkEnds(p)
    \/ RestOverwritten(p)
    \/ FoundPanics(p) \/ sys_open(p) \/ FollowLink(p) \/ sys_chmod(p)
    \/ sys_readlink(p) \/ ReadLast(p) \/ sys_chdir(p) \/ LinkOld(p) \/ SymlinkExists(p)
    \/ LinkNew(p) \/ sys_unlink(p) \/ CreatePanics(p) \/ sys_create(p) \/ sys_mkdir(p)
    \/ sys_symlink(p) \/ sys_close(p)

Spec == Init /\ [][Next]_vars

-----------------------------------------------------------------------------
(* Properties *)

Allocated(i) == inode[i].type # "free"

TypeOK ==
  /\ inode \in [Inode -> [type : {"free", "file", "dir", "symlink"}, nlink : Nat, ref : Nat,
                          up : Inode \union {0}, names : [Name -> Inode \union {0}],
                          target : Targets \union {<<>>}, readable : BOOLEAN,
                          lost : BOOLEAN, leaked : Nat]]
  /\ cwd \in [Proc -> Inode] /\ ofile \in [Proc -> Inode \union {0}]

NamesOf(i) == {d \in Inode \X Name : inode[d[1]].names[d[2]] = i}
Subdirs(i) == {d \in Inode : inode[d].type = "dir" /\ inode[d].up = i /\ NamesOf(d) # {}}
\* link() has counted the name that it is about to write.
Announced(i) == {p \in Proc : ctx[p].stage = "new" /\ ctx[p].old = i}

\* nlink is the number of names, the root's and the ".." of subdirectories included,
\* unless a directory was freed with a name in it; unlink() never finds it at 0.
LinksExact ==
  /\ \A i \in Inode : Allocated(i) /\ ~inode[i].lost =>
       inode[i].nlink = Cardinality(NamesOf(i)) + Cardinality(Subdirs(i) \ {i})
                          + Cardinality(Announced(i)) + (IF i = ROOTINO THEN 1 ELSE 0)
  /\ panic # "unlink: nlink < 1"

\* ref is the number of pointers to the inode that the kernel still has, and of the
\* references that sys_symlink() has lost the pointers of.
RefExact ==
  \A i \in Inode :
    inode[i].ref = Cardinality({p \in Proc : cwd[p] = i}) + Cardinality({p \in Proc : ofile[p] = i})
                     + Cardinality({p \in Proc : ctx[p].ip = i})
                     + Cardinality(Announced(i)) + inode[i].leaked

\* What has a name or is open or somebody's directory is allocated.  What is
\* allocated has a name or a reference, except for an inode whose name went with a
\* directory that was freed, and for a removed directory in which mkdir() has made
\* another one, which counts as a link to it.
FreedInTime ==
  /\ TypeOK
  /\ \A i \in Inode :
       /\ (NamesOf(i) # {} \/ \E p \in Proc : i \in {cwd[p], ofile[p]}) => Allocated(i)
       /\ Allocated(i) /\ inode[i].ref = 0 =>
            \/ NamesOf(i) # {} \/ i = ROOTINO
            \/ inode[i].lost \/ Subdirs(i) # {}

\* A directory has one name, in the directory that its ".." is.
OneParent ==
  \A d \in Inode : inode[d].type = "dir" =>
    \A e, f \in NamesOf(d) : e = f /\ e[1] = inode[d].up
=============================================================================
