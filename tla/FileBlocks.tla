----------------------------- MODULE FileBlocks -----------------------------
(***************************************************************************)
(* The blocks of files (mp4/kernel/fs.c: balloc, bfree, bmap, itrunc,      *)
(* readi, writei; file.c: fileread, filewrite; sys_get_disk_lbn).          *)
(*                                                                         *)
(* A file's inode is locked through each step; filewrite() gives it up     *)
(* between two chunks.  A byte of the model is what several bytes of a     *)
(* block are in the code, and the bytes of one chunk are equal.            *)
(* What a step logs is in its buffer until it is on the disk; what it puts *)
(* into a buffer without logging it is lost when the buffer is recycled.   *)
(***************************************************************************)
EXTENDS Integers, Sequences

CONSTANTS
  Writer,
  Inum,          \* inodes
  File,          \* open files (struct file), shared by all processes
  InodeOf,       \* the inode of each
  Byte, Zero,    \* Zero is what bzero() writes
  BSIZE, NDIRECT, NINDIRECT,
  NBLOCKS,       \* bound: data blocks of the disk
  MaxChunk,      \* max of filewrite(), in bytes
  MaxBytes,      \* bound: bytes of one call
  MaxCalls       \* bound: calls in a behaviour, reads not counted

ASSUME BlocksAssumption ==
  /\ InodeOf \in [File -> Inum] /\ Zero \in Byte
  /\ {BSIZE, NDIRECT, NINDIRECT, NBLOCKS, MaxChunk, MaxBytes, MaxCalls} \subseteq Nat \ {0}

Block == 1..NBLOCKS
MAXFILE == NDIRECT + NINDIRECT

VARIABLES
  used,           \* the bitmap
  data, ptr,      \* a block's bytes, and its addresses if it is an indirect block
  kept,           \* a block's bytes as they were last logged
  addrs, size,    \* per inode: ip->addrs and ip->size, in the inode cache
  daddrs,         \* and dip->addrs, as iupdate() left them
  off,            \* per open file
  ctx,            \* per writer: the write it is in
  panic,
  byLbn,          \* history: the blocks that get_disk_lbn() has allocated
  fault,          \* history: the last chunk to be written stopped at a failing copyin()
  calls

disk == <<used, data, ptr>>
logVars == <<kept, fault>>
blockVars == <<disk, logVars, addrs, size, daddrs, off, ctx, panic, byLbn, calls>>

NoBytes == [o \in 0..BSIZE - 1 |-> Zero]
NoPtrs  == [k \in 0..NINDIRECT - 1 |-> 0]
NoAddrs == [k \in 0..NDIRECT |-> 0]
Idle == [file |-> "none", left |-> 0]

BlocksInit ==
  /\ used = {}
  /\ data = [b \in Block |-> NoBytes] /\ kept = data /\ fault = FALSE
  /\ ptr = [b \in Block |-> NoPtrs]
  /\ addrs = [i \in Inum |-> NoAddrs] /\ daddrs = addrs
  /\ size = [i \in Inum |-> 0]
  /\ off = [f \in File |-> 0]
  /\ ctx = [p \in Writer |-> Idle]
  /\ panic = "none" /\ byLbn = {} /\ calls = 0

-----------------------------------------------------------------------------
(* balloc() and bmap(), on the state d of the disk and one inode's addresses *)

Disk(i) == [used |-> used, data |-> data, ptr |-> ptr, addrs |-> addrs[i], new |-> 0,
            panic |-> panic]

\* Mutant: bzero() is left out.
NotZeroed(d, b) == [d EXCEPT !.used = @ \union {b}, !.new = b]
Zeroed(d, b) == [d EXCEPT !.used = @ \union {b}, !.new = b,
                          !.data[b] = NoBytes, !.ptr[b] = NoPtrs]

balloc(d) ==
  IF d.used = Block THEN [d EXCEPT !.panic = "balloc: out of blocks"]
  ELSE Zeroed(d, CHOOSE b \in Block \ d.used : \A c \in Block \ d.used : b <= c)

\* The address of block bn of the file, 0 if it has none.
Mapped(d, bn) ==
  IF bn < NDIRECT THEN d.addrs[bn]
  ELSE IF d.addrs[NDIRECT] = 0 THEN 0 ELSE d.ptr[d.addrs[NDIRECT]][bn - NDIRECT]

InAddrs(d, k) ==
  IF d.addrs[k] # 0 \/ d.panic # "none" THEN d
  ELSE LET e == balloc(d) IN IF e.panic # "none" THEN e ELSE [e EXCEPT !.addrs[k] = e.new]

InIndirect(d, k) ==
  LET b == d.addrs[NDIRECT] IN
  IF d.panic # "none" \/ d.ptr[b][k] # 0 THEN d
  ELSE LET e == balloc(d) IN IF e.panic # "none" THEN e ELSE [e EXCEPT !.ptr[b][k] = e.new]

bmap(d, bn) ==
  IF bn < NDIRECT THEN InAddrs(d, bn)
  ELSE IF bn < MAXFILE
       THEN LET e == InAddrs(d, NDIRECT)
            IN IF e.panic # "none" THEN e ELSE InIndirect(e, bn - NDIRECT)
  ELSE [d EXCEPT !.panic = "bmap: out of range"]

\* The blocks first to last, one after the other.
bmapAll(d, first, last) ==
  LET after[n \in 0..last - first + 1] ==
        IF n = 0 THEN d ELSE bmap(after[n - 1], first + n - 1)
  IN after[last - first + 1]

Running == panic = "none"
Counted == calls < MaxCalls /\ calls' = calls + 1

\* The step ends with the disk and the inode as in d, or in its panic.
Leaves(i, d) ==
  /\ panic' = d.panic
  /\ IF d.panic = "none"
     THEN used' = d.used /\ data' = d.data /\ ptr' = d.ptr /\ addrs' = [addrs EXCEPT ![i] = d.addrs]
     ELSE UNCHANGED <<disk, addrs>>

\* log_write() of the blocks bs, and of the new ones, which bzero() logs.
Logs(bs) ==
  IF panic' # "none" THEN UNCHANGED kept
  ELSE kept' = [b \in Block |-> IF b \in bs \union (used' \ used) THEN data'[b] ELSE kept[b]]

-----------------------------------------------------------------------------
(* writei() and filewrite() *)

Larger(m, n) == IF m > n THEN m ELSE n

\* writei() copies done of n bytes to offset at, all the same; copyin() fails in
\* the block of the next one if done < n.  What d has is mapped.
Copied(d, at, done, c) ==
  [d EXCEPT !.data =
     [b \in Block |-> [o \in 0..BSIZE - 1 |->
        IF \E k \in at..at + done - 1 : Mapped(d, k \div BSIZE) = b /\ k % BSIZE = o
        THEN c ELSE d.data[b][o]]]]

\* The offset writei() ends with: a block whose copy failed does not count.
\* Mutant: it counts, with all that follows.
ReachedAnyway(at, n, done) == at + n
Reached(at, n, done) ==
  IF done = n THEN at + n ELSE Larger(at, ((at + done) \div BSIZE) * BSIZE)

\* The blocks that writei() has logged when it ends with the offset end.
\* Mutant: a block that is not written to its end is not logged.
FullBlocks(d, at, end) ==
  {Mapped(d, k \div BSIZE) : k \in {m \in at..end - 1 : (m + 1) % BSIZE = 0}}
LoggedBlocks(d, at, end) == {Mapped(d, k \div BSIZE) : k \in at..end - 1}

filewrite(p, f) ==
  /\ Running /\ ctx[p] = Idle /\ Counted
  /\ \E n \in 1..MaxBytes : ctx' = [ctx EXCEPT ![p] = [file |-> f, left |-> n]]
  /\ UNCHANGED <<disk, logVars, addrs, size, daddrs, off, panic, byLbn>>

Chunk(p) == IF ctx[p].left > MaxChunk THEN MaxChunk ELSE ctx[p].left

Fits(i, at, n) == at <= size[i] /\ at + n <= MAXFILE * BSIZE

Writing(p) == Running /\ ctx[p] # Idle

WriteRefused(p) ==
  LET f == ctx[p].file IN
  /\ Writing(p) /\ ~Fits(InodeOf[f], off[f], Chunk(p))
  /\ ctx' = [ctx EXCEPT ![p] = Idle]
  /\ UNCHANGED <<disk, logVars, addrs, size, daddrs, off, panic, byLbn, calls>>

\* The block whose copy fails has what was copied, unlogVars, unless it is in the open
\* transaction already.
writei(p) ==
  LET f == ctx[p].file
      i == InodeOf[f]
      n == Chunk(p)
      at == off[f]
  IN
  /\ Writing(p) /\ Fits(i, at, n)
  /\ \E done \in 0..n, c \in Byte, already \in BOOLEAN :
       LET last == IF done = n THEN at + n - 1 ELSE at + done
           d == bmapAll(Disk(i), at \div BSIZE, last \div BSIZE)
       IN /\ Leaves(i, IF d.panic = "none" THEN Copied(d, at, done, c) ELSE d)
          /\ Logs(LoggedBlocks(d, at, Reached(at, n, done)) \union
                  IF already THEN {Mapped(d, last \div BSIZE)} ELSE {})
          /\ IF d.panic # "none" THEN UNCHANGED <<size, daddrs, off, ctx, fault>>
             ELSE /\ fault' = (done < n)
                  /\ size' = [size EXCEPT ![i] = Larger(@, Reached(at, n, done))]
                  /\ daddrs' = [daddrs EXCEPT ![i] = addrs'[i]]
                  /\ off' = [off EXCEPT ![f] = @ + n]
                  /\ ctx' = [ctx EXCEPT ![p] = IF @.left = n THEN Idle
                                               ELSE [file |-> f, left |-> @.left - n]]
  /\ UNCHANGED <<byLbn, calls>>

\* fileread() of some bytes: bmap() allocates nothing below the size.
fileread(f) ==
  LET i == InodeOf[f] IN
  /\ Running /\ off[f] < size[i]
  /\ \E n \in 1..MaxBytes :
       LET end == IF off[f] + n > size[i] THEN size[i] ELSE off[f] + n
           d == bmapAll(Disk(i), off[f] \div BSIZE, (end - 1) \div BSIZE)
       IN /\ IF d = Disk(i) THEN UNCHANGED <<disk, addrs, panic>>
             ELSE panic' = "log_write outside of trans" /\ UNCHANGED <<disk, addrs>>
          /\ off' = [off EXCEPT ![f] = end]
  /\ UNCHANGED <<logVars, size, daddrs, ctx, byLbn, calls>>

-----------------------------------------------------------------------------
(* open() with O_TRUNC, and the last close() followed by an open() *)

InMap(d) == ({Mapped(d, bn) : bn \in 0..MAXFILE - 1} \union {d.addrs[NDIRECT]}) \ {0}

\* What a freed block holds nobody reads before bzero(), its addresses excepted.
itrunc(i) ==
  /\ Running /\ Counted
  /\ used' = used \ InMap(Disk(i))
  /\ panic' = IF InMap(Disk(i)) \subseteq used THEN "none" ELSE "freeing free block"
  /\ addrs' = [addrs EXCEPT ![i] = NoAddrs]
  /\ daddrs' = [daddrs EXCEPT ![i] = NoAddrs]
  /\ size' = [size EXCEPT ![i] = 0]
  /\ data' = [b \in Block |-> IF b \in InMap(Disk(i)) THEN NoBytes ELSE data[b]]
  /\ kept' = [b \in Block |-> IF b \in InMap(Disk(i)) THEN NoBytes ELSE kept[b]]
  /\ UNCHANGED <<ptr, fault, off, ctx, byLbn>>

\* No process is in a write of the file; the entry of the inode cache was recycled.
Reopen(i) ==
  /\ Running /\ Counted
  /\ \A p \in Writer : ctx[p] # Idle => InodeOf[ctx[p].file] # i
  /\ addrs' = [addrs EXCEPT ![i] = daddrs[i]]
  /\ off' = [f \in File |-> IF InodeOf[f] = i THEN 0 ELSE off[f]]
  /\ UNCHANGED <<disk, logVars, size, daddrs, ctx, panic, byLbn>>

\* bget() takes the buffer of a block for another one; what was never logged is gone.
Recycle(b) ==
  /\ Running /\ data[b] # kept[b]
  /\ data' = [data EXCEPT ![b] = kept[b]]
  /\ UNCHANGED <<used, ptr, logVars, addrs, size, daddrs, off, ctx, panic, byLbn, calls>>

-----------------------------------------------------------------------------
\* get_disk_lbn(): bmap() outside a transaction and without iupdate().  What it
\* allocates joins the transaction of another call, if there is one.
sys_get_disk_lbn(f) ==
  LET i == InodeOf[f] IN
  /\ Running /\ Counted
  /\ \E bn \in 0..MAXFILE :
       LET d == bmap(Disk(i), bn) IN
       /\ byLbn' = byLbn \union (d.used \ used)
       /\ \/ d.panic = "none" /\ d # Disk(i) /\ panic' = "log_write outside of trans"
             /\ UNCHANGED <<disk, addrs>>
          \/ Leaves(i, d)
  /\ Logs({})
  /\ UNCHANGED <<fault, size, daddrs, off, ctx>>

BlocksNext ==
  \/ \E p \in Writer : (\E f \in File : filewrite(p, f)) \/ WriteRefused(p) \/ writei(p)
  \/ \E f \in File : fileread(f) \/ sys_get_disk_lbn(f)
  \/ \E i \in Inum : itrunc(i) \/ Reopen(i)
  \/ \E b \in Block : Recycle(b)

BlocksSpec == BlocksInit /\ [][BlocksNext]_blockVars

-----------------------------------------------------------------------------
(* Properties *)

BlocksTypeOK ==
  /\ used \subseteq Block /\ byLbn \subseteq Block
  /\ data \in [Block -> [0..BSIZE - 1 -> Byte]] /\ kept \in [Block -> [0..BSIZE - 1 -> Byte]]
  /\ ptr \in [Block -> [0..NINDIRECT - 1 -> Block \union {0}]]
  /\ addrs \in [Inum -> [0..NDIRECT -> Block \union {0}]]
  /\ size \in [Inum -> 0..MAXFILE * BSIZE]

\* The bytes of the files in the blocks bytes.
FilesIn(bytes) ==
  [i \in Inum |->
     LET d == Disk(i)
     IN [k \in 1..size[i] |->
           LET b == Mapped(d, (k - 1) \div BSIZE)
           IN IF b = 0 THEN "hole" ELSE bytes[b][(k - 1) % BSIZE]]]
Content == FilesIn(data)      \* as readi() finds them
KeptContent == FilesIn(kept)  \* as they stay

\* Writes, truncations, and the eviction of inodes and of blocks act on files as on
\* sequences of bytes; all that a write has copied stays, the bytes excepted that it put
\* into the block whose copy failed.
BF == INSTANCE ByteFiles WITH content <- Content, kept <- KeptContent, failed <- fault,
                              File <- Inum
IsFile == BF!Spec

\* Where an inode refers to a block.
PlacesOf(i) == {<<i, "addr", k>> : k \in {j \in 0..NDIRECT : addrs[i][j] # 0}} \union
             (IF addrs[i][NDIRECT] = 0 THEN {}
              ELSE {<<i, "ptr", k>> : k \in {j \in 0..NINDIRECT - 1 :
                                               ptr[addrs[i][NDIRECT]][j] # 0}})
BlockAt(x) == IF x[2] = "addr" THEN addrs[x[1]][x[3]] ELSE ptr[addrs[x[1]][NDIRECT]][x[3]]

\* A block is marked used if and only if a file has it, in one place; a block that
\* get_disk_lbn() allocated may be forgotten with the cached inode, and stays used.
BitmapExact ==
  LET places == UNION {PlacesOf(i) : i \in Inum} IN
  /\ BlocksTypeOK
  /\ {BlockAt(x) : x \in places} \subseteq used
  /\ used \subseteq {BlockAt(x) : x \in places} \union byLbn
  /\ \A x, y \in places : BlockAt(x) = BlockAt(y) => x = y

\* A read runs outside a transaction and allocates nothing: below the size of a
\* file there is no hole, whatever was written, cut off or only partly copied.
ReadsNeverAllocate ==
  [][\A f \in File : fileread(f) => panic' = "none"]_blockVars
=============================================================================
