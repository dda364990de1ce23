------------------------------ MODULE FileMap -------------------------------
(* The content of files: the image mkfs makes (mkfs/mkfs.c), and bmap,     *)
(* readi, writei and itrunc on it (kernel/fs.c), which run under the lock  *)
(* of the inode (Fs has the locking, Log the crashes).                     *)
(*                                                                         *)
(* A block is BSIZE cells, and a cell holds a byte, a directory entry (the *)
(* inode number of it) or, in an indirect block, a block number.  Blocks   *)
(* below nmeta are the boot block, the super block, the log, the inodes    *)
(* and the bitmap.                                                         *)
EXTENDS Integers, Sequences, SequencesExt, FiniteSets, FiniteSetsExt, Functions

CONSTANTS BSIZE, NDIRECT,
          FSSIZE,     \* blocks of the disk
          nmeta,
          UINT,       \* one more than the largest uint
          NINODES,
          Bytes,      \* that files are made of
          Writes,     \* the n of a write
          MaxOps      \* bound on the appends of mkfs and the calls of the kernel

NINDIRECT == BSIZE
MAXFILE   == NDIRECT + NINDIRECT
Offsets   == 0..(MAXFILE * BSIZE)

ASSUME FileMapAssumption ==
  /\ {BSIZE, NDIRECT, nmeta} \subseteq Nat \ {0} /\ nmeta < FSSIZE
  /\ MAXFILE * BSIZE < UINT /\ FSSIZE <= UINT /\ Writes \subseteq 0..(UINT - 1)
  /\ 0 \notin Bytes /\ MaxOps \in Nat

VARIABLES
  fs,         \* the disk: data of the blocks, bitmap, inodes (size and addrs), panic
  making,     \* mkfs is at work
  freeblock,  \* mkfs's next block
  file,       \* history: the content each file should have
  nops        \* the operations so far

fmvars == <<fs, making, freeblock, file, nops>>

ROOTINO == 1
Zeroes  == [c \in 0..(BSIZE - 1) |-> 0]
NoAddrs == [a \in 0..NDIRECT |-> 0]
Blocks  == 0..(FSSIZE - 1)
Inums   == DOMAIN file

Put(k, b, cell, v) == [k EXCEPT !.data[b][cell] = v]

(* The loops of iappend, readi and writei go over the blocks of a range.   *)
BlocksOf(off, n) ==
  IF n = 0 THEN <<>> ELSE [j \in 1..((off + n - 1) \div BSIZE - off \div BSIZE + 1) |-> off \div BSIZE + j - 1]

Min2(a, b) == IF a < b THEN a ELSE b

(* Copy m bytes v to the block b from byte off of the file.                *)
memmove(k, b, off, m, v) ==
  LET at == off % BSIZE
  IN [k EXCEPT !.data[b] = [c \in DOMAIN @ |-> IF c \in at..(at + m - 1) THEN v ELSE @[c]]]

FileMapTypeOK ==
  /\ fs.data \in [Blocks -> [0..(BSIZE - 1) -> Nat]] /\ fs.used \subseteq Blocks
  /\ making \in BOOLEAN /\ freeblock \in nmeta..FSSIZE
  /\ \A i \in Inums : fs.inode[i].size \in Offsets /\ fs.inode[i].addrs \in [0..NDIRECT -> Blocks]

-----------------------------------------------------------------------------
(* mkfs.  Its record m is the disk, the next free block, and where it is.  *)
Fresh(m, slot) == \* din.addrs[slot] = freeblock++ if it is 0
  IF m.din.addrs[slot] # 0 THEN m ELSE [m EXCEPT !.din.addrs[slot] = m.next, !.next = @ + 1]

iappend_block(m, fbn, n, v) ==
  LET d  == Fresh(m, Min2(fbn, NDIRECT))
      ib == d.din.addrs[NDIRECT]
      e  == IF fbn < NDIRECT \/ d.k.data[ib][fbn - NDIRECT] # 0 THEN d
            ELSE [d EXCEPT !.k = Put(@, ib, fbn - NDIRECT, d.next), !.next = @ + 1]
      x  == IF fbn < NDIRECT THEN e.din.addrs[fbn] ELSE e.k.data[ib][fbn - NDIRECT]
      n1 == Min2(n - m.tot, (fbn + 1) * BSIZE - m.off)
  IN [e EXCEPT !.k = memmove(@, x, m.off, n1, v), !.off = @ + n1, !.tot = @ + n1]

iappend(k, next, inum, n, v) ==
  LET din == k.inode[inum]
      m == FoldLeft(LAMBDA r, fbn : iappend_block(r, fbn, n, v),
                    [k |-> k, next |-> next, din |-> din, off |-> din.size, tot |-> 0],
                    BlocksOf(din.size, n))
  IN [k |-> [m.k EXCEPT !.inode[inum] = [m.din EXCEPT !.size = m.off]], next |-> m.next]

(* mkfs can go on if there is room in the file and on the disk.            *)
Fits(k, inum, n, next) ==
  (k.inode[inum].size + n - 1) \div BSIZE < MAXFILE /\ next + n + 1 < FSSIZE

(* An image with the root directory and its entries . and .. in it.        *)
FileMapInit ==
  LET blank == [data |-> [b \in Blocks |-> Zeroes], used |-> {}, panic |-> FALSE,
                inode |-> <<[size |-> 0, addrs |-> NoAddrs]>>]
      r == iappend(blank, nmeta, ROOTINO, 2, ROOTINO)
  IN fs = r.k /\ freeblock = r.next /\ making = TRUE /\ file = <<<<ROOTINO, ROOTINO>>>> /\ nops = 0

(* main's loop: ialloc, an entry in the root, then the content piecewise.  *)
mkfs_file ==
  LET inum == Len(file) + 1
      r == iappend([fs EXCEPT !.inode = Append(@, [size |-> 0, addrs |-> NoAddrs])],
                   freeblock, ROOTINO, 1, inum)
  IN /\ making /\ inum <= NINODES /\ Fits(fs, ROOTINO, 1, freeblock)
     /\ fs' = r.k /\ freeblock' = r.next
     /\ file' = Append([file EXCEPT ![ROOTINO] = Append(@, inum)], <<>>)
     /\ UNCHANGED making

mkfs_content(n, v) ==
  LET inum == Len(file)
      r == iappend(fs, freeblock, inum, n, v)
  IN /\ making /\ inum > ROOTINO /\ Fits(fs, inum, n, freeblock)
     /\ fs' = r.k /\ freeblock' = r.next
     /\ file' = [file EXCEPT ![inum] = @ \o [j \in 1..n |-> v]]
     /\ UNCHANGED making

(* mkfs's balloc, at its end.                                              *)
Allocated(used) == 0..(used - 1)

(* main rounds the size of the root up to blocks, and always adds some: it *)
(* is taken not to be at a block's end (see the README).                   *)
mkfs_done ==
  LET size == fs.inode[ROOTINO].size
      off  == (size \div BSIZE + 1) * BSIZE
  IN /\ making /\ size % BSIZE # 0
     /\ making' = FALSE
     /\ fs' = [fs EXCEPT !.inode[ROOTINO].size = off, !.used = Allocated(freeblock)]
     /\ file' = [file EXCEPT ![ROOTINO] = @ \o [j \in 1..(off - size) |-> 0]]
     /\ UNCHANGED freeblock

-----------------------------------------------------------------------------
bzero(k, b) == [k EXCEPT !.data[b] = Zeroes]

(* The kernel's balloc: the first free block, zeroed.                      *)
FreeBlocks(k) == Blocks \ k.used
BlockOf(k)    == IF FreeBlocks(k) = {} THEN 0 ELSE Min(FreeBlocks(k))
balloc(k)     == IF FreeBlocks(k) = {} THEN [k EXCEPT !.panic = TRUE]
                 ELSE bzero([k EXCEPT !.used = @ \cup {BlockOf(k)}], BlockOf(k))

(* bmap: the disk after it, and the address.                               *)
bmap_addr(k, i, slot) ==
  IF k.inode[i].addrs[slot] # 0 THEN k ELSE [balloc(k) EXCEPT !.inode[i].addrs[slot] = BlockOf(k)]

bmap(k, i, bn) ==
  LET d  == bmap_addr(k, i, Min2(bn, NDIRECT))
      ib == d.inode[i].addrs[NDIRECT]
      e  == IF d.panic \/ d.data[ib][bn - NDIRECT] # 0 THEN d
            ELSE Put(balloc(d), ib, bn - NDIRECT, BlockOf(d))
  IN IF bn < NDIRECT THEN [k |-> d, addr |-> d.inode[i].addrs[bn]]
     ELSE IF bn - NDIRECT < NINDIRECT THEN [k |-> e, addr |-> e.data[ib][bn - NDIRECT]]
     ELSE [k |-> [k EXCEPT !.panic = TRUE], addr |-> 0]

(* readi: what it copies out; it finds every block there.                  *)
readi(k, i, off, n0) ==
  LET size == k.inode[i].size
      n == IF off + n0 > size THEN size - off ELSE n0
      r == FoldLeft(LAMBDA x, bn :
                      LET b == bmap(x.k, i, bn)
                          m == Min2(n - Len(x.got), BSIZE - ((off + Len(x.got)) % BSIZE))
                          at == (off + Len(x.got)) % BSIZE
                      IN [k |-> b.k, got |-> x.got \o [j \in 1..m |-> b.k.data[b.addr][at + j - 1]]],
                    [k |-> k, got |-> <<>>], BlocksOf(off, n))
  IN IF off > size \/ (off + n0) % UINT < off THEN [k |-> k, got |-> <<>>] ELSE r


TooLong(k, i, off, n) ==
  \/ off > k.inode[i].size \/ (off + n) % UINT < off
  \/ (off + n) % UINT > MAXFILE * BSIZE

(* writei of n bytes v; either_copyin fails after the given blocks.        *)
writei_loop(k, i, off, n, v, copied) ==
  FoldLeft(LAMBDA x, bn :
             LET b == bmap(x.k, i, bn)
                 m == Min2(n - x.tot, BSIZE - ((off + x.tot) % BSIZE))
             IN IF x.broke \/ x.k.panic THEN x
                ELSE IF b.k.panic \/ x.blocks = copied THEN [x EXCEPT !.k = b.k, !.broke = TRUE]
                ELSE [x EXCEPT !.k = memmove(b.k, b.addr, off + x.tot, m, v),
                               !.tot = @ + m, !.blocks = @ + 1],
           [k |-> k, tot |-> 0, blocks |-> 0, broke |-> FALSE], BlocksOf(off, n))

Ready(i) == ~making /\ ~fs.panic /\ i \in Inums /\ i # ROOTINO

writei(i, off, n, v, copied) ==
  LET r == writei_loop(fs, i, off, n, v, copied)
      size == IF off + r.tot > fs.inode[i].size THEN off + r.tot ELSE fs.inode[i].size
      old(j) == IF j <= Len(file[i]) THEN file[i][j] ELSE v
  IN /\ Ready(i) /\ ~TooLong(fs, i, off, n)
     /\ fs' = [r.k EXCEPT !.inode[i].size = size]
     /\ file' = [file EXCEPT ![i] = [j \in 1..size |-> IF j \in (off + 1)..(off + r.tot) THEN v ELSE old(j)]]
     /\ UNCHANGED <<making, freeblock>>

(* bfree panics on a block that is free.                                   *)
bfree(k, b) == [k EXCEPT !.used = @ \ {b}, !.panic = @ \/ b \notin k.used]

(* Mutant of Indirect: the blocks it lists are not freed.                  *)
Indirect_lost(k, b) == IF b = 0 THEN {} ELSE {b}

(* What itrunc frees for addrs[NDIRECT].                                   *)
Indirect(k, b) == IF b = 0 THEN {} ELSE (Range(k.data[b]) \ {0}) \cup {b}

itrunc(i) ==
  LET addrs == fs.inode[i].addrs
      direct == {addrs[a] : a \in 0..(NDIRECT - 1)} \ {0}
      freed == FoldSet(LAMBDA b, k : bfree(k, b), fs, direct \cup Indirect(fs, addrs[NDIRECT]))
  IN /\ Ready(i)
     /\ fs' = [freed EXCEPT !.inode[i] = [size |-> 0, addrs |-> NoAddrs]]
     /\ file' = [file EXCEPT ![i] = <<>>]
     /\ UNCHANGED <<making, freeblock>>

Op == nops < MaxOps /\ nops' = nops + 1

FileMapNext ==
  \/ (mkfs_file \/ mkfs_done) /\ UNCHANGED nops
  \/ \E n \in 1..BSIZE, v \in Bytes : mkfs_content(n, v) /\ Op
  \/ \E i \in Inums :
       \/ itrunc(i) /\ Op
       \/ \E n \in Writes, v \in Bytes, off \in Offsets, copied \in 0..MAXFILE :
            /\ copied <= Len(BlocksOf(off, n)) \/ copied = MAXFILE
            /\ writei(i, off, n, v, copied) /\ Op

-----------------------------------------------------------------------------

(* The blocks of a file, the indirect one included, with their place.      *)
Places(i) ==
  LET addrs == fs.inode[i].addrs
      ind == addrs[NDIRECT]
  IN {<<i, a>> : a \in {a \in 0..NDIRECT : addrs[a] # 0}}
     \cup (IF ind = 0 THEN {} ELSE {<<i, NDIRECT + 1 + a>> : a \in {a \in DOMAIN Zeroes : fs.data[ind][a] # 0}})

At(pl) ==
  LET addrs == fs.inode[pl[1]].addrs
  IN IF pl[2] <= NDIRECT THEN addrs[pl[2]] ELSE fs.data[addrs[NDIRECT]][pl[2] - NDIRECT - 1]

(* No block is in two places, and the bitmap has exactly the blocks of the *)
(* files and the metadata: on the image mkfs leaves, and after every call. *)
(* The disk may be full, but a block is never freed twice and no block     *)
(* number is out of bmap's range.                                          *)
BitmapExact ==
  LET places == UNION {Places(i) : i \in Inums}
  IN IF fs.panic THEN FreeBlocks(fs) = {}
     ELSE /\ \A x, y \in places : At(x) = At(y) => x = y
          /\ ~making => fs.used = (0..(nmeta - 1)) \cup {At(x) : x \in places}

=============================================================================
