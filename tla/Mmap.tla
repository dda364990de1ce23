-------------------------------- MODULE Mmap --------------------------------
(* Memory-mapped files: sys_mmap, mmap_handler and sys_munmap of           *)
(* kernel/sysfile.c, the page-fault branch of usertrap, and what fork and  *)
(* exit of kernel/proc.c and filewrite of kernel/file.c do with mappings.  *)
(*                                                                         *)
(* Addresses, lengths and file offsets are counted in pages.  Page 0 is    *)
(* the program and its stack; mappings follow.  A file is the sequence of  *)
(* its pages.  Every mapping is readable (PROT_READ).                      *)
EXTENDS Integers, Sequences, FiniteSets, FiniteSetsExt, SequencesExt

CONSTANTS Users,
          Mappers,       \* the processes that map files and close descriptors
          First,         \* the process that exists at the start
          Files,         \* open files (struct file), each of its own inode
          Writable,      \* the files opened O_RDWR; the others are O_RDONLY
          Old, New,      \* contents of a page: as in the file at first, as stored
          FilePages,     \* size of each file at the start
          MAXFILE,       \* bound on the size of a file
          MAXMMAPITEM,   \* number of vma slots
          MaxPages,      \* bound on p->sz
          Nil,           \* no page, no file, no fault
          Pieces,        \* may programs unmap a mapping piece by piece?
          AnyOrder       \* may they unmap while another mapping has just that length?

ASSUME MmapAssumption ==
  /\ First \in Users /\ Mappers \subseteq Users /\ Writable \subseteq Files
  /\ {FilePages, MAXFILE, MAXMMAPITEM, MaxPages} \subseteq Nat \ {0}
  /\ FilePages <= MAXFILE /\ {Pieces, AnyOrder} \subseteq BOOLEAN

Slots  == 1..MAXMMAPITEM
Pages  == 0..(MaxPages - 1)

VARIABLES
  alive,    \* the processes that exist
  sz,       \* p->sz
  vma,      \* p->vma
  pt,       \* the user page table: Nil or the page and its W bit
  fds,      \* p->ofile, as the set of files p has open
  content,  \* the file on disk
  off,      \* f->off
  fref,     \* f->ref
  mpanicked,
  promise   \* history: which page of which file mmap promised at an address

mmapvars == <<alive, sz, vma, pt, fds, content, off, fref, mpanicked, promise>>
files == <<content, off, fref>>

FreeItem == [used |-> FALSE, addr |-> 0, length |-> 0, w |-> FALSE,
             shared |-> FALSE, vfile |-> Nil, offset |-> 0]
NoPages  == [va \in Pages |-> Nil]

PageType == [data : {Old, New}, w : BOOLEAN]

MmapTypeOK ==
  /\ alive \subseteq Users
  /\ sz \in [Users -> 0..MaxPages]
  /\ vma \in [Users -> [Slots ->
        [used : BOOLEAN, addr : 0..MaxPages, length : 0..MaxPages, w : BOOLEAN,
         shared : BOOLEAN, vfile : Files \cup {Nil}, offset : Nat]]]
  /\ pt \in [Users -> [Pages -> PageType \cup {Nil}]]
  /\ fds \in [Users -> SUBSET Files]
  /\ content \in [Files -> Seq({Old, New})] /\ \A f \in Files : Len(content[f]) <= MAXFILE
  /\ off \in [Files -> 0..MAXFILE] /\ fref \in [Files -> Nat]
  /\ mpanicked \in BOOLEAN

MmapInit ==
  /\ alive = {First}
  /\ sz = [p \in Users |-> 1]
  /\ vma = [p \in Users |-> [i \in Slots |-> FreeItem]]
  /\ pt = [p \in Users |-> NoPages]
  /\ fds = [p \in Users |-> IF p = First THEN Files ELSE {}]
  /\ content = [f \in Files |-> [k \in 1..FilePages |-> Old]]
  /\ off = [f \in Files |-> 0]
  /\ fref = [f \in Files |-> 1]
  /\ mpanicked = FALSE
  /\ promise = [p \in Users |-> NoPages]

Running(p) == p \in alive /\ ~mpanicked

-----------------------------------------------------------------------------
(* sys_mmap of n pages of f.                                               *)
mmap(p, f, n, w, shared) ==
  /\ Running(p) /\ f \in fds[p] /\ sz[p] + n <= MaxPages
  /\ ~(f \notin Writable /\ w /\ shared)
  /\ LET empty == {i \in Slots : ~vma[p][i].used} IN
     IF empty = {}
     THEN mpanicked' = TRUE /\ UNCHANGED <<vma, sz, fref, promise>>
     ELSE /\ vma' = [vma EXCEPT ![p][Min(empty)] =
               [used |-> TRUE, addr |-> sz[p], length |-> n, w |-> w,
                shared |-> shared, vfile |-> f, offset |-> 0]]
          /\ sz' = [sz EXCEPT ![p] = @ + n]
          /\ fref' = [fref EXCEPT ![f] = @ + 1]
          /\ promise' = [promise EXCEPT ![p] =
               [va \in Pages |-> IF va \in sz[p]..(sz[p] + n - 1)
                                 THEN [at |-> <<f, va - sz[p]>>, w |-> w, shared |-> shared]
                                 ELSE @[va]]]
          /\ UNCHANGED mpanicked
  /\ UNCHANGED <<alive, pt, fds, content, off>>

(* A store to a page that is present and writable, done by the hardware.   *)
Store(p, va) ==
  /\ Running(p) /\ pt[p][va] # Nil /\ pt[p][va].w
  /\ pt' = [pt EXCEPT ![p][va].data = New]
  /\ UNCHANGED <<alive, sz, vma, fds, files, mpanicked, promise>>

Covers(item, va) == item.used /\ item.addr <= va /\ va < item.addr + item.length

-----------------------------------------------------------------------------
Room(o, m) == o + m <= MAXFILE

(* filewrite(f, addr, n) from the pages of p: it writes at f->off, stops   *)
(* at the first page that is not present (copyin fails) and at MAXFILE.    *)
filewrite(p, f, addr, n, c, o) ==
  LET present == {m \in 0..n : \A j \in 0..(m - 1) : pt[p][addr + j] # Nil}
      written == {m \in present : Room(o, m)}
      m == IF f \in Writable /\ o <= Len(c) THEN Max(written) ELSE 0
  IN [content |-> [k \in 1..(IF o + m > Len(c) THEN o + m ELSE Len(c)) |->
                     IF k \in (o + 1)..(o + m) THEN pt[p][addr + k - o - 1].data ELSE c[k]],
      off |-> o + m]

(* Mutant of Shared: MAP_PRIVATE mappings are written back too.            *)
Shared_or_private(item) == item.w

Shared(item) == item.shared /\ item.w

WriteBack(p, item, addr, n) ==
  LET f == item.vfile
      r == filewrite(p, f, addr, n, content[f], off[f])
  IN IF Shared(item)
     THEN /\ content' = [content EXCEPT ![f] = r.content]
          /\ off' = [off EXCEPT ![f] = r.off]
     ELSE UNCHANGED <<content, off>>

(* sys_munmap(addr, n): the first item that starts at addr, or whose whole *)
(* length is n; its bookkeeping, the write-back, uvmunmap, fileclose.      *)
Matches(item, addr, n) ==
  item.used /\ item.length >= n /\ (item.addr = addr \/ item.length = n)

Shrunk(item, addr, n) ==
  [item EXCEPT !.addr = IF item.addr = addr THEN addr + n ELSE @,
               !.length = @ - n]

(* The ranges a program passes to munmap: part of one of its mappings, or, *)
(* without Pieces, all of it; without AnyOrder, never while another        *)
(* mapping has just that length.                                           *)
Request(p, addr, n) ==
  \E i \in Slots :
    /\ Covers(vma[p][i], addr) /\ Covers(vma[p][i], addr + n - 1)
    /\ Pieces \/ vma[p][i].length = n
    /\ AnyOrder \/ \A j \in Slots \ {i} : vma[p][j].used => vma[p][j].length # n

munmap(p, addr, n) ==
  /\ Running(p) /\ Request(p, addr, n)
  /\ LET found == {i \in Slots : Matches(vma[p][i], addr, n)} IN
     /\ found # {}
     /\ LET i    == Min(found)
            item == vma[p][i]
            last == item.length = n
            gone == addr..(addr + n - 1)
        IN /\ WriteBack(p, item, addr, n)
           /\ pt' = [pt EXCEPT ![p] = [va \in Pages |-> IF va \in gone THEN Nil ELSE @[va]]]
           /\ promise' = [promise EXCEPT ![p] =
                            [va \in Pages |-> IF va \in gone THEN Nil ELSE @[va]]]
           /\ fref' = IF last THEN [fref EXCEPT ![item.vfile] = @ - 1] ELSE fref
           /\ vma' = [vma EXCEPT ![p][i] =
                 IF last THEN FreeItem ELSE Shrunk(item, addr, n)]
  /\ UNCHANGED <<alive, sz, fds, mpanicked>>

-----------------------------------------------------------------------------
(* fork: uvmcopy gives the child a copy of every page present; open files  *)
(* and mappings are shared, with one more reference each.                  *)
Used(p, f) == Cardinality({i \in Slots : vma[p][i].used /\ vma[p][i].vfile = f})
Opened(p, f) == IF f \in fds[p] THEN 1 ELSE 0

(* Mutant of Forked: no filedup for the child's mappings.                  *)
Forked_no_filedup(p, f) == fref[f] + Opened(p, f)

Forked(p, f) == fref[f] + Opened(p, f) + Used(p, f)

fork(p, c) ==
  /\ Running(p) /\ c \notin alive
  /\ alive' = alive \cup {c}
  /\ sz' = [sz EXCEPT ![c] = sz[p]]
  /\ pt' = [pt EXCEPT ![c] = pt[p]]
  /\ vma' = [vma EXCEPT ![c] = vma[p]]
  /\ promise' = [promise EXCEPT ![c] = promise[p]]
  /\ fds' = [fds EXCEPT ![c] = fds[p]]
  /\ fref' = [f \in Files |-> Forked(p, f)]
  /\ UNCHANGED <<content, off, mpanicked>>

(* exit, and freeproc in the parent's wait: close the files, write back    *)
(* and close the mappings in the order of their slots, free the memory.    *)
ExitWriteBack(p) ==
  LET One(acc, i) ==
        LET item == vma[p][i]
            f == item.vfile
            r == filewrite(p, f, item.addr, item.length, acc.content[f], acc.off[f])
        IN IF item.used /\ Shared(item)
           THEN [content |-> [acc.content EXCEPT ![f] = r.content],
                 off |-> [acc.off EXCEPT ![f] = r.off]]
           ELSE acc
  IN FoldLeft(One, [content |-> content, off |-> off], [i \in Slots |-> i])

exit(p) ==
  /\ Running(p)
  /\ content' = ExitWriteBack(p).content
  /\ off' = ExitWriteBack(p).off
  /\ fref' = [f \in Files |-> fref[f] - Opened(p, f) - Used(p, f)]
  /\ alive' = alive \ {p}
  /\ fds' = [fds EXCEPT ![p] = {}]
  /\ vma' = [vma EXCEPT ![p] = [i \in Slots |-> FreeItem]]
  /\ pt' = [pt EXCEPT ![p] = NoPages]
  /\ promise' = [promise EXCEPT ![p] = NoPages]
  /\ sz' = [sz EXCEPT ![p] = 1]
  /\ UNCHANGED mpanicked

(* usertrap's check of the address and mmap_handler(va, cause): when it    *)
(* succeeds, and the page it reads then.                                   *)
Item(p, va) == vma[p][Min({i \in Slots : Covers(vma[p][i], va)})]
FilePage(p, va) == Item(p, va).offset + (va - Item(p, va).addr)

Handles(p, va, cause) ==
  /\ va < sz[p]
  /\ \E i \in Slots : Covers(vma[p][i], va)
  /\ cause = 15 => Item(p, va).vfile \in Writable
  /\ FilePage(p, va) < Len(content[Item(p, va).vfile])

mmap_handler(p, va) ==
  [data |-> content[Item(p, va).vfile][FilePage(p, va) + 1], w |-> Item(p, va).w]

(* A load or store that faults, with cause 13 or 15, and usertrap: it      *)
(* kills the process, which exits at once, or maps the page; mappages      *)
(* panics when the page is mapped already.                                 *)
usertrap(p, va, cause) ==
  /\ Running(p)
  /\ pt[p][va] # Nil => cause = 15 /\ ~pt[p][va].w
  /\ \/ ~Handles(p, va, cause) /\ exit(p)
     \/ /\ Handles(p, va, cause) /\ pt[p][va] # Nil
        /\ mpanicked' = TRUE
        /\ UNCHANGED <<alive, sz, vma, pt, fds, files, promise>>
     \/ /\ Handles(p, va, cause) /\ pt[p][va] = Nil
        /\ pt' = [pt EXCEPT ![p][va] = mmap_handler(p, va)]
        /\ UNCHANGED <<alive, sz, vma, fds, files, mpanicked, promise>>

(* close(fd).                                                              *)
close(p, f) ==
  /\ Running(p) /\ f \in fds[p]
  /\ fds' = [fds EXCEPT ![p] = @ \ {f}]
  /\ fref' = [fref EXCEPT ![f] = @ - 1]
  /\ UNCHANGED <<alive, sz, vma, pt, content, off, mpanicked, promise>>

(* prot and flags: whether writable, whether MAP_SHARED.                   *)
Kinds == {<<FALSE, FALSE>>, <<TRUE, FALSE>>, <<TRUE, TRUE>>}

MmapNext ==
  \E p \in Users :
    \/ p \in Mappers /\ \E f \in Files, n \in 1..2, k \in Kinds : mmap(p, f, n, k[1], k[2])
    \/ \E va \in 1..(MaxPages - 1) :
         \/ Store(p, va)
         \/ \E cause \in {13, 15} : usertrap(p, va, cause)
    \/ \E addr \in 1..(MaxPages - 1), n \in 1..2 : munmap(p, addr, n)
    \/ \E c \in Users : fork(p, c)
    \/ exit(p)
    \/ p \in Mappers /\ \E f \in Files : close(p, f)

MmapSpec == MmapInit /\ [][MmapNext]_mmapvars

-----------------------------------------------------------------------------
(* f->ref counts the descriptors and the mappings that refer to the file,  *)
(* over fork, exit, close and munmap in any order.                         *)
RefsExact ==
  \A f \in Files :
    fref[f] = Cardinality({p \in alive : f \in fds[p]})
             + Cardinality({x \in alive \X Slots : vma[x[1]][x[2]].used
                                                  /\ vma[x[1]][x[2]].vfile = f})

(* "if the process modifies the mapped memory, the modifications should    *)
(* not be written back to the file" (MAP_PRIVATE): a file changes only when *)
(* a shared writable mapping of it goes, and never if it was opened        *)
(* read-only.                                                              *)
PrivateStaysPrivate ==
  [][\A f \in Files : content'[f] # content[f] =>
       /\ f \in Writable
       /\ \E p \in alive, va \in Pages :
            /\ promise[p][va] # Nil /\ promise'[p][va] = Nil
            /\ promise[p][va].w /\ promise[p][va].shared
            /\ promise[p][va].at[1] = f]_mmapvars

(* munmap takes away what it was asked to take away and nothing else: the  *)
(* vma table covers exactly the pages that are still mapped, each with the *)
(* file and the permissions of its mapping.                                *)
UnmapsItsOwn ==
  \A p \in alive, va \in Pages :
    LET m == promise[p][va]
        on == {i \in Slots : Covers(vma[p][i], va)}
    IN IF m = Nil THEN on = {}
       ELSE \E i \in Slots : /\ on = {i} /\ vma[p][i].vfile = m.at[1]
                             /\ vma[p][i].w = m.w /\ vma[p][i].shared = m.shared

(* mmap_handler "computes which page of the whole file mapping the virtual *)
(* address corresponds to": the page it would read at an address is the    *)
(* page of the file that mmap put there.                                   *)
PageFromRightPlace ==
  \A p \in alive, va \in Pages :
    promise[p][va] # Nil /\ (\E i \in Slots : Covers(vma[p][i], va)) =>
      <<Item(p, va).vfile, FilePage(p, va)>> = promise[p][va].at
=============================================================================
