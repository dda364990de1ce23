--------------------------------- MODULE Fs ---------------------------------
(* The file system above the log: inodes and their cache, block allocation *)
(* and directories (kernel/fs.c) and the system calls that change the name *)
(* space (kernel/sysfile.c).                                               *)
(*                                                                         *)
(* A step runs from one acquisition of an inode's sleep lock to the next   *)
(* place where another process can interfere: the next ilock, or iput's    *)
(* use of icache.lock.  Inside, disk blocks are read and changed under the *)
(* lock of their buffer.  An inode has at most one block, which holds a    *)
(* directory's entries.  The cache is indexed by inode number, since iget  *)
(* never makes a second entry for one; an entry nobody refers to is        *)
(* forgotten, as iget clears valid when it recycles one.                   *)
EXTENDS Integers, FiniteSets, Sequences, FiniteSetsExt, SequencesExt

CONSTANTS Procs,
          Names,     \* of directory entries
          DotDot,    \* the entry ".."
          Calls,     \* the calls each process makes: op, path, whether from the
                     \* root or the current directory, and link's new path
          Openers,   \* the processes that have a free descriptor
          MaxLinks,  \* bound on nlink
          NINODES,   \* inode numbers are 1..NINODES
          NBLOCKS    \* data blocks are 1..NBLOCKS

ASSUME FsAssumption == /\ {NINODES, NBLOCKS} \subseteq Nat \ {0}
                       /\ DotDot \notin Names
                       /\ \A p \in Procs : \A c \in Calls[p] : c.path \in Seq(Names \cup {DotDot}) \ {<<>>}

Inums   == 1..NINODES
Blocks  == 1..NBLOCKS
ROOTINO == 1
None    == 0
Nobody  == "nobody"
NoInode == [type |-> "free", nlink |-> 0, addr |-> None]
Stale   == [type |-> "stale", nlink |-> 0, addr |-> None]   \* ip->valid == 0
Empty   == [n \in Names \cup {DotDot} |-> None]             \* a zeroed block
Idle    == [pc |-> "user", op |-> "none", rest |-> <<>>, to |-> <<>>, ip |-> None,
            other |-> None, puts |-> <<>>, phase |-> "test"]

VARIABLES
  dinode,    \* the inodes on disk, as the log will write them
  used,      \* the bitmap: blocks in use
  dent,      \* directory entries in each block
  ref,       \* ip->ref in the inode cache
  copy,      \* the fields of the cached inode, or Stale
  lock,      \* ip->lock: the process that holds it, or Nobody
  pr,        \* per process: where it is in its system call, and its locals
  fd,        \* the inode of its open file, or None
  cwd,       \* p->cwd
  fspanicked   \* ialloc or balloc ran out and panicked

disk == <<dinode, used, dent>>
fsvars == <<dinode, used, dent, ref, copy, lock, pr, fd, cwd, fspanicked>>

FsTypeOK ==
  /\ dinode \in [Inums -> [type : {"free", "file", "dir"}, nlink : Nat, addr : 0..NBLOCKS]]
  /\ used \subseteq Blocks
  /\ dent \in [Blocks -> [Names \cup {DotDot} -> 0..NINODES]]
  /\ ref \in [Inums -> Nat]
  /\ copy \in [Inums -> [type : {"stale", "free", "file", "dir"}, nlink : Nat, addr : 0..NBLOCKS]]
  /\ lock \in [Inums -> Procs \cup {Nobody}]
  /\ \A p \in Procs :
       /\ pr[p].pc \in {"user", "namei", "nameiparent", "got", "parent", "init", "made",
                        "unlink", "drop", "bad", "chdir", "end"}
       /\ pr[p].op \in {"none", "open", "openw", "create", "mkdir", "unlink", "link", "chdir"}
       /\ {pr[p].rest, pr[p].to} \subseteq Seq(Names \cup {DotDot})
       /\ {pr[p].ip, pr[p].other} \subseteq 0..NINODES
       /\ pr[p].puts \in Seq(Inums)
       /\ pr[p].phase \in {"test", "free", "unlock", "dec"}
  /\ fd \in [Procs -> 0..NINODES] /\ cwd \in [Procs -> Inums]
  /\ fspanicked \in BOOLEAN

(* What a boot leaves in memory: an empty cache but for the root, where    *)
(* every process starts.                                                   *)
Boot ==
  /\ ref' = [i \in Inums |-> IF i = ROOTINO THEN Cardinality(Procs) ELSE 0]
  /\ copy' = [i \in Inums |-> Stale]
  /\ fd' = [p \in Procs |-> None]
  /\ cwd' = [p \in Procs |-> ROOTINO]

(* After the first boot the disk is as mkfs made it, with an empty root.   *)
FsInit ==
  /\ dinode = [i \in Inums |-> IF i = ROOTINO THEN [type |-> "dir", nlink |-> 1, addr |-> 1]
                                              ELSE NoInode]
  /\ used = {1}
  /\ dent = [b \in Blocks |-> IF b = 1 THEN [Empty EXCEPT ![DotDot] = ROOTINO] ELSE Empty]
  /\ ref = [i \in Inums |-> IF i = ROOTINO THEN Cardinality(Procs) ELSE 0]
  /\ copy = [i \in Inums |-> Stale]
  /\ lock = [i \in Inums |-> Nobody]
  /\ pr = [p \in Procs |-> Idle]
  /\ fd = [p \in Procs |-> None]
  /\ cwd = [p \in Procs |-> ROOTINO]
  /\ fspanicked = FALSE

-----------------------------------------------------------------------------
(* The inode as its holder sees it once ilock has read it if necessary.    *)
Ino(i) == IF copy[i] = Stale THEN dinode[i] ELSE copy[i]

dirlookup(i, n) == dent[Ino(i).addr][n]

(* Enter inode i under name n in directory d.                              *)
dirlink(d, n, i) == [dent EXCEPT ![Ino(d).addr][n] = i]

FreeInodes == {i \in Inums : dinode[i].type = "free"}
FreeBlocks == Blocks \ used

bfree(b) == used \ {b}

(* Process p is at pc; or in iput; or in user space.                       *)
At(p, pc)        == ~fspanicked /\ pr[p].pc = pc /\ pr[p].puts = <<>>
Putting(p, phase) == ~fspanicked /\ pr[p].puts # <<>> /\ pr[p].phase = phase
InUser(p)        == ~fspanicked /\ pr[p] = Idle

(* The inode process p is about to lock with ilock.                        *)
Wants(p) ==
  CASE pr[p].puts # <<>> -> None
    [] pr[p].pc \in {"namei", "nameiparent", "got", "parent", "init", "unlink"} -> pr[p].ip
    [] pr[p].pc = "bad" -> pr[p].other
    [] OTHER -> None

(* ilock succeeds on inode i (a free one makes it panic, see NoPanic).     *)
ilock(i) == lock[i] = Nobody /\ Ino(i).type # "free"

(* ialloc or balloc finds the disk full.                                   *)
panic == fspanicked' = TRUE /\ UNCHANGED <<disk, ref, copy, lock, pr, fd, cwd>>

(* Set fields of locked inodes and iupdate: the cache is write-through.    *)
iupdate(new) ==
  /\ dinode' = [i \in Inums |-> IF i \in DOMAIN new THEN new[i] ELSE dinode[i]]
  /\ copy' = [i \in Inums |-> IF i \in DOMAIN new THEN new[i] ELSE copy[i]]

(* Free the block and forget it.                                           *)
itrunc(i) == /\ used' = bfree(Ino(i).addr)
             /\ iupdate([j \in {i} |-> [Ino(i) EXCEPT !.addr = None]])

(* ilock's read of an inode that is only looked at.                        *)
Read(i) == copy' = [copy EXCEPT ![i] = Ino(i)]

iget(i) == ref' = [ref EXCEPT ![i] = @ + 1]

-----------------------------------------------------------------------------
(* Mutant of Dying: another reference is left.                             *)
Dying_early(i) == ref[i] <= 2 /\ copy[i] # Stale /\ copy[i].nlink = 0

(* Mutant of Dying: the links are not looked at.                           *)
Dying_linked(i) == ref[i] = 1 /\ copy[i] # Stale

(* iput drops a reference, the head of puts.  If it is the last one and    *)
(* there are no links, the inode is freed first: locked under icache.lock  *)
(* (which must not block), truncated and given type 0 on disk, invalidated *)
(* and unlocked; then icache.lock is taken again.                          *)
Dying(i) == ref[i] = 1 /\ copy[i] # Stale /\ copy[i].nlink = 0

(* The process after its iput: back to user space if that was the last     *)
(* thing to do before end_op.                                              *)
Dropped(r) == IF r.pc = "end" /\ Len(r.puts) = 1 THEN Idle
              ELSE [r EXCEPT !.puts = Tail(@), !.phase = "test"]

Drop(p, i) ==
  /\ ref' = [ref EXCEPT ![i] = @ - 1]
  /\ pr' = [pr EXCEPT ![p] = Dropped(@)]

iput(p) ==
  LET i == Head(pr[p].puts) IN
  /\ Putting(p, "test") /\ ~Dying(i)
  /\ Drop(p, i)
  /\ copy' = IF ref[i] = 1 THEN [copy EXCEPT ![i] = Stale] ELSE copy
  /\ UNCHANGED <<disk, lock, fd, cwd, fspanicked>>

iput_last(p) ==
  LET i == Head(pr[p].puts) IN
  /\ Putting(p, "test") /\ Dying(i) /\ lock[i] = Nobody
  /\ lock' = [lock EXCEPT ![i] = p]
  /\ pr' = [pr EXCEPT ![p].phase = "free"]
  /\ UNCHANGED <<disk, ref, copy, fd, cwd, fspanicked>>

iput_free(p) ==
  LET i == Head(pr[p].puts) IN
  /\ Putting(p, "free")
  /\ used' = bfree(copy[i].addr)
  /\ iupdate([j \in {i} |-> NoInode])
  /\ pr' = [pr EXCEPT ![p].phase = "unlock"]
  /\ UNCHANGED <<dent, ref, lock, fd, cwd, fspanicked>>

(* Mutant of Invalid: valid stays 1.                                       *)
Invalid_not(i) == copy

(* ip->valid = 0 *)
Invalid(i) == [copy EXCEPT ![i] = Stale]

iput_unlock(p) ==
  LET i == Head(pr[p].puts) IN
  /\ Putting(p, "unlock")
  /\ copy' = Invalid(i)
  /\ lock' = [lock EXCEPT ![i] = Nobody]
  /\ pr' = [pr EXCEPT ![p].phase = "dec"]
  /\ UNCHANGED <<disk, ref, fd, cwd, fspanicked>>

iput_dec(p) ==
  LET i == Head(pr[p].puts) IN
  /\ Putting(p, "dec")
  /\ Drop(p, i)
  /\ copy' = IF ref[i] = 1 THEN [copy EXCEPT ![i] = Stale] ELSE copy
  /\ UNCHANGED <<disk, lock, fd, cwd, fspanicked>>

-----------------------------------------------------------------------------
(* The call of p drops the inodes s and returns.                           *)
Return(p, s) == pr' = [pr EXCEPT ![p] = [Idle EXCEPT !.pc = "end", !.puts = s]]

(* Mutant of Fail: the error path forgets to put the inode.                *)
Fail_leak(p, r, i) ==
  IF r.other = None THEN pr' = [pr EXCEPT ![p] = Idle]
  ELSE pr' = [pr EXCEPT ![p] = [r EXCEPT !.pc = "bad", !.ip = None, !.rest = <<>>]]

(* namex fails; sys_link still has to take back its link.                  *)
Fail(p, r, i) ==
  IF r.other = None THEN Return(p, <<i>>)
  ELSE pr' = [pr EXCEPT ![p] = [r EXCEPT !.pc = "bad", !.ip = None, !.rest = <<>>,
                                         !.puts = <<i>>]]

Start(p, root) == IF root THEN ROOTINO ELSE cwd[p]

(* One iteration of namex's loop, in a process with locals r whose ip has  *)
(* been counted in refs.                                                   *)
Walk(p, r, refs) ==
  LET i == r.ip
      n == Head(r.rest)
      last == Len(r.rest) = 1
  IN
  /\ ilock(i)
  /\ Read(i)
  /\ IF Ino(i).type # "dir" THEN Fail(p, r, i) /\ ref' = refs
     ELSE IF last /\ r.pc = "nameiparent"
       THEN pr' = [pr EXCEPT ![p] = [r EXCEPT !.pc = "parent"]] /\ ref' = refs
     ELSE IF dirlookup(i, n) = None THEN Fail(p, r, i) /\ ref' = refs
     ELSE /\ ref' = [refs EXCEPT ![dirlookup(i, n)] = @ + 1]
          /\ pr' = [pr EXCEPT ![p] =
               [r EXCEPT !.pc = IF last THEN "got" ELSE @, !.ip = dirlookup(i, n),
                         !.rest = Tail(@), !.puts = <<i>>]]
  /\ UNCHANGED <<disk, lock, fd, cwd, fspanicked>>

(* A system call with a path name: begin_op, namex's iget of the root or   *)
(* idup of the current directory, and its first iteration.  The reference  *)
(* it adds is seen by nobody: the root has links and p->cwd has p's own.   *)
Call(p, c) ==
  LET i == Start(p, c.root)
  IN /\ InUser(p)
     /\ Walk(p, [Idle EXCEPT !.pc = IF c.op \in {"create", "mkdir", "unlink"}
                                    THEN "nameiparent" ELSE "namei",
                             !.op = c.op, !.rest = c.path, !.to = c.to, !.ip = i],
             [ref EXCEPT ![i] = @ + 1])

namex(p) == /\ At(p, "namei") \/ At(p, "nameiparent")
            /\ Walk(p, pr[p], ref)

-----------------------------------------------------------------------------
(* sys_open on the inode it found, or create of a name that exists: the    *)
(* error paths (a directory opened for writing, no free descriptor, mkdir  *)
(* of an existing name) unlock and put; else the descriptor takes over the *)
(* reference, and O_TRUNC frees the block.                                 *)
NoDescriptor(p) == fd[p] # None \/ p \notin Openers

Refused(p, i) == \/ pr[p].op = "mkdir" \/ NoDescriptor(p)
                 \/ pr[p].op # "open" /\ Ino(i).type = "dir"

open_fails(p) ==
  LET i == pr[p].ip IN
  /\ At(p, "got") /\ pr[p].op \in {"open", "openw", "create", "mkdir"}
  /\ ilock(i) /\ Refused(p, i)
  /\ Read(i)
  /\ Return(p, <<i>>)
  /\ UNCHANGED <<disk, ref, lock, fd, cwd, fspanicked>>

sys_open(p) ==
  LET i == pr[p].ip IN
  /\ At(p, "got") /\ pr[p].op \in {"open", "openw", "create"}
  /\ ilock(i) /\ ~Refused(p, i)
  /\ IF pr[p].op = "openw" THEN itrunc(i) ELSE Read(i) /\ UNCHANGED <<used, dinode>>
  /\ fd' = [fd EXCEPT ![p] = i]
  /\ pr' = [pr EXCEPT ![p] = Idle]
  /\ UNCHANGED <<dent, ref, lock, cwd, fspanicked>>

(* create, with the parent directory locked: the name exists.              *)
create_exists(p) ==
  LET d == pr[p].ip
      i == dirlookup(d, Head(pr[p].rest))
  IN
  /\ At(p, "parent") /\ pr[p].op \in {"create", "mkdir"}
  /\ ilock(d) /\ i # None
  /\ Read(d) /\ iget(i)
  /\ pr' = [pr EXCEPT ![p] = [@ EXCEPT !.pc = "got", !.ip = i, !.rest = <<>>, !.puts = <<d>>]]
  /\ UNCHANGED <<disk, lock, fd, cwd, fspanicked>>

(* It does not: ialloc marks the first free inode, or panics; the parent   *)
(* stays locked.                                                           *)
ialloc(p) ==
  LET d == pr[p].ip
      i == Min(FreeInodes)
      type == IF pr[p].op = "mkdir" THEN "dir" ELSE "file"
  IN
  /\ At(p, "parent") /\ pr[p].op \in {"create", "mkdir"}
  /\ ilock(d) /\ dirlookup(d, Head(pr[p].rest)) = None
  /\ IF FreeInodes = {} THEN panic
     ELSE /\ dinode' = [dinode EXCEPT ![i] = [NoInode EXCEPT !.type = type]]
          /\ iget(i)
          /\ Read(d)
          /\ lock' = [lock EXCEPT ![d] = p]
          /\ pr' = [pr EXCEPT ![p] = [@ EXCEPT !.pc = "init", !.ip = i, !.other = d]]
          /\ UNCHANGED <<used, dent, fd, cwd, fspanicked>>

(* The rest of create: lock the new inode, set nlink, give a directory its *)
(* block with "." and "..", enter the name, unlock and put the parent.     *)
create(p) ==
  LET i == pr[p].ip
      d == pr[p].other
      b == Min(FreeBlocks)
      isdir == Ino(i).type = "dir"
      named == dirlink(d, Head(pr[p].rest), i)
  IN
  /\ At(p, "init") /\ ilock(i)
  /\ IF isdir /\ FreeBlocks = {} THEN panic
     ELSE /\ IF isdir
             THEN /\ used' = used \cup {b}
                  /\ dent' = [named EXCEPT ![b] = [Empty EXCEPT ![DotDot] = d]]
                  /\ iupdate([j \in {i, d} |->
                       IF j = i THEN [Ino(i) EXCEPT !.nlink = 1, !.addr = b]
                                ELSE [Ino(d) EXCEPT !.nlink = @ + 1]])
             ELSE /\ dent' = named
                  /\ iupdate([j \in {i} |-> [Ino(i) EXCEPT !.nlink = 1]])
                  /\ UNCHANGED used
          /\ lock' = [lock EXCEPT ![d] = Nobody, ![i] = p]
          /\ pr' = [pr EXCEPT ![p] = [@ EXCEPT !.pc = "made", !.other = None, !.rest = <<>>,
                                               !.puts = <<d>>]]
          /\ UNCHANGED <<ref, fd, cwd, fspanicked>>

(* sys_open or sys_mkdir after create made the inode, which is locked.     *)
created(p) ==
  LET i == pr[p].ip IN
  /\ At(p, "made")
  /\ lock' = [lock EXCEPT ![i] = Nobody]
  /\ IF pr[p].op = "create" /\ ~NoDescriptor(p)
     THEN fd' = [fd EXCEPT ![p] = i] /\ pr' = [pr EXCEPT ![p] = Idle]
     ELSE Return(p, <<i>>) /\ UNCHANGED fd
  /\ UNCHANGED <<disk, ref, copy, cwd, fspanicked>>

-----------------------------------------------------------------------------
(* sys_unlink: with the parent locked, look the name up.                   *)
unlink_fails(p) ==
  LET d == pr[p].ip
      n == Head(pr[p].rest)
  IN
  /\ At(p, "parent") /\ pr[p].op = "unlink"
  /\ ilock(d) /\ (n # DotDot => dirlookup(d, n) = None)
  /\ Read(d)
  /\ Return(p, <<d>>)
  /\ UNCHANGED <<disk, ref, lock, fd, cwd, fspanicked>>

unlink_found(p) ==
  LET d == pr[p].ip
      i == dirlookup(d, Head(pr[p].rest))
  IN
  /\ At(p, "parent") /\ pr[p].op = "unlink"
  /\ ilock(d) /\ Head(pr[p].rest) # DotDot /\ i # None
  /\ Read(d) /\ iget(i)
  /\ lock' = [lock EXCEPT ![d] = p]
  /\ pr' = [pr EXCEPT ![p] = [@ EXCEPT !.pc = "unlink", !.ip = i, !.other = d]]
  /\ UNCHANGED <<disk, fd, cwd, fspanicked>>

isdirempty(i) == \A n \in Names : dirlookup(i, n) = None

(* With both locked: a directory that is not empty stays.  Its iput, with  *)
(* the parent still locked, cannot free it: it has a name.                 *)
unlink_refused(p) ==
  LET i == pr[p].ip
      d == pr[p].other
  IN
  /\ At(p, "unlink") /\ ilock(i)
  /\ Ino(i).nlink >= 1 /\ Ino(i).type = "dir" /\ ~isdirempty(i)
  /\ lock' = [lock EXCEPT ![d] = Nobody]
  /\ ref' = [ref EXCEPT ![i] = @ - 1]
  /\ copy' = [copy EXCEPT ![i] = IF ref[i] = 1 THEN Stale ELSE Ino(i)]
  /\ Return(p, <<d>>)
  /\ UNCHANGED <<disk, fd, cwd, fspanicked>>

(* Erase the entry, unlock and put the parent ...                          *)
sys_unlink(p) ==
  LET i == pr[p].ip
      d == pr[p].other
  IN
  /\ At(p, "unlink") /\ ilock(i)
  /\ Ino(i).nlink >= 1 /\ (Ino(i).type = "dir" => isdirempty(i))
  /\ dent' = dirlink(d, Head(pr[p].rest), None)
  /\ iupdate([j \in {i, d} |->
       IF j = d /\ Ino(i).type = "dir" THEN [Ino(d) EXCEPT !.nlink = @ - 1] ELSE Ino(j)])
  /\ lock' = [lock EXCEPT ![d] = Nobody, ![i] = p]
  /\ pr' = [pr EXCEPT ![p] = [@ EXCEPT !.pc = "drop", !.other = None, !.rest = <<>>,
                                       !.puts = <<d>>]]
  /\ UNCHANGED <<used, ref, fd, cwd, fspanicked>>

(* ... then take the link away from the inode, unlock and put it.          *)
unlink_drop(p) ==
  LET i == pr[p].ip IN
  /\ At(p, "drop")
  /\ iupdate([j \in {i} |-> [Ino(i) EXCEPT !.nlink = @ - 1]])
  /\ lock' = [lock EXCEPT ![i] = Nobody]
  /\ Return(p, <<i>>)
  /\ UNCHANGED <<used, dent, ref, fd, cwd, fspanicked>>

-----------------------------------------------------------------------------

(* iunlock(ip) before nameiparent(new).                                    *)
Unlocked(p, i) == lock

(* sys_link: count the new link of the inode found, unlock it, and go on   *)
(* to the new name's directory.                                            *)
link_old(p, start) ==
  LET i == pr[p].ip IN
  /\ At(p, "got") /\ pr[p].op = "link"
  /\ ilock(i) /\ (Ino(i).type = "file" => Ino(i).nlink < MaxLinks)
  /\ IF Ino(i).type = "dir"
     THEN Read(i) /\ Return(p, <<i>>) /\ UNCHANGED <<dinode, ref, lock>>
     ELSE /\ iupdate([j \in {i} |-> [Ino(i) EXCEPT !.nlink = @ + 1]])
          /\ iget(start)
          /\ lock' = Unlocked(p, i)
          /\ pr' = [pr EXCEPT ![p] = [@ EXCEPT !.pc = "nameiparent", !.ip = start, !.other = i,
                                               !.rest = pr[p].to, !.to = <<>>]]
  /\ UNCHANGED <<used, dent, fd, cwd, fspanicked>>

(* dirlink enters the name, unless it exists.                              *)
sys_link(p) ==
  LET d == pr[p].ip
      n == Head(pr[p].rest)
  IN
  /\ At(p, "parent") /\ pr[p].op = "link"
  /\ ilock(d)
  /\ Read(d)
  /\ IF dirlookup(d, n) # None THEN Fail(p, pr[p], d) /\ UNCHANGED dent
     ELSE /\ dent' = dirlink(d, n, pr[p].other)
          /\ Return(p, <<d, pr[p].other>>)
  /\ UNCHANGED <<dinode, used, ref, lock, fd, cwd, fspanicked>>

(* bad: take the link back.                                                *)
link_bad(p) ==
  LET i == pr[p].other IN
  /\ At(p, "bad") /\ ilock(i)
  /\ iupdate([j \in {i} |-> [Ino(i) EXCEPT !.nlink = @ - 1]])
  /\ Return(p, <<i>>)
  /\ UNCHANGED <<used, dent, ref, lock, fd, cwd, fspanicked>>

-----------------------------------------------------------------------------
(* sys_chdir: put the old directory, then end_op, then change p->cwd.      *)
sys_chdir(p) ==
  LET i == pr[p].ip IN
  /\ At(p, "got") /\ pr[p].op = "chdir"
  /\ ilock(i)
  /\ Read(i)
  /\ IF Ino(i).type # "dir" THEN Return(p, <<i>>)
     ELSE pr' = [pr EXCEPT ![p] = [@ EXCEPT !.pc = "chdir", !.puts = <<cwd[p]>>]]
  /\ UNCHANGED <<disk, ref, lock, fd, cwd, fspanicked>>

chdir_done(p) ==
  /\ At(p, "chdir")
  /\ cwd' = [cwd EXCEPT ![p] = pr[p].ip]
  /\ pr' = [pr EXCEPT ![p] = Idle]
  /\ UNCHANGED <<disk, ref, copy, lock, fd, fspanicked>>

(* sys_close of the last reference to the file: iput in a transaction.     *)
fileclose(p) ==
  /\ InUser(p) /\ fd[p] # None
  /\ fd' = [fd EXCEPT ![p] = None]
  /\ pr' = [pr EXCEPT ![p] = [Idle EXCEPT !.pc = "end", !.puts = <<fd[p]>>]]
  /\ UNCHANGED <<disk, ref, copy, lock, cwd, fspanicked>>

(* filewrite, writei, bmap: allocate the block if there is none, and write *)
(* the inode back even if the copy from user space failed.                 *)
writei(p) ==
  LET i == fd[p] IN
  /\ InUser(p) /\ i # None
  /\ ilock(i) /\ Ino(i).type = "file" /\ Ino(i).addr = None
  /\ IF FreeBlocks = {} THEN panic
     ELSE /\ used' = used \cup {Min(FreeBlocks)}
          /\ dent' = [dent EXCEPT ![Min(FreeBlocks)] = Empty]
          /\ iupdate([j \in {i} |-> [Ino(i) EXCEPT !.addr = Min(FreeBlocks)]])
          /\ UNCHANGED <<ref, lock, pr, fd, cwd, fspanicked>>

(* A crash.  The log takes the disk back to the last commit, when no call  *)
(* was in progress: to the disk of an earlier state in which all processes *)
(* were in user space.  So it is enough to crash in such states.           *)
Crash ==
  /\ \A p \in Procs : InUser(p)
  /\ Boot
  /\ UNCHANGED <<disk, lock, pr, fspanicked>>

Step(p) ==
  \/ iput(p) \/ iput_last(p) \/ iput_free(p) \/ iput_unlock(p) \/ iput_dec(p)
  \/ namex(p)
  \/ open_fails(p) \/ sys_open(p)
  \/ create_exists(p) \/ ialloc(p) \/ create(p) \/ created(p)
  \/ unlink_fails(p) \/ unlink_found(p) \/ unlink_refused(p) \/ sys_unlink(p)
  \/ unlink_drop(p)
  \/ (\E root \in BOOLEAN : link_old(p, Start(p, root))) \/ sys_link(p) \/ link_bad(p)
  \/ sys_chdir(p) \/ chdir_done(p)
  \/ fileclose(p) \/ writei(p)

FsNext == Crash \/ \E p \in Procs : Step(p) \/ \E c \in Calls[p] : Call(p, c)

FsSpec == FsInit /\ [][FsNext]_fsvars

-----------------------------------------------------------------------------
(* The references process p holds: its current directory, its open file    *)
(* and its locals.  In "chdir" the reference of the old p->cwd is in puts.  *)
Locals(p) == pr[p].puts \o <<pr[p].ip, pr[p].other, fd[p]>>
             \o (IF pr[p].pc = "chdir" THEN <<>> ELSE <<cwd[p]>>)

(* ip->ref counts the pointers to the inode, on every path through the     *)
(* system calls: nothing leaks a reference or drops one twice.             *)
RefExact ==
  \A i \in Inums :
    ref[i] = MapThenSumSet(LAMBDA p : Len(SelectSeq(Locals(p), LAMBDA j : j = i)), Procs)

(* The inode cache is write-through: whoever locks a valid inode finds     *)
(* what is on disk, although iput frees inodes that ialloc hands out again *)
(* before the freeing process has dropped its reference.                   *)
CacheCoherent ==
  \A i \in Inums : ref[i] > 0 /\ copy[i] # Stale /\ lock[i] = Nobody => copy[i] = dinode[i]

(* The names of inode i in directories that are still allocated.           *)
Links(i) ==
  LET dirs == {d \in Inums : dinode[d].type = "dir" /\ dinode[d].addr # None}
  IN {<<d, n>> \in dirs \X Names : dent[dinode[d].addr][n] = i}

(* On the disk the log commits, no name leads to a freed inode: the link   *)
(* count of an inode is at least the number of its names.  The bitmap      *)
(* holds the blocks of the inodes, each of one inode: balloc and bfree     *)
(* lose nothing, and bfree never frees a free block.                       *)
DiskConsistent ==
  /\ \A i \in Inums : Cardinality(Links(i)) <= dinode[i].nlink
  /\ used = {dinode[i].addr : i \in Inums} \ {None}
  /\ Cardinality(used) = Cardinality({i \in Inums : dinode[i].addr # None})

(* No call comes to a panic other than of a full disk: ilock finds no free *)
(* inode, unlink no inode without links, and iput's acquiresleep, under    *)
(* icache.lock, never has to sleep.  And two processes never wait for an   *)
(* inode the other has locked: parent before child, and sys_link unlocks   *)
(* the file before it goes on.                                             *)
NoStuck ==
  /\ \A p \in Procs :
       /\ Wants(p) # None /\ lock[Wants(p)] = Nobody => Ino(Wants(p)).type # "free"
       /\ At(p, "unlink") /\ lock[pr[p].ip] = Nobody => Ino(pr[p].ip).nlink >= 1
       /\ Putting(p, "test") /\ Dying(Head(pr[p].puts)) => lock[Head(pr[p].puts)] = Nobody
  /\ \A p, q \in Procs : Wants(p) # None /\ Wants(q) # None =>
       ~(lock[Wants(p)] = q /\ lock[Wants(q)] = p)

=============================================================================
