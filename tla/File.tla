-------------------------------- MODULE File --------------------------------
(* Open files: the file table (kernel/file.c), the descriptor tables and   *)
(* the system calls on them (kernel/sysfile.c), and making and closing     *)
(* pipes (kernel/pipe.c), with every table able to be full.                *)
(*                                                                         *)
(* What is read from and written to a pipe is a number of bytes here; that *)
(* pipes carry the right bytes and do not lose wakeups is shown in Pipe.   *)
EXTENDS Integers, Sequences, FiniteSets, FiniteSetsExt, Functions

CONSTANTS Procs,     \* process slots, numbered
          NFILE, NOFILE,
          NPIPE,     \* pages kalloc has for pipes
          PIPESIZE

ASSUME FileAssumption ==
  Procs \subseteq Nat /\ {NFILE, NOFILE, NPIPE, PIPESIZE} \subseteq Nat \ {0}

VARIABLES
  ftable,    \* the files: ref, type, pipe, writable, name
  ofile,     \* of each process, the file of each descriptor, 0 for none
  pipes,     \* the pipes: whether allocated, readopen, writeopen, bytes in it
  hold,      \* files a process holds inside sys_pipe, not in a descriptor yet
  closing    \* the copies ff with which a process is still to finish fileclose

filevars == <<ftable, ofile, pipes, hold, closing>>

Files == 1..NFILE
FDs   == 0..(NOFILE - 1)
Free  == [ref |-> 0, type |-> "NONE", pipe |-> 0, writable |-> FALSE, name |-> ""]
Gone  == [used |-> FALSE, readopen |-> FALSE, writeopen |-> FALSE, n |-> 0]

(* The first one that is free, or 0; allocation looks from the front.      *)
First(S) == IF S = {} THEN 0 ELSE Min(S)

filealloc(table) == First({f \in Files : table[f].ref = 0})
PipePage         == First({i \in 1..NPIPE : ~pipes[i].used})

(* fdalloc: a descriptor, or NOFILE for none.                              *)
fdalloc(files) ==
  LET S == {fd \in FDs : files[fd] = 0} IN IF S = {} THEN NOFILE ELSE Min(S)

FileTypeOK ==
  /\ \A f \in Files : /\ ftable[f].ref \in Nat /\ ftable[f].pipe \in 0..NPIPE
                      /\ ftable[f].type \in {"NONE", "PIPE", "INODE"}
  /\ \A p \in Procs : ofile[p] \in [FDs -> 0..NFILE] /\ hold[p] \in Seq(Files)
  /\ \A i \in 1..NPIPE : pipes[i].n \in 0..PIPESIZE

-----------------------------------------------------------------------------
(* The first part of fileclose, under ftable.lock.                         *)
Deref(table, f) ==
  [table EXCEPT ![f] = IF @.ref > 1 THEN [@ EXCEPT !.ref = @ - 1] ELSE Free]

(* What the second part has to do, on the copy ff of the file.             *)
Left(f) == IF ftable[f].ref = 1 /\ ftable[f].type = "PIPE" THEN <<ftable[f]>> ELSE <<>>

fileclose(p, f) ==
  /\ ftable' = Deref(ftable, f)
  /\ closing' = [closing EXCEPT ![p] = @ \o Left(f)]

PipeShut(pi, writable) ==
  LET shut == IF writable THEN [pi EXCEPT !.writeopen = FALSE] ELSE [pi EXCEPT !.readopen = FALSE]
  IN IF ~shut.readopen /\ ~shut.writeopen THEN Gone ELSE shut

(* The second part of fileclose: pipeclose.                                *)
pipeclose(p) ==
  /\ closing[p] # <<>>
  /\ LET ff == Head(closing[p])
     IN pipes' = [pipes EXCEPT ![ff.pipe] = PipeShut(@, ff.writable)]
  /\ closing' = [closing EXCEPT ![p] = Tail(@)]
  /\ UNCHANGED <<ftable, ofile, hold>>

(* A process in user code, not on its way out of a call.                   *)
InUser(p) == closing[p] = <<>> /\ hold[p] = <<>>

(* The system calls; each says when it fails, and then changes nothing.    *)
BadFd(p, fd) == fd \notin FDs \/ ofile[p][fd] = 0

sys_close(p, fd) ==
  /\ ~BadFd(p, fd)
  /\ ofile' = [ofile EXCEPT ![p][fd] = 0]
  /\ fileclose(p, ofile[p][fd])
  /\ UNCHANGED <<pipes, hold>>

DupFails(p, fd) == BadFd(p, fd) \/ fdalloc(ofile[p]) = NOFILE

sys_dup(p, fd) ==
  LET f == ofile[p][fd]
  IN /\ ~DupFails(p, fd)
     /\ ofile' = [ofile EXCEPT ![p][fdalloc(ofile[p])] = f]
     /\ ftable' = [ftable EXCEPT ![f].ref = @ + 1]
     /\ UNCHANGED <<pipes, hold, closing>>

OpenFails(p) == filealloc(ftable) = 0 \/ fdalloc(ofile[p]) = NOFILE

sys_open(p, name) ==
  LET f == filealloc(ftable)
  IN /\ ~OpenFails(p)
     /\ ofile' = [ofile EXCEPT ![p][fdalloc(ofile[p])] = f]
     /\ ftable' = [ftable EXCEPT ![f] = [Free EXCEPT !.ref = 1, !.type = "INODE", !.name = name]]
     /\ UNCHANGED <<pipes, hold, closing>>

(* sys_pipe, first pipealloc, which closes what it got if it fails ...     *)
PipeEnds(i) == <<[Free EXCEPT !.ref = 1, !.type = "PIPE", !.pipe = i],
                 [Free EXCEPT !.ref = 1, !.type = "PIPE", !.pipe = i, !.writable = TRUE]>>

PipeAllocFails ==
  Cardinality({f \in Files : ftable[f].ref = 0}) < 2 \/ PipePage = 0

pipealloc(p) ==
  LET i  == PipePage
      rf == filealloc(ftable)
      wf == filealloc([ftable EXCEPT ![rf].ref = 1])
  IN /\ ~PipeAllocFails
     /\ ftable' = [ftable EXCEPT ![rf] = PipeEnds(i)[1], ![wf] = PipeEnds(i)[2]]
     /\ pipes' = [pipes EXCEPT ![i] = [used |-> TRUE, readopen |-> TRUE, writeopen |-> TRUE, n |-> 0]]
     /\ hold' = [hold EXCEPT ![p] = <<rf, wf>>]
     /\ UNCHANGED <<ofile, closing>>

(* ... then the descriptors, which it takes back if there is only one, or  *)
(* the caller's array cannot be written (faults).                          *)
fd0(p) == fdalloc(ofile[p])
fd1(p) == IF fd0(p) = NOFILE THEN NOFILE ELSE fdalloc([ofile[p] EXCEPT ![fd0(p)] = 1])

(* Mutant of NoRoom: one descriptor is left pointing at a closed file.     *)
NoRoom_half(p) ==
  /\ ofile' = IF fd0(p) = NOFILE THEN ofile ELSE [ofile EXCEPT ![p][fd0(p)] = hold[p][1]]
  /\ ftable' = Deref(Deref(ftable, hold[p][1]), hold[p][2])
  /\ closing' = [closing EXCEPT ![p] = Left(hold[p][1]) \o Left(hold[p][2])]

NoRoom(p) ==
  /\ ftable' = Deref(Deref(ftable, hold[p][1]), hold[p][2])
  /\ closing' = [closing EXCEPT ![p] = Left(hold[p][1]) \o Left(hold[p][2])]
  /\ UNCHANGED ofile

PipeFails(p, faults) == fd1(p) = NOFILE \/ faults

pipe_fds(p, faults) ==
  /\ hold[p] # <<>>
  /\ hold' = [hold EXCEPT ![p] = <<>>]
  /\ IF PipeFails(p, faults) THEN NoRoom(p)
     ELSE /\ ofile' = [ofile EXCEPT ![p][fd0(p)] = hold[p][1], ![p][fd1(p)] = hold[p][2]]
          /\ UNCHANGED <<ftable, closing>>
  /\ UNCHANGED pipes

(* fork's loop over the descriptors.                                       *)
ForkFiles(p, np) ==
  /\ ofile' = [ofile EXCEPT ![np] = ofile[p]]
  /\ ftable' = [f \in Files |->
                  [ftable[f] EXCEPT !.ref = @ + Cardinality({fd \in FDs : ofile[p][fd] = f})]]
  /\ UNCHANGED <<pipes, hold, closing>>

-----------------------------------------------------------------------------
(* read and write of one byte: the end of the file of descriptor fd, and   *)
(* what piperead and pipewrite wait for and return.                        *)
IsPipe(p, fd)  == ~BadFd(p, fd) /\ ftable[ofile[p][fd]].type = "PIPE"
PipeOf(p, fd)  == pipes[ftable[ofile[p][fd]].pipe]
Writer(p, fd)  == ftable[ofile[p][fd]].writable

ReadBlocks(p, fd)  == IsPipe(p, fd) /\ ~Writer(p, fd) /\ PipeOf(p, fd).n = 0 /\ PipeOf(p, fd).writeopen
ReadGets(p, fd)    == IsPipe(p, fd) /\ ~Writer(p, fd) /\ PipeOf(p, fd).n > 0
WriteBlocks(p, fd) == /\ IsPipe(p, fd) /\ Writer(p, fd)
                      /\ PipeOf(p, fd).n = PIPESIZE /\ PipeOf(p, fd).readopen
WriteFails(p, fd)  == \/ BadFd(p, fd)
                      \/ IsPipe(p, fd) /\ (~Writer(p, fd) \/ ~PipeOf(p, fd).readopen)

Bytes(p, fd, k) ==
  /\ pipes' = IF IsPipe(p, fd) THEN [pipes EXCEPT ![ftable[ofile[p][fd]].pipe].n = @ + k] ELSE pipes
  /\ UNCHANGED <<ftable, ofile, hold, closing>>

-----------------------------------------------------------------------------
Uses(f) ==
  Cardinality({<<p, fd>> \in Procs \X FDs : ofile[p][fd] = f})
  + Cardinality({p \in Procs : f \in Range(hold[p])})

(* An end of a pipe is wanted while a file stands for it, or a fileclose   *)
(* that is not finished.                                                   *)
EndOpen(i, w) ==
  \/ \E f \in Files : ftable[f].ref > 0 /\ ftable[f].type = "PIPE"
                      /\ ftable[f].pipe = i /\ ftable[f].writable = w
  \/ \E p \in Procs : \E k \in DOMAIN closing[p] :
       closing[p][k].pipe = i /\ closing[p][k].writable = w

(* f->ref counts exactly the descriptors of f, through fork, dup, close,   *)
(* exit and every failure of open and pipe; a free file has none; and an   *)
(* end of a pipe is open exactly as long as there is a file for it, so a   *)
(* reader sees end of file once the last writer is gone, not before, and   *)
(* the page of a pipe is given back once.                                  *)
FilesExact ==
  /\ \A f \in Files : ftable[f].ref = Uses(f) /\ (ftable[f].ref = 0 <=> ftable[f] = Free)
  /\ \A i \in 1..NPIPE : /\ pipes[i].readopen = EndOpen(i, FALSE)
                         /\ pipes[i].writeopen = EndOpen(i, TRUE)
                         /\ pipes[i].used = (pipes[i].readopen \/ pipes[i].writeopen)
=============================================================================
