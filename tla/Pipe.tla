-------------------------------- MODULE Pipe --------------------------------
(* Pipes, kernel/pipe.c, with the sleep and wakeup they rest on, the kill  *)
(* that interrupts them and the fileclose that calls pipeclose.            *)
(*                                                                         *)
(* One iteration of a copy loop, under pi->lock, is one step.  nread and   *)
(* nwrite are uints and wrap.                                              *)
EXTENDS Integers, FiniteSets, Sequences

CONSTANTS Writers, Readers,   \* the processes with an end of the pipe open
          Bytes,
          PIPESIZE,
          UintMod,            \* 2^32 in the code
          MaxN                \* bound on the bytes of one call

Procs  == Writers \cup Readers
Nobody == "nobody"

ASSUME PipeAssumption ==
  /\ Writers \cap Readers = {} /\ Writers # {} /\ Readers # {} /\ Nobody \notin Procs
  /\ Bytes # {}
  /\ PIPESIZE \in Nat \ {0} /\ MaxN \in Nat \ {0}
  /\ UintMod \in Nat /\ UintMod > PIPESIZE /\ UintMod % PIPESIZE = 0

VARIABLES
  data, nread, nwrite, readopen, writeopen,   \* struct pipe
  lock,     \* holder of pi->lock
  freed,    \* was the pipe's page given to kfree?
  open,     \* the processes that have their end open
  killed,   \* the processes with p->killed
  pc,       \* of each process
  todo,     \* n - i of its call
  got       \* what each reader saw last

pipe == <<data, nread, nwrite, readopen, writeopen, freed>>
vars == <<data, nread, nwrite, readopen, writeopen, lock, freed, open, killed, pc,
          todo, got>>

TypeOK ==
  /\ data \in [0..(PIPESIZE - 1) -> Bytes]
  /\ nread \in 0..(UintMod - 1) /\ nwrite \in 0..(UintMod - 1)
  /\ readopen \in BOOLEAN /\ writeopen \in BOOLEAN /\ freed \in BOOLEAN
  /\ lock \in Procs \cup {Nobody}
  /\ open \subseteq Procs /\ killed \subseteq Procs
  /\ pc \in [Procs -> {"idle", "acquire", "asleep", "loop", "copy", "end"}]
  /\ todo \in [Procs -> 0..MaxN]
  /\ got \in [Readers -> Bytes \cup {"nothing", "eof"}]

(* The page comes from kalloc filled with one junk byte.                   *)
pipealloc ==
  /\ data = [k \in 0..(PIPESIZE - 1) |-> CHOOSE v \in Bytes : TRUE]
  /\ nread = 0 /\ nwrite = 0
  /\ readopen = TRUE /\ writeopen = TRUE /\ freed = FALSE
  /\ lock = Nobody
  /\ open = Procs /\ killed = {}
  /\ pc = [p \in Procs |-> "idle"]
  /\ todo = [p \in Procs |-> 0]
  /\ got = [r \in Readers |-> "nothing"]

-----------------------------------------------------------------------------
Goto(p, at) == pc' = [pc EXCEPT ![p] = at]

(* wakeup(&pi->nread) wakes Readers, wakeup(&pi->nwrite) wakes Writers;    *)
(* the caller p goes to `at'.                                              *)
WakeAnd(set, p, at) ==
  pc' = [q \in Procs |-> IF q = p THEN at
                         ELSE IF q \in set /\ pc[q] = "asleep" THEN "acquire"
                         ELSE pc[q]]

(* Mutant of WakeReaders: the wakeup is left out.                          *)
WakeReaders_not(p, at) == Goto(p, at)

WakeReaders(p, at) == WakeAnd(Readers, p, at)
WakeWriters(p, at) == WakeAnd(Writers, p, at)

Inc(n) == (n + 1) % UintMod

Empty == nread = nwrite

(* Mutant of Full: one byte too many fits.                                 *)
Full_late == nwrite = (nread + PIPESIZE + 1) % UintMod

Full == nwrite = (nread + PIPESIZE) % UintMod

(* A process that is not killed calls read or write with n bytes.          *)
Call(p, n) ==
  /\ pc[p] = "idle" /\ p \in open \ killed
  /\ todo' = [todo EXCEPT ![p] = n]
  /\ Goto(p, "acquire")
  /\ UNCHANGED <<pipe, lock, open, killed, got>>

(* acquire(&pi->lock), at the start of a call or at the end of sleep.      *)
Acquire(p) ==
  /\ pc[p] = "acquire" /\ lock = Nobody
  /\ lock' = p
  /\ Goto(p, "loop")
  /\ UNCHANGED <<pipe, open, killed, todo, got>>

(* pipewrite gives up: no reader is left, or the writer was killed.        *)
write_abort(w) ==
  /\ pc[w] = "loop" /\ todo[w] > 0 /\ (~readopen \/ w \in killed)
  /\ lock' = Nobody
  /\ Goto(w, "idle")
  /\ todo' = [todo EXCEPT ![w] = 0]
  /\ UNCHANGED <<pipe, open, killed, got>>

(* The pipe is full: wake the readers and sleep.                           *)
write_full(w) ==
  /\ pc[w] = "loop" /\ todo[w] > 0 /\ readopen /\ w \notin killed /\ Full
  /\ WakeReaders(w, "asleep")
  /\ lock' = Nobody
  /\ UNCHANGED <<pipe, open, killed, todo, got>>

(* copyin succeeds and a byte is stored, or it fails and the loop ends.    *)
pipewrite(w) ==
  /\ pc[w] = "loop" /\ todo[w] > 0 /\ readopen /\ w \notin killed /\ ~Full
  /\ \/ /\ \E v \in Bytes : data' = [data EXCEPT ![nwrite % PIPESIZE] = v]
        /\ nwrite' = Inc(nwrite)
        /\ todo' = [todo EXCEPT ![w] = @ - 1]
        /\ UNCHANGED pc
     \/ Goto(w, "end") /\ UNCHANGED <<data, nwrite, todo>>
  /\ UNCHANGED <<nread, readopen, writeopen, freed, lock, open, killed, got>>

write_end(w) ==
  /\ pc[w] = "end" \/ (pc[w] = "loop" /\ todo[w] = 0)
  /\ WakeReaders(w, "idle")
  /\ lock' = Nobody
  /\ todo' = [todo EXCEPT ![w] = 0]
  /\ UNCHANGED <<pipe, open, killed, got>>

(* piperead while the pipe is empty and a writer is left: give up when     *)
(* killed, else sleep.                                                     *)
read_wait(r) ==
  /\ pc[r] = "loop" /\ Empty /\ writeopen
  /\ IF r \in killed THEN Goto(r, "idle") /\ todo' = [todo EXCEPT ![r] = 0]
                     ELSE Goto(r, "asleep") /\ UNCHANGED todo
  /\ lock' = Nobody
  /\ UNCHANGED <<pipe, open, killed, got>>

(* The empty loop ends: on to the copy loop; nothing to copy is the end of *)
(* the file.                                                               *)
read_ready(r) ==
  /\ pc[r] = "loop" /\ ~(Empty /\ writeopen)
  /\ IF Empty THEN Goto(r, "end") /\ got' = [got EXCEPT ![r] = "eof"]
              ELSE Goto(r, "copy") /\ UNCHANGED got
  /\ UNCHANGED <<pipe, lock, open, killed, todo>>

(* One byte; if copyout then fails, the byte is gone and the loop ends.    *)
piperead(r) ==
  /\ pc[r] = "copy" /\ todo[r] > 0 /\ ~Empty
  /\ got' = [got EXCEPT ![r] = data[nread % PIPESIZE]]
  /\ nread' = Inc(nread)
  /\ \/ todo' = [todo EXCEPT ![r] = @ - 1] /\ UNCHANGED pc
     \/ Goto(r, "end") /\ UNCHANGED todo
  /\ UNCHANGED <<data, nwrite, readopen, writeopen, freed, lock, open, killed>>

read_end(r) ==
  /\ pc[r] = "end" \/ (pc[r] = "copy" /\ (todo[r] = 0 \/ Empty))
  /\ WakeWriters(r, "idle")
  /\ lock' = Nobody
  /\ todo' = [todo EXCEPT ![r] = 0]
  /\ UNCHANGED <<pipe, open, killed, got>>

(* Mutant of kill: a sleeper is not made RUNNABLE.                         *)
kill_no_wakeup(p) ==
  /\ p \in open \ killed
  /\ killed' = killed \cup {p}
  /\ UNCHANGED pc
  /\ UNCHANGED <<pipe, lock, open, todo, got>>

(* kill: a sleeper becomes RUNNABLE.                                       *)
kill(p) ==
  /\ p \in open \ killed
  /\ killed' = killed \cup {p}
  /\ pc' = [pc EXCEPT ![p] = IF @ = "asleep" THEN "acquire" ELSE @]
  /\ UNCHANGED <<pipe, lock, open, todo, got>>

Unused(left) == left = {}

(* fileclose, by close or exit.  The last close of an end is pipeclose.    *)
pipeclose(p) ==
  LET left == open \ {p} IN
  /\ pc[p] = "idle" /\ p \in open
  /\ open' = left
  /\ IF p \in Writers /\ left \cap Writers = {}
     THEN /\ lock = Nobody
          /\ writeopen' = FALSE /\ UNCHANGED readopen
          /\ WakeReaders(p, "idle")
     ELSE IF p \in Readers /\ left \cap Readers = {}
     THEN /\ lock = Nobody
          /\ readopen' = FALSE /\ UNCHANGED writeopen
          /\ WakeWriters(p, "idle")
     ELSE UNCHANGED <<readopen, writeopen, pc>>
  /\ freed' = Unused(left)
  /\ UNCHANGED <<data, nread, nwrite, lock, killed, todo, got>>

Step(p) ==
  \/ Acquire(p)
  \/ p \in Writers /\ (write_abort(p) \/ write_full(p) \/ pipewrite(p) \/ write_end(p))
  \/ p \in Readers /\ (read_wait(p) \/ read_ready(p) \/ piperead(p) \/ read_end(p))

Next == \E p \in Procs : Step(p) \/ kill(p) \/ pipeclose(p) \/ \E n \in 1..MaxN : Call(p, n)

Spec == pipealloc /\ [][Next]_vars

(* SF: pi->lock is a spin lock; the rest of a step runs with it held.      *)
FairSpec == Spec /\ \A p \in Procs : SF_vars(Step(p))

-----------------------------------------------------------------------------
Count == (nwrite - nread) % UintMod

S == INSTANCE Stream
     WITH Capacity <- PIPESIZE,
          queue <- [k \in 1..Count |-> data[(nread + k - 1) % PIPESIZE]],
          wopen <- writeopen, ropen <- readopen

(* Bytes come out once, in the order they went in, never more than         *)
(* PIPESIZE are in flight, and end-of-file means what it says, also when   *)
(* the counters wrap and readers, writers, kills and closes interleave.    *)
ImplementsStream == S!Spec

(* Who sleeps outside the lock has a reason: for a writer, that the pipe   *)
(* is full and somebody can still read it; for a reader, that it is empty  *)
(* and somebody can still write.  The exception is pipewrite's early       *)
(* return: a killed writer leaves bytes behind and does not call wakeup.   *)
SleepJustified ==
  lock = Nobody =>
    /\ \A w \in Writers : pc[w] = "asleep" => Full /\ readopen
    /\ \A r \in Readers : pc[r] = "asleep" => writeopen /\ (Empty \/ Writers \cap killed # {})

(* A killed process leaves piperead and pipewrite.                         *)
KilledLeaves == \A p \in Procs : p \in killed ~> pc[p] = "idle"

=============================================================================
