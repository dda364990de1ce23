-------------------------------- MODULE Log --------------------------------
(* The redo log of the file system: kernel/log.c, with the part of the     *)
(* buffer cache (kernel/bio.c) it depends on, pinning and eviction, and    *)
(* the disk it writes one block at a time.                                 *)
(*                                                                         *)
(* Each thread runs begin_op, any number of "bread; modify; log_write;     *)
(* brelse" rounds, and end_op.  The last end_op runs commit() one disk     *)
(* write at a time.  A crash may come between any two steps, and again     *)
(* during the recovery that follows it.                                    *)
EXTENDS Integers, Sequences, FiniteSets

CONSTANTS Threads,      \* kernel threads that run file system calls
          Blocks,       \* home locations outside the log
          Values,       \* contents of a block
          NoBuf,        \* "no buffer": not cached, or none held
          MAXOPBLOCKS,  \* blocks begin_op reserves for an operation
          LOGSIZE,      \* blocks begin_op shares out (param.h)
          Nlog,         \* log.size, from the super block: header + data blocks
          OpBlocks      \* distinct blocks one operation really writes

ASSUME LogAssumption ==
  /\ MAXOPBLOCKS \in Nat /\ LOGSIZE \in Nat /\ Nlog \in Nat /\ OpBlocks \in Nat
  /\ Nlog > 0
  /\ NoBuf \notin Values /\ NoBuf \notin Blocks
  /\ IsFiniteSet(Threads)

VARIABLES
  home,         \* disk: block contents at their home locations
  dlog,         \* disk: log data blocks log.start+1 ...
  dhead,        \* disk: the log header block (n and block[])
  lh,           \* log.lh
  outstanding,  \* log.outstanding
  committing,   \* log.committing
  cache,        \* buffer contents, NoBuf when the block has no buffer
  pin,          \* what bpin/bunpin contribute to a buffer's refcnt
  stage,        \* where commit() or recover_from_log() stands
  tail,         \* loop index of write_log and install_trans
  pc,           \* where each thread stands
  wb,           \* the block whose locked buffer a thread passes to log_write
  touched,      \* blocks the current operation of a thread has logged
  panicked

disk  == <<home, dlog, dhead>>
bufs  == <<cache, pin>>
hdr   == <<lh, outstanding, committing>>
thr   == <<pc, wb, touched>>
vars  == <<home, dlog, dhead, lh, outstanding, committing, cache, pin, stage,
           tail, pc, wb, touched, panicked>>

Logged     == {lh[i] : i \in 1..Len(lh)}
BootStages == {"read_head", "recover", "clear"}
Stages     == BootStages \cup
              {"idle", "write_log", "write_head", "install", "erase", "done"}
InOp       == {"op", "check", "append"}

(* Contents of block b for whoever calls bread(): the buffer if there is   *)
(* one, else what the disk read brings in.                                 *)
View(b) == IF cache[b] # NoBuf THEN cache[b] ELSE home[b]

Held(b) == \E t \in Threads : wb[t] = b

(* The image recover_from_log() would build from the disk as it is now.    *)
Recovered ==
  [b \in Blocks |->
     IF \E i \in 1..Len(dhead) : dhead[i] = b
       THEN dlog[CHOOSE i \in 1..Len(dhead) : dhead[i] = b]
       ELSE home[b]]

TypeOK ==
  /\ home \in [Blocks -> Values]
  /\ dlog \in [1..(Nlog - 1) -> Values]
  /\ dhead \in Seq(Blocks) /\ lh \in Seq(Blocks)
  /\ outstanding \in Nat /\ committing \in BOOLEAN
  /\ cache \in [Blocks -> Values \cup {NoBuf}]
  /\ pin \in [Blocks -> Nat]
  /\ stage \in Stages /\ tail \in Nat
  /\ pc \in [Threads -> InOp \cup {"idle", "begin", "asleep", "commit"}]
  /\ wb \in [Threads -> Blocks \cup {NoBuf}]
  /\ touched \in [Threads -> SUBSET Blocks]
  /\ panicked \in BOOLEAN

(* mkfs leaves a zeroed, empty log; the machine is about to run fsinit.    *)
Init ==
  /\ home \in [Blocks -> Values]
  /\ \E zero \in Values : dlog = [i \in 1..(Nlog - 1) |-> zero]
  /\ dhead = <<>> /\ lh = <<>>
  /\ outstanding = 0 /\ committing = FALSE
  /\ cache = [b \in Blocks |-> NoBuf]
  /\ pin = [b \in Blocks |-> 0]
  /\ stage = "read_head" /\ tail = 0
  /\ pc = [t \in Threads |-> "idle"]
  /\ wb = [t \in Threads |-> NoBuf]
  /\ touched = [t \in Threads |-> {}]
  /\ panicked = FALSE

-----------------------------------------------------------------------------
(* wakeup(&log): every thread asleep in begin_op tests its condition anew. *)
Awake(p) == [t \in Threads |-> IF p[t] = "asleep" THEN "begin" ELSE p[t]]

NoSpace == Len(lh) + (outstanding + 1) * MAXOPBLOCKS > LOGSIZE

(* Mutant of begin_op: it does not look at log.committing.                 *)
begin_op_during_commit(t) ==
  /\ pc[t] \in {"idle", "begin"}
  /\ stage \notin BootStages
  /\ IF NoSpace
       THEN /\ pc' = [pc EXCEPT ![t] = "asleep"]
            /\ UNCHANGED outstanding
       ELSE /\ outstanding' = outstanding + 1
            /\ pc' = [pc EXCEPT ![t] = "op"]
  /\ UNCHANGED <<disk, lh, committing, bufs, stage, tail, wb, touched, panicked>>

(* Mutant of begin_op: the operation is not counted.                       *)
begin_op_uncounted(t) ==
  /\ pc[t] \in {"idle", "begin"}
  /\ stage \notin BootStages
  /\ pc' = [pc EXCEPT ![t] = IF committing \/ NoSpace THEN "asleep" ELSE "op"]
  /\ UNCHANGED <<disk, hdr, bufs, stage, tail, wb, touched, panicked>>

(* One round of begin_op's loop, under log.lock: sleep, or join the        *)
(* transaction.                                                            *)
begin_op(t) ==
  /\ pc[t] \in {"idle", "begin"}
  /\ stage \notin BootStages
  /\ IF committing \/ NoSpace
       THEN /\ pc' = [pc EXCEPT ![t] = "asleep"]
            /\ UNCHANGED outstanding
       ELSE /\ outstanding' = outstanding + 1
            /\ pc' = [pc EXCEPT ![t] = "op"]
  /\ UNCHANGED <<disk, lh, committing, bufs, stage, tail, wb, touched, panicked>>

(* bread(b), then change the data; the buffer stays locked for log_write.  *)
Modify(t, b, v) ==
  /\ pc[t] = "op"
  /\ ~Held(b)
  /\ Cardinality(touched[t] \cup {b}) <= OpBlocks
  /\ cache' = [cache EXCEPT ![b] = v]
  /\ wb' = [wb EXCEPT ![t] = b]
  /\ pc' = [pc EXCEPT ![t] = "check"]
  /\ UNCHANGED <<disk, hdr, pin, stage, tail, touched, panicked>>

(* The two tests log_write makes before it takes log.lock.                 *)
log_write_check(t) ==
  /\ pc[t] = "check"
  /\ IF Len(lh) >= LOGSIZE \/ Len(lh) >= Nlog - 1 \/ outstanding < 1
       THEN panicked' = TRUE /\ UNCHANGED pc
       ELSE pc' = [pc EXCEPT ![t] = "append"] /\ UNCHANGED panicked
  /\ UNCHANGED <<disk, hdr, bufs, stage, tail, wb, touched>>

(* The rest of log_write: absorb the block or append and pin it; brelse.   *)
log_write_append(t) ==
  /\ pc[t] = "append"
  /\ IF wb[t] \in Logged
       THEN UNCHANGED <<lh, pin>>
       ELSE /\ lh' = Append(lh, wb[t])
            /\ pin' = [pin EXCEPT ![wb[t]] = @ + 1]
  /\ pc' = [pc EXCEPT ![t] = "op"]
  /\ touched' = [touched EXCEPT ![t] = @ \cup {wb[t]}]
  /\ wb' = [wb EXCEPT ![t] = NoBuf]
  /\ UNCHANGED <<disk, outstanding, committing, cache, stage, tail, panicked>>

(* end_op up to commit(): the last operation out commits, any other wakes  *)
(* the threads waiting for log space.                                      *)
end_op(t) ==
  /\ pc[t] = "op"
  /\ outstanding' = outstanding - 1
  /\ IF committing
       THEN panicked' = TRUE /\ UNCHANGED <<committing, pc, stage>>
     ELSE IF outstanding' = 0
       THEN /\ committing' = TRUE
            /\ pc' = [pc EXCEPT ![t] = "commit"]
            /\ stage' = IF Len(lh) > 0 THEN "write_log" ELSE "done"
            /\ UNCHANGED panicked
       ELSE /\ pc' = Awake([pc EXCEPT ![t] = "idle"])
            /\ UNCHANGED <<committing, stage, panicked>>
  /\ touched' = [touched EXCEPT ![t] = {}]
  /\ UNCHANGED <<disk, lh, bufs, tail, wb>>

-----------------------------------------------------------------------------
(* commit(), one disk write per step.                                      *)

write_log ==
  /\ stage = "write_log"
  /\ dlog' = [dlog EXCEPT ![tail + 1] = View(lh[tail + 1])]
  /\ cache' = [cache EXCEPT ![lh[tail + 1]] = View(lh[tail + 1])]
  /\ IF tail + 1 < Len(lh)
       THEN tail' = tail + 1 /\ UNCHANGED stage
       ELSE tail' = 0 /\ stage' = "write_head"
  /\ UNCHANGED <<home, dhead, hdr, pin, thr, panicked>>

(* Mutant of write_head: commit() forgets install_trans.                   *)
write_head_then_erase ==
  /\ stage = "write_head"
  /\ dhead' = lh
  /\ stage' = "erase"
  /\ UNCHANGED <<home, dlog, hdr, bufs, tail, thr, panicked>>

write_head ==
  /\ stage = "write_head"
  /\ dhead' = lh
  /\ stage' = "install"
  /\ UNCHANGED <<home, dlog, hdr, bufs, tail, thr, panicked>>

(* One iteration of install_trans(recovering).                             *)
install_trans(recovering) ==
  /\ stage = (IF recovering THEN "recover" ELSE "install")
  /\ home' = [home EXCEPT ![lh[tail + 1]] = dlog[tail + 1]]
  /\ cache' = [cache EXCEPT ![lh[tail + 1]] = dlog[tail + 1]]
  /\ pin' = IF recovering THEN pin ELSE [pin EXCEPT ![lh[tail + 1]] = @ - 1]
  /\ IF tail + 1 < Len(lh)
       THEN tail' = tail + 1 /\ UNCHANGED stage
       ELSE /\ tail' = 0
            /\ stage' = IF recovering THEN "clear" ELSE "erase"
  /\ UNCHANGED <<dlog, dhead, hdr, thr, panicked>>

(* log.lh.n = 0; write_head(): the last step of commit() and of recovery.  *)
erase ==
  /\ stage \in {"erase", "clear"}
  /\ lh' = <<>> /\ dhead' = <<>>
  /\ stage' = IF stage = "clear" THEN "idle" ELSE "done"
  /\ UNCHANGED <<home, dlog, outstanding, committing, bufs, tail, thr, panicked>>

(* Mutant of end_commit: log.committing stays set.                         *)
end_commit_keep_flag(t) ==
  /\ pc[t] = "commit" /\ stage = "done"
  /\ stage' = "idle"
  /\ pc' = Awake([pc EXCEPT ![t] = "idle"])
  /\ UNCHANGED <<disk, hdr, bufs, tail, wb, touched, panicked>>

(* end_op after commit().                                                  *)
end_commit(t) ==
  /\ pc[t] = "commit" /\ stage = "done"
  /\ committing' = FALSE
  /\ stage' = "idle"
  /\ pc' = Awake([pc EXCEPT ![t] = "idle"])
  /\ UNCHANGED <<disk, lh, outstanding, bufs, tail, wb, touched, panicked>>

-----------------------------------------------------------------------------
(* Boot, the buffer cache, and the machine going down.                     *)

read_head ==
  /\ stage = "read_head"
  /\ lh' = dhead
  /\ stage' = IF Len(dhead) > 0 THEN "recover" ELSE "clear"
  /\ UNCHANGED <<disk, outstanding, committing, bufs, tail, thr, panicked>>

(* bread() by a call that only reads; it needs no transaction.             *)
bread(b) ==
  /\ stage \notin BootStages
  /\ cache[b] = NoBuf
  /\ cache' = [cache EXCEPT ![b] = home[b]]
  /\ UNCHANGED <<disk, hdr, pin, stage, tail, thr, panicked>>

(* Mutant of bget_recycle: a pinned buffer is taken for unused.            *)
bget_recycle_pinned(b) ==
  /\ stage \notin BootStages
  /\ cache[b] # NoBuf
  /\ ~Held(b)
  /\ cache' = [cache EXCEPT ![b] = NoBuf]
  /\ UNCHANGED <<disk, hdr, pin, stage, tail, thr, panicked>>

(* bget() recycles a buffer nobody references for some other block.        *)
bget_recycle(b) ==
  /\ stage \notin BootStages
  /\ cache[b] # NoBuf
  /\ pin[b] = 0 /\ ~Held(b)
  /\ cache' = [cache EXCEPT ![b] = NoBuf]
  /\ UNCHANGED <<disk, hdr, pin, stage, tail, thr, panicked>>

(* Power loss or reset: only the disk survives.                            *)
Crash ==
  /\ lh' = <<>> /\ outstanding' = 0 /\ committing' = FALSE
  /\ cache' = [b \in Blocks |-> NoBuf]
  /\ pin' = [b \in Blocks |-> 0]
  /\ stage' = "read_head" /\ tail' = 0
  /\ pc' = [t \in Threads |-> "idle"]
  /\ touched' = [t \in Threads |-> {}]
  /\ wb' = [t \in Threads |-> NoBuf]
  /\ panicked' = FALSE
  /\ UNCHANGED disk

OpStep(t) == \/ begin_op(t)
             \/ \E b \in Blocks, v \in Values : Modify(t, b, v)
             \/ log_write_check(t)
             \/ log_write_append(t)
             \/ end_op(t)
             \/ end_commit(t)

CommitStep == write_log \/ write_head \/ install_trans(FALSE) \/ erase

BootStep == read_head \/ install_trans(TRUE)

Up == /\ ~panicked
      /\ \/ \E t \in Threads : OpStep(t)
         \/ CommitStep
         \/ BootStep
         \/ \E b \in Blocks : bread(b) \/ bget_recycle(b)

Next == Up \/ Crash

Spec == Init /\ [][Next]_vars

(* A call that has entered the file system runs to its end_op, the commit  *)
(* and the boot code run, and a woken thread gets the CPU; starting calls, *)
(* reading, eviction and crashes are nobody's duty.                        *)
Fairness ==
  /\ \A t \in Threads :
       /\ WF_vars(~panicked /\ pc[t] = "begin" /\ begin_op(t))
       /\ WF_vars(~panicked /\ (log_write_check(t) \/ log_write_append(t)))
       /\ SF_vars(~panicked /\ end_op(t))
       /\ WF_vars(~panicked /\ end_commit(t))
  /\ WF_vars(~panicked /\ (CommitStep \/ BootStep))

FairSpec == Spec /\ Fairness

-----------------------------------------------------------------------------
(* Crash atomicity: seen through what recovery would rebuild, the log      *)
(* implements an atomic disk.  write_head is the one step that changes the *)
(* stable image; eviction, install_trans and recovery change nothing.      *)
AD == INSTANCE AtomicDisk WITH
        stable <- Recovered,
        mem    <- IF stage \in BootStages THEN Recovered
                  ELSE [b \in Blocks |-> View(b)],
        active <- {t \in Threads : pc[t] \in InOp}

ImplementsAtomicDisk == AD!Spec

(* Durability: when commit() has returned, so that the end_op that ran it  *)
(* can return, a crash would lose nothing of what calls have written.      *)
DurableAfterCommit ==
  stage = "done" => Recovered = [b \in Blocks |-> View(b)]

(* None of log.c's panics is reached: "log.committing", "log_write outside *)
(* of trans", "too big a transaction".                                     *)
NoPanic == ~panicked

(* The transaction fits the log area although log_write tests lh.n before  *)
(* it takes log.lock: write_log never writes past the log into inodes.     *)
LogFits == Len(lh) <= Nlog - 1

(* commit() runs alone: no operation is in progress from the moment the    *)
(* last end_op sets log.committing until it clears it.                     *)
CommitExcludesOps ==
  committing => outstanding = 0 /\ \A t \in Threads : pc[t] \notin InOp

(* A thread that sleeps in begin_op is woken again and again.              *)
SleeperWakes == \A t \in Threads : pc[t] = "asleep" ~> pc[t] # "asleep"
=============================================================================
