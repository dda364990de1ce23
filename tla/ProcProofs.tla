----------------------------- MODULE ProcProofs -----------------------------
(* Theorems about Proc, for a process table of any size.                   *)
EXTENDS Proc, TLAPS

(* A leaf goes to Zenon, unless it names the SMT solver, which alone does   *)
(* arithmetic.                                                             *)
USE ZenonT(60)

(* p->state and where the kernel thread stands.                            *)
StageInv ==
  \A p \in Slots :
    /\ state[p] = "UNUSED" => pc[p] = "none"
    /\ state[p] = "ZOMBIE" => pc[p] \in {"none", "exit_sched"}
    /\ state[p] = "SLEEPING" => pc[p] = "waiting" /\ chan[p] = p
    /\ state[p] = "RUNNABLE" => pc[p] \in {"user", "waiting"}
    /\ state[p] = "RUNNING" => pc[p] \notin {"waiting", "exit_sched"}
    /\ pc[p] \in {"alloc", "wait", "exit_reparent"} => np[p] \in 1..(NPROC + 1)

InitprocInv ==
  /\ state[initproc] \notin {"UNUSED", "ZOMBIE"} /\ pc[initproc] \notin ExitPcs
  /\ parent[initproc] = None

(* A slot in use has a parent, and that one is alive.                      *)
FamilyInv ==
  \A p \in Slots \ {initproc} :
    IF state[p] = "UNUSED" THEN parent[p] = None
    ELSE parent[p] \in Slots /\ state[parent[p]] \notin {"UNUSED", "ZOMBIE"}

(* The locks a process holds from one step to the next.                    *)
LockInv ==
  \A p \in Slots :
    /\ pc[p] = "fork" => np[p] \in Slots /\ lock[np[p]] = p /\ state[np[p]] = "UNUSED"
    /\ pc[p] \in {"wait", "exit_reparent", "exit_sched"} => lock[p] = p
    /\ pc[p] \in {"exit_lock_self", "exit_reparent"} => lock[original[p]] = p
    /\ pc[p] = "exit_reparent" => original[p] # p

(* exit locks the parent it found, or the child has been given to init.    *)
OriginalInv ==
  \A p \in Slots : pc[p] \in {"exit_lock_parent", "exit_lock_self", "exit_reparent"} =>
    original[p] \in Slots /\ parent[p] \in {original[p], initproc}

(* What the scans of wait and of reparent have behind them.                *)
ScanInv ==
  \A p \in Slots \ {initproc}, r \in Slots :
    r < np[p] /\ parent[r] = p =>
      /\ pc[p] = "wait" => state[r] # "ZOMBIE"
      /\ pc[p] # "exit_reparent"

WakeInv ==
  \A p \in Slots \ {initproc} :
    state[p] = "ZOMBIE" /\ parent[p] # initproc => state[parent[p]] # "SLEEPING"

PInv ==
  /\ TypeOK /\ StageInv /\ InitprocInv /\ FamilyInv /\ LockInv /\ OriginalInv
  /\ ScanInv /\ WakeInv

-----------------------------------------------------------------------------
(* Facts about the process table's slots.                                  *)
LEMMA SlotFacts ==
  /\ NPROC \in Nat /\ NPROC > 1 /\ initproc \in Slots /\ None \notin Slots
  /\ Slots = 1..NPROC /\ initproc = 1 /\ None = 0
BY SMTT(60), ProcAssumption DEF Slots, initproc, None

(* A process calls fork.                                                   *)
LEMMA ForkCallStep ==
  ASSUME PInv, NEW p \in Slots,
         ForkCall(p)
  PROVE  PInv'
<1> USE SlotFacts DEF ForkCall, Running, Free, Goto, Cursor
<1>1. TypeOK'
  BY SMTT(60) DEF PInv, TypeOK, StageInv, OriginalInv, Pcs, ExitPcs, ProcStates
<1>2. StageInv'
  BY SMTT(60) DEF PInv, TypeOK, StageInv, InitprocInv
<1>3. InitprocInv'
  BY SMTT(60) DEF PInv, TypeOK, InitprocInv, StageInv, LockInv, FamilyInv, ExitPcs
<1>4. FamilyInv'
  BY SMTT(60) DEF PInv, TypeOK, FamilyInv, StageInv, InitprocInv, LockInv, ScanInv
<1>5. LockInv'
  BY SMTT(60) DEF PInv, TypeOK, LockInv, StageInv, InitprocInv, OriginalInv
<1>6. OriginalInv'
  BY SMTT(60) DEF PInv, TypeOK, OriginalInv, StageInv, InitprocInv, FamilyInv, LockInv
<1>7. ScanInv'
  BY SMTT(60) DEF PInv, TypeOK, ScanInv, StageInv, InitprocInv, FamilyInv, LockInv, OriginalInv
<1>8. WakeInv'
  BY SMTT(60) DEF PInv, TypeOK, WakeInv, StageInv, InitprocInv, FamilyInv, LockInv, OriginalInv, ScanInv
<1>9. QED
  BY <1>1, <1>2, <1>3, <1>4, <1>5, <1>6, <1>7, <1>8 DEF PInv

(* allocproc: the slot is UNUSED.                                          *)
LEMMA AllocFound ==
  ASSUME PInv, NEW p \in Slots,
         Running(p, "alloc"),
         np[p] <= NPROC,
         Free(np[p]),
         state[np[p]] = "UNUSED",
         lock' = [lock EXCEPT ![np[p]] = p],
         Goto(p, "fork"),
         UNCHANGED <<np, state, parent, chan, killed, havekids, original, shell>>
  PROVE  PInv'
<1> USE SlotFacts DEF Running, Free, Goto, Cursor
<1>1. TypeOK'
  BY DEF PInv, TypeOK, StageInv, OriginalInv, Pcs, ExitPcs, ProcStates
<1>2. StageInv'
  BY SMTT(60) DEF PInv, TypeOK, StageInv, InitprocInv
<1>3. InitprocInv'
  BY SMTT(60) DEF PInv, TypeOK, InitprocInv, StageInv, LockInv, FamilyInv, ExitPcs
<1>4. FamilyInv'
  BY SMTT(60) DEF PInv, TypeOK, FamilyInv, StageInv, InitprocInv, LockInv, ScanInv
<1>5. LockInv'
  BY SMTT(60) DEF PInv, TypeOK, LockInv, StageInv, InitprocInv, OriginalInv
<1>6. OriginalInv'
  BY SMTT(60) DEF PInv, TypeOK, OriginalInv, StageInv, InitprocInv, FamilyInv, LockInv
<1>7. ScanInv'
  BY SMTT(60) DEF PInv, TypeOK, ScanInv, StageInv, InitprocInv, FamilyInv, LockInv, OriginalInv
<1>8. WakeInv'
  BY SMTT(60) DEF PInv, TypeOK, WakeInv, StageInv, InitprocInv, FamilyInv, LockInv, OriginalInv, ScanInv
<1>9. QED
  BY <1>1, <1>2, <1>3, <1>4, <1>5, <1>6, <1>7, <1>8 DEF PInv

(* allocproc: the slot is in use.                                          *)
LEMMA AllocNext ==
  ASSUME PInv, NEW p \in Slots,
         Running(p, "alloc"),
         np[p] <= NPROC,
         Cursor(p, np[p] + 1),
         UNCHANGED <<lock, pc, state, parent, chan, killed, havekids, original, shell>>
  PROVE  PInv'
<1> USE SlotFacts DEF Running, Free, Goto, Cursor
<1>1. TypeOK'
  BY SMTT(60) DEF PInv, TypeOK, StageInv, OriginalInv, Pcs, ExitPcs, ProcStates
<1>2. StageInv'
  BY SMTT(60) DEF PInv, TypeOK, StageInv, InitprocInv
<1>3. InitprocInv'
  BY DEF PInv, TypeOK, InitprocInv, StageInv, LockInv, FamilyInv, ExitPcs
<1>4. FamilyInv'
  BY SMTT(60) DEF PInv, TypeOK, FamilyInv, StageInv, InitprocInv, LockInv, ScanInv
<1>5. LockInv'
  BY SMTT(60) DEF PInv, TypeOK, LockInv, StageInv, InitprocInv, OriginalInv
<1>6. OriginalInv'
  BY SMTT(60) DEF PInv, TypeOK, OriginalInv, StageInv, InitprocInv, FamilyInv, LockInv
<1>7. ScanInv'
  BY SMTT(60) DEF PInv, TypeOK, ScanInv, StageInv, InitprocInv, FamilyInv, LockInv, OriginalInv
<1>8. WakeInv'
  BY SMTT(60) DEF PInv, TypeOK, WakeInv, StageInv, InitprocInv, FamilyInv, LockInv, OriginalInv, ScanInv
<1>9. QED
  BY <1>1, <1>2, <1>3, <1>4, <1>5, <1>6, <1>7, <1>8 DEF PInv

(* allocproc: no slot, or fork without memory.                             *)
LEMMA AllocFails ==
  ASSUME PInv, NEW p \in Slots,
         Running(p, "alloc") \/ Running(p, "fork"),
         Goto(p, AfterFailure(p)),
         Cursor(p, 0),
         lock' = lock \/ (pc[p] = "fork" /\ lock' = [lock EXCEPT ![np[p]] = None]),
         UNCHANGED <<state, parent, chan, killed, havekids, original, shell>>
  PROVE  PInv'
<1> USE SlotFacts DEF Running, Free, Goto, Cursor, AfterFailure
<1>10. pc[p] = "fork" => np[p] \in Slots /\ lock[np[p]] = p
  BY DEF PInv, LockInv
<1>11. lock' \in [Slots -> Slots \cup {None}] /\ \A x \in Slots : lock'[x] = lock[x] \/ lock[x] = p
  BY <1>10 DEF PInv, TypeOK
<1>12. pc' = [pc EXCEPT ![p] = AfterFailure(p)] /\ AfterFailure(p) \in {"none", "user"}
  BY <1>10, <1>11 DEF AfterFailure
<1>1. TypeOK'
  BY SMTT(60), <1>10, <1>11, <1>12 DEF PInv, TypeOK, StageInv, OriginalInv, Pcs, ExitPcs, ProcStates
<1>2. StageInv'
  BY SMTT(60), <1>10, <1>11, <1>12 DEF PInv, TypeOK, StageInv, InitprocInv
<1>3. InitprocInv'
  BY SMTT(60), <1>10, <1>11, <1>12 DEF PInv, TypeOK, InitprocInv, StageInv, LockInv, FamilyInv, ExitPcs
<1>4. FamilyInv'
  BY SMTT(60), <1>10, <1>11, <1>12 DEF PInv, TypeOK, FamilyInv, StageInv, InitprocInv, LockInv, ScanInv
<1>5. LockInv'
  BY SMTT(60), <1>10, <1>11, <1>12 DEF PInv, TypeOK, LockInv, StageInv, InitprocInv, OriginalInv
<1>6. OriginalInv'
  BY SMTT(60), <1>10, <1>11, <1>12 DEF PInv, TypeOK, OriginalInv, StageInv, InitprocInv, FamilyInv, LockInv
<1>7. ScanInv'
  BY SMTT(60), <1>10, <1>11, <1>12 DEF PInv, TypeOK, ScanInv, StageInv, InitprocInv, FamilyInv, LockInv, OriginalInv
<1>8. WakeInv'
  BY SMTT(60), <1>10, <1>11, <1>12 DEF PInv, TypeOK, WakeInv, StageInv, InitprocInv, FamilyInv, LockInv, OriginalInv, ScanInv
<1>9. QED
  BY <1>1, <1>2, <1>3, <1>4, <1>5, <1>6, <1>7, <1>8 DEF PInv

(* fork: a child.                                                          *)
LEMMA ForkChild ==
  ASSUME PInv, NEW p \in Slots,
         Running(p, "fork"),
         state' = [state EXCEPT ![np[p]] = "RUNNABLE"],
         parent' = [parent EXCEPT ![np[p]] = p],
         pc' = [pc EXCEPT ![np[p]] = "user", ![p] = "user"],
         shell' \in Slots \cup {None},
         lock' = [lock EXCEPT ![np[p]] = None],
         Cursor(p, 0),
         UNCHANGED <<chan, killed, havekids, original>>
  PROVE  PInv'
<1> USE SlotFacts DEF Running, Free, Goto, Cursor
<1>10. np[p] \in Slots
  BY DEF PInv, LockInv
<1>11. state' \in [Slots -> ProcStates] /\ pc' \in [Slots -> Pcs]
  BY <1>10 DEF PInv, TypeOK, ProcStates, Pcs, ExitPcs
<1>12. /\ lock' \in [Slots -> Slots \cup {None}] /\ np' \in [Slots -> 0..(NPROC + 1)]
       /\ parent' \in [Slots -> Slots \cup {None}]
  BY SMTT(60), <1>10, <1>11 DEF PInv, TypeOK
<1>1. TypeOK'
  BY <1>10, <1>11, <1>12 DEF PInv, TypeOK
<1>2. StageInv'
  BY SMTT(60), <1>10 DEF PInv, TypeOK, StageInv, InitprocInv
<1>3. InitprocInv'
  BY SMTT(60), <1>10 DEF PInv, TypeOK, InitprocInv, StageInv, LockInv, FamilyInv, ExitPcs
<1>4. FamilyInv'
  BY SMTT(60), <1>10 DEF PInv, TypeOK, FamilyInv, StageInv, InitprocInv, LockInv, ScanInv
<1>5. LockInv'
  BY SMTT(60), <1>10 DEF PInv, TypeOK, LockInv, StageInv, InitprocInv, OriginalInv
<1>6. OriginalInv'
  BY SMTT(60), <1>10 DEF PInv, TypeOK, OriginalInv, StageInv, InitprocInv, FamilyInv, LockInv
<1>7. ScanInv'
  BY SMTT(60), <1>10 DEF PInv, TypeOK, ScanInv, StageInv, InitprocInv, FamilyInv, LockInv, OriginalInv
<1>8. WakeInv'
  BY SMTT(60), <1>10 DEF PInv, TypeOK, WakeInv, StageInv, InitprocInv, FamilyInv, LockInv, OriginalInv, ScanInv
<1>9. QED
  BY <1>1, <1>2, <1>3, <1>4, <1>5, <1>6, <1>7, <1>8 DEF PInv

(* The scheduler runs a process that sleeps in wait.                       *)
LEMMA ResumeWait ==
  ASSUME PInv, NEW p \in Slots,
         state[p] = "RUNNABLE",
         Free(p),
         state' = [state EXCEPT ![p] = "RUNNING"],
         chan' = [chan EXCEPT ![p] = None],
         pc[p] = "waiting",
         lock' = [lock EXCEPT ![p] = p],
         Goto(p, "wait"),
         Cursor(p, 1),
         havekids' = [havekids EXCEPT ![p] = FALSE],
         UNCHANGED <<parent, killed, original, shell>>
  PROVE  PInv'
<1> USE SlotFacts DEF Running, Free, Goto, Cursor
<1>1. TypeOK'
  BY SMTT(60) DEF PInv, TypeOK, StageInv, OriginalInv, Pcs, ExitPcs, ProcStates
<1>2. StageInv'
  BY SMTT(60) DEF PInv, TypeOK, StageInv, InitprocInv
<1>3. InitprocInv'
  BY SMTT(60) DEF PInv, TypeOK, InitprocInv, StageInv, LockInv, FamilyInv, ExitPcs
<1>4. FamilyInv'
  BY SMTT(60) DEF PInv, TypeOK, FamilyInv, StageInv, InitprocInv, LockInv, ScanInv
<1>5. LockInv'
  BY SMTT(60) DEF PInv, TypeOK, LockInv, StageInv, InitprocInv, OriginalInv
<1>6. OriginalInv'
  BY SMTT(60) DEF PInv, TypeOK, OriginalInv, StageInv, InitprocInv, FamilyInv, LockInv
<1>7. ScanInv'
  BY SMTT(60) DEF PInv, TypeOK, ScanInv, StageInv, InitprocInv, FamilyInv, LockInv, OriginalInv
<1>8. WakeInv'
  BY SMTT(60) DEF PInv, TypeOK, WakeInv, StageInv, InitprocInv, FamilyInv, LockInv, OriginalInv, ScanInv
<1>9. QED
  BY <1>1, <1>2, <1>3, <1>4, <1>5, <1>6, <1>7, <1>8 DEF PInv

(* The scheduler runs another process.                                     *)
LEMMA ResumeUser ==
  ASSUME PInv, NEW p \in Slots,
         state[p] = "RUNNABLE",
         state' = [state EXCEPT ![p] = "RUNNING"],
         chan' = [chan EXCEPT ![p] = None],
         pc[p] # "waiting",
         UNCHANGED <<parent, killed, original, shell, lock, pc, np, havekids>>
  PROVE  PInv'
<1> USE SlotFacts DEF Running, Free, Goto, Cursor
<1>1. TypeOK'
  BY DEF PInv, TypeOK, StageInv, OriginalInv, Pcs, ExitPcs, ProcStates
<1>2. StageInv'
  BY SMTT(60) DEF PInv, TypeOK, StageInv, InitprocInv
<1>3. InitprocInv'
  BY SMTT(60) DEF PInv, TypeOK, InitprocInv, StageInv, LockInv, FamilyInv, ExitPcs
<1>4. FamilyInv'
  BY SMTT(60) DEF PInv, TypeOK, FamilyInv, StageInv, InitprocInv, LockInv, ScanInv
<1>5. LockInv'
  BY SMTT(60) DEF PInv, TypeOK, LockInv, StageInv, InitprocInv, OriginalInv
<1>6. OriginalInv'
  BY SMTT(60) DEF PInv, TypeOK, OriginalInv, StageInv, InitprocInv, FamilyInv, LockInv
<1>7. ScanInv'
  BY SMTT(60) DEF PInv, TypeOK, ScanInv, StageInv, InitprocInv, FamilyInv, LockInv, OriginalInv
<1>8. WakeInv'
  BY SMTT(60) DEF PInv, TypeOK, WakeInv, StageInv, InitprocInv, FamilyInv, LockInv, OriginalInv, ScanInv
<1>9. QED
  BY <1>1, <1>2, <1>3, <1>4, <1>5, <1>6, <1>7, <1>8 DEF PInv

(* A process gives up the CPU.                                             *)
LEMMA YieldStep ==
  ASSUME PInv, NEW p \in Slots,
         yield(p)
  PROVE  PInv'
<1> USE SlotFacts DEF yield, Running, Free, Goto, Cursor
<1>1. TypeOK'
  BY DEF PInv, TypeOK, StageInv, OriginalInv, Pcs, ExitPcs, ProcStates
<1>2. StageInv'
  BY SMTT(60) DEF PInv, TypeOK, StageInv, InitprocInv
<1>3. InitprocInv'
  BY SMTT(60) DEF PInv, TypeOK, InitprocInv, StageInv, LockInv, FamilyInv, ExitPcs
<1>4. FamilyInv'
  BY SMTT(60) DEF PInv, TypeOK, FamilyInv, StageInv, InitprocInv, LockInv, ScanInv
<1>5. LockInv'
  BY SMTT(60) DEF PInv, TypeOK, LockInv, StageInv, InitprocInv, OriginalInv
<1>6. OriginalInv'
  BY SMTT(60) DEF PInv, TypeOK, OriginalInv, StageInv, InitprocInv, FamilyInv, LockInv
<1>7. ScanInv'
  BY SMTT(60) DEF PInv, TypeOK, ScanInv, StageInv, InitprocInv, FamilyInv, LockInv, OriginalInv
<1>8. WakeInv'
  BY SMTT(60) DEF PInv, TypeOK, WakeInv, StageInv, InitprocInv, FamilyInv, LockInv, OriginalInv, ScanInv
<1>9. QED
  BY <1>1, <1>2, <1>3, <1>4, <1>5, <1>6, <1>7, <1>8 DEF PInv

(* kill sets killed under p->lock and makes a sleeper RUNNABLE.            *)
LEMMA KillStep ==
  ASSUME PInv, NEW p \in Slots,
         NEW q \in Slots,
         kill(p, q)
  PROVE  PInv'
<1> USE SlotFacts DEF kill, Running, Free, Goto, Cursor
<1>1. TypeOK'
  BY SMTT(60) DEF PInv, TypeOK, StageInv, OriginalInv, Pcs, ExitPcs, ProcStates
<1>2. StageInv'
  BY SMTT(60) DEF PInv, TypeOK, StageInv, InitprocInv
<1>3. InitprocInv'
  BY SMTT(60) DEF PInv, TypeOK, InitprocInv, StageInv, LockInv, FamilyInv, ExitPcs
<1>4. FamilyInv'
  BY SMTT(60) DEF PInv, TypeOK, FamilyInv, StageInv, InitprocInv, LockInv, ScanInv
<1>5. LockInv'
  BY SMTT(60) DEF PInv, TypeOK, LockInv, StageInv, InitprocInv, OriginalInv
<1>6. OriginalInv'
  BY SMTT(60) DEF PInv, TypeOK, OriginalInv, StageInv, InitprocInv, FamilyInv, LockInv
<1>7. ScanInv'
  BY SMTT(60) DEF PInv, TypeOK, ScanInv, StageInv, InitprocInv, FamilyInv, LockInv, OriginalInv
<1>8. WakeInv'
  BY SMTT(60) DEF PInv, TypeOK, WakeInv, StageInv, InitprocInv, FamilyInv, LockInv, OriginalInv, ScanInv
<1>9. QED
  BY <1>1, <1>2, <1>3, <1>4, <1>5, <1>6, <1>7, <1>8 DEF PInv

(* wait takes the caller's p->lock.                                        *)
LEMMA WaitCallStep ==
  ASSUME PInv, NEW p \in Slots,
         WaitCall(p)
  PROVE  PInv'
<1> USE SlotFacts DEF WaitCall, Running, Free, Goto, Cursor
<1>1. TypeOK'
  BY SMTT(60) DEF PInv, TypeOK, StageInv, OriginalInv, Pcs, ExitPcs, ProcStates
<1>2. StageInv'
  BY SMTT(60) DEF PInv, TypeOK, StageInv, InitprocInv
<1>3. InitprocInv'
  BY SMTT(60) DEF PInv, TypeOK, InitprocInv, StageInv, LockInv, FamilyInv, ExitPcs
<1>4. FamilyInv'
  BY SMTT(60) DEF PInv, TypeOK, FamilyInv, StageInv, InitprocInv, LockInv, ScanInv
<1>5. LockInv'
  BY SMTT(60) DEF PInv, TypeOK, LockInv, StageInv, InitprocInv, OriginalInv
<1>6. OriginalInv'
  BY SMTT(60) DEF PInv, TypeOK, OriginalInv, StageInv, InitprocInv, FamilyInv, LockInv
<1>7. ScanInv'
  BY SMTT(60) DEF PInv, TypeOK, ScanInv, StageInv, InitprocInv, FamilyInv, LockInv, OriginalInv
<1>8. WakeInv'
  BY SMTT(60) DEF PInv, TypeOK, WakeInv, StageInv, InitprocInv, FamilyInv, LockInv, OriginalInv, ScanInv
<1>9. QED
  BY <1>1, <1>2, <1>3, <1>4, <1>5, <1>6, <1>7, <1>8 DEF PInv

(* wait: not a child, or a child that is not a zombie.                     *)
LEMMA ScanNext ==
  ASSUME PInv, NEW p \in Slots,
         Running(p, "wait"),
         np[p] <= NPROC,
         parent[np[p]] # p \/ state[np[p]] # "ZOMBIE",
         Cursor(p, np[p] + 1),
         havekids' \in [Slots -> BOOLEAN],
         UNCHANGED <<state, parent, chan, killed, lock, pc, original, shell>>
  PROVE  PInv'
<1> USE SlotFacts DEF Running, Free, Goto, Cursor
<1>1. TypeOK'
  BY SMTT(60) DEF PInv, TypeOK, StageInv, OriginalInv, Pcs, ExitPcs, ProcStates
<1>2. StageInv'
  BY SMTT(60) DEF PInv, TypeOK, StageInv, InitprocInv
<1>3. InitprocInv'
  BY DEF PInv, TypeOK, InitprocInv, StageInv, LockInv, FamilyInv, ExitPcs
<1>4. FamilyInv'
  BY SMTT(60) DEF PInv, TypeOK, FamilyInv, StageInv, InitprocInv, LockInv, ScanInv
<1>5. LockInv'
  BY SMTT(60) DEF PInv, TypeOK, LockInv, StageInv, InitprocInv, OriginalInv
<1>6. OriginalInv'
  BY SMTT(60) DEF PInv, TypeOK, OriginalInv, StageInv, InitprocInv, FamilyInv, LockInv
<1>7. ScanInv'
  BY SMTT(60) DEF PInv, TypeOK, ScanInv, StageInv, InitprocInv, FamilyInv, LockInv, OriginalInv
<1>8. WakeInv'
  BY SMTT(60) DEF PInv, TypeOK, WakeInv, StageInv, InitprocInv, FamilyInv, LockInv, OriginalInv, ScanInv
<1>9. QED
  BY <1>1, <1>2, <1>3, <1>4, <1>5, <1>6, <1>7, <1>8 DEF PInv

(* wait: freeproc of a zombie child.                                       *)
LEMMA ScanReaps ==
  ASSUME PInv, NEW p \in Slots,
         Running(p, "wait"),
         np[p] <= NPROC,
         NEW q \in Slots,
         q = np[p],
         parent[q] = p,
         Free(q),
         state[q] = "ZOMBIE",
         lock' = [lock EXCEPT ![p] = None],
         Cursor(p, 0),
         state' = [state EXCEPT ![q] = "UNUSED"],
         parent' = [parent EXCEPT ![q] = None],
         chan' = [chan EXCEPT ![q] = None],
         killed' = [killed EXCEPT ![q] = FALSE],
         original' = [original EXCEPT ![q] = None],
         pc' = [pc EXCEPT ![p] = "user", ![q] = "none"],
         shell' \in Slots \cup {None},
         UNCHANGED havekids
  PROVE  PInv'
<1> USE SlotFacts DEF Running, Free, Goto, Cursor
<1>1. TypeOK'
  BY SMTT(60) DEF PInv, TypeOK, StageInv, OriginalInv, Pcs, ExitPcs, ProcStates
<1>2. StageInv'
  BY SMTT(60) DEF PInv, TypeOK, StageInv, InitprocInv
<1>3. InitprocInv'
  BY SMTT(60) DEF PInv, TypeOK, InitprocInv, StageInv, LockInv, FamilyInv, ExitPcs
<1>4. FamilyInv'
  BY SMTT(60) DEF PInv, TypeOK, FamilyInv, StageInv, InitprocInv, LockInv, ScanInv
<1>5. LockInv'
  BY SMTT(60) DEF PInv, TypeOK, LockInv, StageInv, InitprocInv, OriginalInv
<1>6. OriginalInv'
  BY SMTT(60) DEF PInv, TypeOK, OriginalInv, StageInv, InitprocInv, FamilyInv, LockInv
<1>7. ScanInv'
  BY SMTT(60) DEF PInv, TypeOK, ScanInv, StageInv, InitprocInv, FamilyInv, LockInv, OriginalInv
<1>8. WakeInv'
  BY SMTT(60) DEF PInv, TypeOK, WakeInv, StageInv, InitprocInv, FamilyInv, LockInv, OriginalInv, ScanInv
<1>9. QED
  BY <1>1, <1>2, <1>3, <1>4, <1>5, <1>6, <1>7, <1>8 DEF PInv

(* wait returns without freeing a child.                                   *)
LEMMA WaitReturns ==
  ASSUME PInv, NEW p \in Slots,
         Running(p, "wait"),
         lock' = [lock EXCEPT ![p] = None],
         Cursor(p, 0),
         Goto(p, "user"),
         UNCHANGED <<state, parent, chan, killed, original, shell, havekids>>
  PROVE  PInv'
<1> USE SlotFacts DEF Running, Free, Goto, Cursor
<1>1. TypeOK'
  BY SMTT(60) DEF PInv, TypeOK, StageInv, OriginalInv, Pcs, ExitPcs, ProcStates
<1>2. StageInv'
  BY SMTT(60) DEF PInv, TypeOK, StageInv, InitprocInv
<1>3. InitprocInv'
  BY SMTT(60) DEF PInv, TypeOK, InitprocInv, StageInv, LockInv, FamilyInv, ExitPcs
<1>4. FamilyInv'
  BY SMTT(60) DEF PInv, TypeOK, FamilyInv, StageInv, InitprocInv, LockInv, ScanInv
<1>5. LockInv'
  BY SMTT(60) DEF PInv, TypeOK, LockInv, StageInv, InitprocInv, OriginalInv
<1>6. OriginalInv'
  BY SMTT(60) DEF PInv, TypeOK, OriginalInv, StageInv, InitprocInv, FamilyInv, LockInv
<1>7. ScanInv'
  BY SMTT(60) DEF PInv, TypeOK, ScanInv, StageInv, InitprocInv, FamilyInv, LockInv, OriginalInv
<1>8. WakeInv'
  BY SMTT(60) DEF PInv, TypeOK, WakeInv, StageInv, InitprocInv, FamilyInv, LockInv, OriginalInv, ScanInv
<1>9. QED
  BY <1>1, <1>2, <1>3, <1>4, <1>5, <1>6, <1>7, <1>8 DEF PInv

(* wait sleeps, having scanned all of the table.                           *)
LEMMA WaitSleeps ==
  ASSUME PInv, NEW p \in Slots,
         Running(p, "wait"),
         np[p] > NPROC,
         lock' = [lock EXCEPT ![p] = None],
         Cursor(p, 0),
         chan' = [chan EXCEPT ![p] = p],
         state' = [state EXCEPT ![p] = "SLEEPING"],
         Goto(p, "waiting"),
         UNCHANGED <<parent, killed, original, shell, havekids>>
  PROVE  PInv'
<1> USE SlotFacts DEF Running, Free, Goto, Cursor
<1>1. TypeOK'
  BY SMTT(60) DEF PInv, TypeOK, StageInv, OriginalInv, Pcs, ExitPcs, ProcStates
<1>2. StageInv'
  BY SMTT(60) DEF PInv, TypeOK, StageInv, InitprocInv
<1>3. InitprocInv'
  BY SMTT(60) DEF PInv, TypeOK, InitprocInv, StageInv, LockInv, FamilyInv, ExitPcs
<1>4. FamilyInv'
  BY SMTT(60) DEF PInv, TypeOK, FamilyInv, StageInv, InitprocInv, LockInv, ScanInv
<1>5. LockInv'
  BY SMTT(60) DEF PInv, TypeOK, LockInv, StageInv, InitprocInv, OriginalInv
<1>6. OriginalInv'
  BY SMTT(60) DEF PInv, TypeOK, OriginalInv, StageInv, InitprocInv, FamilyInv, LockInv
<1>7. ScanInv'
  BY SMTT(60) DEF PInv, TypeOK, ScanInv, StageInv, InitprocInv, FamilyInv, LockInv, OriginalInv
<1>8. WakeInv'
  BY SMTT(60) DEF PInv, TypeOK, WakeInv, StageInv, InitprocInv, FamilyInv, LockInv, OriginalInv, ScanInv
<1>9. QED
  BY <1>1, <1>2, <1>3, <1>4, <1>5, <1>6, <1>7, <1>8 DEF PInv

(* A process other than init calls exit.                                   *)
LEMMA ExitCallStep ==
  ASSUME PInv, NEW p \in Slots,
         ExitCall(p)
  PROVE  PInv'
<1> USE SlotFacts DEF ExitCall, Running, Free, Goto, Cursor
<1>1. TypeOK'
  BY DEF PInv, TypeOK, StageInv, OriginalInv, Pcs, ExitPcs, ProcStates
<1>2. StageInv'
  BY SMTT(60) DEF PInv, TypeOK, StageInv, InitprocInv, ExitPcs
<1>3. InitprocInv'
  BY SMTT(60) DEF PInv, TypeOK, InitprocInv, StageInv, LockInv, FamilyInv, ExitPcs
<1>4. FamilyInv'
  BY SMTT(60) DEF PInv, TypeOK, FamilyInv, StageInv, InitprocInv, LockInv, ScanInv, ExitPcs
<1>5. LockInv'
  BY SMTT(60) DEF PInv, TypeOK, LockInv, StageInv, InitprocInv, OriginalInv, ExitPcs
<1>6. OriginalInv'
  BY SMTT(60) DEF PInv, TypeOK, OriginalInv, StageInv, InitprocInv, FamilyInv, LockInv, ExitPcs
<1>7. ScanInv'
  BY SMTT(60) DEF PInv, TypeOK, ScanInv, StageInv, InitprocInv, FamilyInv, LockInv, OriginalInv, ExitPcs
<1>8. WakeInv'
  BY SMTT(60) DEF PInv, TypeOK, WakeInv, StageInv, InitprocInv, FamilyInv, LockInv, OriginalInv, ScanInv, ExitPcs
<1>9. QED
  BY <1>1, <1>2, <1>3, <1>4, <1>5, <1>6, <1>7, <1>8 DEF PInv

(* exit wakes init under init's lock.                                      *)
LEMMA ExitWakeInitStep ==
  ASSUME PInv, NEW p \in Slots,
         exit_wake_init(p)
  PROVE  PInv'
<1> USE SlotFacts DEF exit_wake_init, Running, Free, Goto, Cursor, Woken
<1>1. TypeOK'
  BY SMTT(60) DEF PInv, TypeOK, StageInv, OriginalInv, Pcs, ExitPcs, ProcStates
<1>2. StageInv'
  BY SMTT(60) DEF PInv, TypeOK, StageInv, InitprocInv, ExitPcs
<1>3. InitprocInv'
  BY SMTT(60) DEF PInv, TypeOK, InitprocInv, StageInv, LockInv, FamilyInv, ExitPcs
<1>4. FamilyInv'
  BY SMTT(60) DEF PInv, TypeOK, FamilyInv, StageInv, InitprocInv, LockInv, ScanInv, ExitPcs
<1>5. LockInv'
  BY SMTT(60) DEF PInv, TypeOK, LockInv, StageInv, InitprocInv, OriginalInv, ExitPcs
<1>6. OriginalInv'
  BY SMTT(60) DEF PInv, TypeOK, OriginalInv, StageInv, InitprocInv, FamilyInv, LockInv, ExitPcs
<1>7. ScanInv'
  BY SMTT(60) DEF PInv, TypeOK, ScanInv, StageInv, InitprocInv, FamilyInv, LockInv, OriginalInv, ExitPcs
<1>8. WakeInv'
  BY SMTT(60) DEF PInv, TypeOK, WakeInv, StageInv, InitprocInv, FamilyInv, LockInv, OriginalInv, ScanInv, ExitPcs
<1>9. QED
  BY <1>1, <1>2, <1>3, <1>4, <1>5, <1>6, <1>7, <1>8 DEF PInv

(* exit reads p->parent under its own lock and releases it.                *)
LEMMA ExitParentStep ==
  ASSUME PInv, NEW p \in Slots,
         exit_parent(p)
  PROVE  PInv'
<1> USE SlotFacts DEF exit_parent, Running, Free, Goto, Cursor
<1>1. TypeOK'
  BY SMTT(60) DEF PInv, TypeOK, StageInv, OriginalInv, Pcs, ExitPcs, ProcStates
<1>2. StageInv'
  BY SMTT(60) DEF PInv, TypeOK, StageInv, InitprocInv, ExitPcs
<1>3. InitprocInv'
  BY SMTT(60) DEF PInv, TypeOK, InitprocInv, StageInv, LockInv, FamilyInv, ExitPcs
<1>4. FamilyInv'
  BY SMTT(60) DEF PInv, TypeOK, FamilyInv, StageInv, InitprocInv, LockInv, ScanInv, ExitPcs
<1>5. LockInv'
  BY SMTT(60) DEF PInv, TypeOK, LockInv, StageInv, InitprocInv, OriginalInv, ExitPcs
<1>6. OriginalInv'
  BY SMTT(60) DEF PInv, TypeOK, OriginalInv, StageInv, InitprocInv, FamilyInv, LockInv, ExitPcs
<1>7. ScanInv'
  BY SMTT(60) DEF PInv, TypeOK, ScanInv, StageInv, InitprocInv, FamilyInv, LockInv, OriginalInv, ExitPcs
<1>8. WakeInv'
  BY SMTT(60) DEF PInv, TypeOK, WakeInv, StageInv, InitprocInv, FamilyInv, LockInv, OriginalInv, ScanInv, ExitPcs
<1>9. QED
  BY <1>1, <1>2, <1>3, <1>4, <1>5, <1>6, <1>7, <1>8 DEF PInv

(* exit locks the slot it read, which may have another owner now.          *)
LEMMA ExitLockParentStep ==
  ASSUME PInv, NEW p \in Slots,
         exit_lock_parent(p)
  PROVE  PInv'
<1> USE SlotFacts DEF exit_lock_parent, Running, Free, Goto, Cursor
<1>10. original[p] \in Slots
  BY DEF PInv, OriginalInv
<1>1. TypeOK'
  BY <1>10 DEF PInv, TypeOK, StageInv, OriginalInv, Pcs, ExitPcs, ProcStates
<1>2. StageInv'
  BY SMTT(60), <1>10 DEF PInv, TypeOK, StageInv, InitprocInv, ExitPcs
<1>3. InitprocInv'
  BY SMTT(60), <1>10 DEF PInv, TypeOK, InitprocInv, StageInv, LockInv, FamilyInv, ExitPcs
<1>4. FamilyInv'
  BY SMTT(60), <1>10 DEF PInv, TypeOK, FamilyInv, StageInv, InitprocInv, LockInv, ScanInv, ExitPcs
<1>5. LockInv'
  BY SMTT(60), <1>10 DEF PInv, TypeOK, LockInv, StageInv, InitprocInv, OriginalInv, ExitPcs
<1>6. OriginalInv'
  BY SMTT(60), <1>10 DEF PInv, TypeOK, OriginalInv, StageInv, InitprocInv, FamilyInv, LockInv, ExitPcs
<1>7. ScanInv'
  BY SMTT(60), <1>10 DEF PInv, TypeOK, ScanInv, StageInv, InitprocInv, FamilyInv, LockInv, OriginalInv, ExitPcs
<1>8. WakeInv'
  BY SMTT(60), <1>10 DEF PInv, TypeOK, WakeInv, StageInv, InitprocInv, FamilyInv, LockInv, OriginalInv, ScanInv, ExitPcs
<1>9. QED
  BY <1>1, <1>2, <1>3, <1>4, <1>5, <1>6, <1>7, <1>8 DEF PInv

(* exit locks its own slot with the other lock held.                       *)
LEMMA ExitLockSelfStep ==
  ASSUME PInv, NEW p \in Slots,
         exit_lock_self(p)
  PROVE  PInv'
<1> USE SlotFacts DEF exit_lock_self, Running, Free, Goto, Cursor
<1>10. original[p] \in Slots /\ original[p] # p
  BY SMTT(60) DEF PInv, OriginalInv, LockInv
<1>1. TypeOK'
  BY SMTT(60), <1>10 DEF PInv, TypeOK, StageInv, OriginalInv, Pcs, ExitPcs, ProcStates
<1>2. StageInv'
  BY SMTT(60), <1>10 DEF PInv, TypeOK, StageInv, InitprocInv, ExitPcs
<1>3. InitprocInv'
  BY SMTT(60), <1>10 DEF PInv, TypeOK, InitprocInv, StageInv, LockInv, FamilyInv, ExitPcs
<1>4. FamilyInv'
  BY SMTT(60), <1>10 DEF PInv, TypeOK, FamilyInv, StageInv, InitprocInv, LockInv, ScanInv, ExitPcs
<1>5. LockInv'
  BY SMTT(60), <1>10 DEF PInv, TypeOK, LockInv, StageInv, InitprocInv, OriginalInv, ExitPcs
<1>6. OriginalInv'
  BY SMTT(60), <1>10 DEF PInv, TypeOK, OriginalInv, StageInv, InitprocInv, FamilyInv, LockInv, ExitPcs
<1>7. ScanInv'
  BY SMTT(60), <1>10 DEF PInv, TypeOK, ScanInv, StageInv, InitprocInv, FamilyInv, LockInv, OriginalInv, ExitPcs
<1>8. WakeInv'
  BY SMTT(60), <1>10 DEF PInv, TypeOK, WakeInv, StageInv, InitprocInv, FamilyInv, LockInv, OriginalInv, ScanInv, ExitPcs
<1>9. QED
  BY <1>1, <1>2, <1>3, <1>4, <1>5, <1>6, <1>7, <1>8 DEF PInv

(* reparent looks at one slot and gives a child to init.                   *)
LEMMA ReparentStep ==
  ASSUME PInv, NEW p \in Slots,
         reparent(p)
  PROVE  PInv'
<1> USE SlotFacts DEF reparent, Running, Free, Goto, Cursor
<1>10. np[p] \in Slots
  BY SMTT(60) DEF PInv, StageInv
<1>11. /\ parent' \in [Slots -> Slots \cup {None}]
       /\ \A r \in Slots : IF r = np[p] /\ parent[r] = p THEN parent'[r] = initproc ELSE parent'[r] = parent[r]
  BY <1>10 DEF PInv, TypeOK
<1>12. state' = state /\ \A r \in Slots : parent'[r] = parent[r] \/ (parent[r] = p /\ parent'[r] = initproc)
  BY SMTT(60), <1>10, <1>11 DEF PInv, TypeOK
<1>1. TypeOK'
  BY SMTT(60), <1>10, <1>11, <1>12 DEF PInv, TypeOK, StageInv, OriginalInv, Pcs, ExitPcs, ProcStates
<1>2. StageInv'
  BY SMTT(60), <1>10, <1>11, <1>12 DEF PInv, TypeOK, StageInv, InitprocInv
<1>3. InitprocInv'
  BY SMTT(60), <1>10, <1>11, <1>12 DEF PInv, TypeOK, InitprocInv, StageInv, LockInv, FamilyInv, ExitPcs
<1>4. FamilyInv'
  BY SMTT(60), <1>10, <1>11, <1>12 DEF PInv, TypeOK, FamilyInv, StageInv, InitprocInv, LockInv, ScanInv
<1>5. LockInv'
  BY SMTT(60), <1>10, <1>11, <1>12 DEF PInv, TypeOK, LockInv, StageInv, InitprocInv, OriginalInv
<1>6. OriginalInv'
  BY SMTT(60), <1>10, <1>11, <1>12 DEF PInv, TypeOK, OriginalInv, StageInv, InitprocInv, FamilyInv, LockInv
<1>7. ScanInv'
  BY SMTT(60), <1>10, <1>11, <1>12 DEF PInv, TypeOK, ScanInv, StageInv, InitprocInv, FamilyInv, LockInv, OriginalInv
<1>8. WakeInv'
  BY SMTT(60), <1>10, <1>11, <1>12 DEF PInv, TypeOK, WakeInv, StageInv, InitprocInv, FamilyInv, LockInv, OriginalInv, ScanInv
<1>9. QED
  BY <1>1, <1>2, <1>3, <1>4, <1>5, <1>6, <1>7, <1>8 DEF PInv

(* exit wakes the slot it locked, becomes a zombie and releases the        *)
(* parent's lock.                                                          *)
LEMMA ExitZombieStep ==
  ASSUME PInv, NEW p \in Slots,
         exit_zombie(p)
  PROVE  PInv'
<1> USE SlotFacts DEF exit_zombie, Running, Free, Goto, Cursor, Woken
<1>10. original[p] \in Slots /\ original[p] # p
  BY SMTT(60) DEF PInv, OriginalInv, LockInv
<1>11. state' \in [Slots -> ProcStates] /\ pc' \in [Slots -> Pcs]
  BY <1>10 DEF PInv, TypeOK, ProcStates, Pcs, ExitPcs
<1>12. /\ lock' \in [Slots -> Slots \cup {None}] /\ np' \in [Slots -> 0..(NPROC + 1)]
       /\ parent' \in [Slots -> Slots \cup {None}]
  BY SMTT(60), <1>10, <1>11 DEF PInv, TypeOK
<1>1. TypeOK'
  BY <1>10, <1>11, <1>12 DEF PInv, TypeOK
<1>2. StageInv'
  BY SMTT(60), <1>10 DEF PInv, TypeOK, StageInv, InitprocInv, ExitPcs
<1>3. InitprocInv'
  BY SMTT(60), <1>10 DEF PInv, TypeOK, InitprocInv, StageInv, LockInv, FamilyInv, ExitPcs
<1>4. FamilyInv'
  BY SMTT(60), <1>10 DEF PInv, TypeOK, FamilyInv, StageInv, InitprocInv, LockInv, ScanInv, ExitPcs
<1>5. LockInv'
  BY SMTT(60), <1>10 DEF PInv, TypeOK, LockInv, StageInv, InitprocInv, OriginalInv, ExitPcs
<1>6. OriginalInv'
  BY SMTT(60), <1>10 DEF PInv, TypeOK, OriginalInv, StageInv, InitprocInv, FamilyInv, LockInv, ExitPcs
<1>7. ScanInv'
  BY SMTT(60), <1>10 DEF PInv, TypeOK, ScanInv, StageInv, InitprocInv, FamilyInv, LockInv, OriginalInv, ExitPcs
<1>8. WakeInv'
  BY SMTT(60), <1>10 DEF PInv, TypeOK, WakeInv, StageInv, InitprocInv, FamilyInv, LockInv, OriginalInv, ScanInv, ExitPcs
<1>9. QED
  BY <1>1, <1>2, <1>3, <1>4, <1>5, <1>6, <1>7, <1>8 DEF PInv

(* exit leaves its stack; p->lock is then free.                            *)
LEMMA ExitSchedStep ==
  ASSUME PInv, NEW p \in Slots,
         exit_sched(p)
  PROVE  PInv'
<1> USE SlotFacts DEF exit_sched, Running, Free, Goto, Cursor
<1>1. TypeOK'
  BY DEF PInv, TypeOK, StageInv, OriginalInv, Pcs, ExitPcs, ProcStates
<1>2. StageInv'
  BY SMTT(60) DEF PInv, TypeOK, StageInv, InitprocInv, ExitPcs
<1>3. InitprocInv'
  BY SMTT(60) DEF PInv, TypeOK, InitprocInv, StageInv, LockInv, FamilyInv, ExitPcs
<1>4. FamilyInv'
  BY SMTT(60) DEF PInv, TypeOK, FamilyInv, StageInv, InitprocInv, LockInv, ScanInv, ExitPcs
<1>5. LockInv'
  BY SMTT(60) DEF PInv, TypeOK, LockInv, StageInv, InitprocInv, OriginalInv, ExitPcs
<1>6. OriginalInv'
  BY SMTT(60) DEF PInv, TypeOK, OriginalInv, StageInv, InitprocInv, FamilyInv, LockInv, ExitPcs
<1>7. ScanInv'
  BY SMTT(60) DEF PInv, TypeOK, ScanInv, StageInv, InitprocInv, FamilyInv, LockInv, OriginalInv, ExitPcs
<1>8. WakeInv'
  BY SMTT(60) DEF PInv, TypeOK, WakeInv, StageInv, InitprocInv, FamilyInv, LockInv, OriginalInv, ScanInv, ExitPcs
<1>9. QED
  BY <1>1, <1>2, <1>3, <1>4, <1>5, <1>6, <1>7, <1>8 DEF PInv

-----------------------------------------------------------------------------
(* userinit makes init the only process.                                   *)
LEMMA InitPInv == Init => PInv
<1> SUFFICES ASSUME Init PROVE PInv
  OBVIOUS
<1> USE SlotFacts DEF Init
<1>1. TypeOK
  BY SMTT(60) DEF TypeOK, ProcStates, Pcs
<1>2. StageInv /\ InitprocInv /\ FamilyInv
  BY DEF StageInv, InitprocInv, FamilyInv, ExitPcs
<1>3. LockInv /\ OriginalInv /\ ScanInv /\ WakeInv
  BY DEF LockInv, OriginalInv, ScanInv, WakeInv
<1>4. QED
  BY <1>1, <1>2, <1>3 DEF PInv

(* Every step of a process in the kernel keeps the invariant.              *)
LEMMA KernelStep ==
  ASSUME PInv, NEW p \in Slots, Kernel(p)
  PROVE  PInv'
<1>1. CASE allocproc(p)
  BY <1>1, AllocFound, AllocNext, AllocFails DEF allocproc
<1>2. CASE fork(p)
  <2>1. np[p] \in Slots /\ shell \in Slots \cup {None}
    BY <1>2 DEF PInv, LockInv, TypeOK, fork, Running
  <2>2. CASE Goto(p, AfterFailure(p)) /\ UNCHANGED <<state, parent, shell>>
    <3>1. pc[p] = "fork" /\ lock' = [lock EXCEPT ![np[p]] = None]
      BY <1>2 DEF fork, Running
    <3>2. QED
      BY <1>2, <2>2, <3>1, AllocFails DEF fork
  <2>3. CASE /\ state' = [state EXCEPT ![np[p]] = "RUNNABLE"]
             /\ parent' = [parent EXCEPT ![np[p]] = p]
             /\ pc' = [pc EXCEPT ![np[p]] = "user", ![p] = "user"]
             /\ shell' = IF p = initproc THEN np[p] ELSE shell
    <3>1. shell' \in Slots \cup {None}
      BY <2>1, <2>3
    <3>2. QED
      BY <1>2, <2>3, <3>1, ForkChild DEF fork
  <2>4. QED
    BY <1>2, <2>2, <2>3 DEF fork
<1>3. CASE Resume(p)
  BY <1>3, ResumeWait, ResumeUser DEF Resume
<1>4. CASE wait_scan(p)
  <2> DEFINE q == np[p]
  <2>1. Running(p, "wait") /\ q <= NPROC /\ q \in Slots /\ shell \in Slots \cup {None}
        /\ havekids \in [Slots -> BOOLEAN]
    BY SMTT(60), <1>4, SlotFacts DEF wait_scan, Running, PInv, StageInv, TypeOK
  <2>2. CASE /\ parent[q] # p \/ state[q] # "ZOMBIE"
             /\ Cursor(p, q + 1) /\ (havekids' = [havekids EXCEPT ![p] = TRUE] \/ UNCHANGED havekids)
             /\ UNCHANGED <<state, parent, chan, killed, lock, pc, original, shell>>
    <3>1. havekids' \in [Slots -> BOOLEAN]
      BY <2>1, <2>2
    <3>2. QED
      BY <2>1, <2>2, <3>1, ScanNext
  <2>3. CASE /\ parent[q] = p /\ Free(q) /\ state[q] = "ZOMBIE"
             /\ lock' = [lock EXCEPT ![p] = None]
             /\ Cursor(p, 0)
             /\ state' = [state EXCEPT ![q] = "UNUSED"]
             /\ parent' = [parent EXCEPT ![q] = None]
             /\ chan' = [chan EXCEPT ![q] = None]
             /\ killed' = [killed EXCEPT ![q] = FALSE]
             /\ original' = [original EXCEPT ![q] = None]
             /\ pc' = [pc EXCEPT ![p] = "user", ![q] = "none"]
             /\ shell' = IF p = initproc /\ q = shell THEN None ELSE shell
             /\ UNCHANGED havekids
    <3>1. shell' \in Slots \cup {None}
      BY <2>1, <2>3
    <3>2. QED
      BY <2>1, <2>3, <3>1, ScanReaps
  <2>4. CASE /\ lock' = [lock EXCEPT ![p] = None] /\ Cursor(p, 0) /\ Goto(p, "user")
             /\ UNCHANGED <<state, parent, chan, killed, original, shell, havekids>>
    BY <2>1, <2>4, WaitReturns
  <2>5. QED
    BY <1>4, <2>2, <2>3, <2>4 DEF wait_scan
<1>5. CASE wait_sleep(p)
  BY <1>5, WaitReturns, WaitSleeps DEF wait_sleep
<1>6. QED
  BY <1>1, <1>2, <1>3, <1>4, <1>5, ExitWakeInitStep, ExitParentStep, ExitLockParentStep,
     ExitLockSelfStep, ReparentStep, ExitZombieStep, ExitSchedStep DEF Kernel

(* Every step keeps the invariant.                                         *)
LEMMA NextPInv == PInv /\ [Next]_vars => PInv'
<1> SUFFICES ASSUME PInv, [Next]_vars PROVE PInv'
  OBVIOUS
<1>1. ASSUME NEW p \in Slots, User(p) PROVE PInv'
  BY <1>1, ForkCallStep, WaitCallStep, ExitCallStep, YieldStep, KillStep DEF User
<1>2. CASE UNCHANGED vars
  <2>1. TypeOK' /\ StageInv' /\ InitprocInv' /\ FamilyInv'
    BY SMTT(60), <1>2 DEF vars, PInv, TypeOK, StageInv, InitprocInv, FamilyInv
  <2>2. LockInv' /\ OriginalInv' /\ ScanInv' /\ WakeInv'
    BY SMTT(60), <1>2 DEF vars, PInv, LockInv, OriginalInv, ScanInv, WakeInv
  <2>3. QED
    BY <2>1, <2>2 DEF PInv
<1>3. QED
  BY <1>1, <1>2, KernelStep DEF Next

(* The locks of fork, wait and exit protect what their scans found, in a   *)
(* process table of any size.                                              *)
THEOREM ProcInvariant == Spec => []PInv
<1>1. QED
  BY InitPInv, NextPInv, PTL DEF Spec

(* exit gives children away before the parent is a zombie, and wakes the   *)
(* parent under the lock with which wait scans and sleeps: in a table of   *)
(* any size every process has a living parent, and no parent but init      *)
(* sleeps in wait beside a zombie child.                                   *)
THEOREM ProcParentAttends == Spec => []ParentAttends
<1>1. PInv => ParentAttends
  BY SlotFacts DEF PInv, FamilyInv, WakeInv, ParentAttends
<1>2. QED
  BY <1>1, ProcInvariant, PTL

(* freeproc is called on nothing that is still in use: wait frees the slot *)
(* of a zombie only when its thread is off its kernel stack and nobody is  *)
(* its child any more.                                                     *)
FreedIsGone ==
  [][\A q \in Slots : state[q] # "UNUSED" /\ state'[q] = "UNUSED" =>
       /\ state[q] = "ZOMBIE" /\ pc[q] = "none"
       /\ \A r \in Slots : parent[r] # q]_vars

(* wait and exit together: exit holds p->lock until it is off its stack    *)
(* and reparent has been over the whole table, so wait frees no slot early.*)
THEOREM ProcFreedIsGone == Spec => FreedIsGone
<1> DEFINE Gone(q) == state[q] = "ZOMBIE" /\ pc[q] = "none" /\ \A r \in Slots : parent[r] # q
<1>1. ASSUME PInv, [Next]_vars, NEW q \in Slots, state[q] # "UNUSED", state'[q] = "UNUSED"
      PROVE  Gone(q)
  <2>1. state \in [Slots -> ProcStates]
    BY <1>1 DEF PInv, TypeOK
  <2>2. PICK p \in Slots : Kernel(p) \/ User(p)
    BY <1>1 DEF Next, vars
  <2>3. ~User(p)
    BY SMTT(60), <1>1, <2>1 DEF User, ForkCall, WaitCall, ExitCall, yield, kill
  <2>4. wait_scan(p)
    <3>1. ~allocproc(p) /\ ~Resume(p) /\ ~wait_sleep(p) /\ ~exit_wake_init(p) /\ ~exit_parent(p)
      BY <1>1, <2>1 DEF allocproc, Resume, wait_sleep, exit_wake_init, exit_parent, Woken
    <3>2. ~exit_lock_parent(p) /\ ~exit_lock_self(p) /\ ~reparent(p) /\ ~exit_sched(p)
      BY <1>1 DEF exit_lock_parent, exit_lock_self, reparent, exit_sched
    <3>3. ~fork(p) /\ ~exit_zombie(p)
      BY <1>1, <2>1 DEF fork, exit_zombie, Woken
    <3>4. QED
      BY <2>2, <2>3, <3>1, <3>2, <3>3 DEF Kernel
  <2>5. np[p] = q /\ state[q] = "ZOMBIE" /\ lock[q] = None
    BY <1>1, <2>1, <2>4 DEF wait_scan, Free
  <2>6. pc[q] = "none"
    BY SMTT(60), <1>1, <2>5, SlotFacts DEF PInv, StageInv, LockInv
  <2>7. \A r \in Slots : parent[r] # q
    BY <1>1, <2>5, SlotFacts DEF PInv, FamilyInv, InitprocInv
  <2>8. QED
    BY <2>5, <2>6, <2>7
<1>2. ASSUME PInv, [Next]_vars
      PROVE  [\A q \in Slots : state[q] # "UNUSED" /\ state'[q] = "UNUSED" =>
                /\ state[q] = "ZOMBIE" /\ pc[q] = "none"
                /\ \A r \in Slots : parent[r] # q]_vars
  BY <1>1, <1>2
<1>3. QED
  BY <1>2, ProcInvariant, PTL DEF Spec, FreedIsGone
=============================================================================
