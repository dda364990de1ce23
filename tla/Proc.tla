-------------------------------- MODULE Proc --------------------------------
(* The process table of kernel/proc.c: allocproc, fork, exit, reparent,    *)
(* wait, kill and freeproc, with every p->lock they take.                  *)
(*                                                                         *)
(* A process steps from one lock operation to the next; what it does while *)
(* it holds its locks and asks for no other is one step.  The scheduler is *)
(* the action Resume: it takes p->lock of a RUNNABLE process and hands the *)
(* lock over to it (module Sched models the CPUs).                         *)
EXTENDS Integers, FiniteSets

CONSTANTS NPROC   \* size of the process table

ASSUME ProcAssumption == NPROC \in Nat /\ NPROC > 1

Slots    == 1..NPROC
initproc == 1
None     == 0

VARIABLES
  state,     \* p->state
  parent,    \* p->parent
  chan,      \* p->chan, None or the process itself (wait's channel)
  killed,    \* p->killed
  lock,      \* holder of p->lock: the process that acquired it, or None
  pc,        \* where the kernel thread of p stands
  np,        \* loop cursor of allocproc, wait and reparent
  havekids,  \* local of wait
  original,  \* original_parent, local of exit
  shell      \* init.c's variable pid: the child it started last, or None

vars == <<state, parent, chan, killed, lock, pc, np, havekids, original, shell>>

ProcStates == {"UNUSED", "SLEEPING", "RUNNABLE", "RUNNING", "ZOMBIE"}
ExitPcs    == {"exit_wake_init", "exit_parent", "exit_lock_parent",
               "exit_lock_self", "exit_reparent", "exit_zombie", "exit_sched"}
Pcs        == {"none", "user", "alloc", "fork", "wait", "waiting"} \cup ExitPcs

TypeOK ==
  /\ state \in [Slots -> ProcStates]
  /\ parent \in [Slots -> Slots \cup {None}]
  /\ chan \in [Slots -> Slots \cup {None}]
  /\ killed \in [Slots -> BOOLEAN]
  /\ lock \in [Slots -> Slots \cup {None}]
  /\ pc \in [Slots -> Pcs]
  /\ np \in [Slots -> 0..(NPROC + 1)]
  /\ havekids \in [Slots -> BOOLEAN]
  /\ original \in [Slots -> Slots \cup {None}]
  /\ shell \in Slots \cup {None}

(* userinit has made the first process and the scheduler runs it.          *)
Init ==
  /\ state = [p \in Slots |-> IF p = initproc THEN "RUNNING" ELSE "UNUSED"]
  /\ parent = [p \in Slots |-> None]
  /\ chan = [p \in Slots |-> None]
  /\ killed = [p \in Slots |-> FALSE]
  /\ lock = [p \in Slots |-> None]
  /\ pc = [p \in Slots |-> IF p = initproc THEN "user" ELSE "none"]
  /\ np = [p \in Slots |-> 0]
  /\ havekids = [p \in Slots |-> FALSE]
  /\ original = [p \in Slots |-> None]
  /\ shell = None

Free(q) == lock[q] = None

Running(p, at) == state[p] = "RUNNING" /\ pc[p] = at

Goto(p, at) == pc' = [pc EXCEPT ![p] = at]

Cursor(p, i) == np' = [np EXCEPT ![p] = i]

-----------------------------------------------------------------------------
(* fork: allocproc looks for an UNUSED slot, locking one slot at a time.   *)
(* init.c forks when it has no shell; if that fails it exits, and exit     *)
(* panics ("init exiting"): init makes no further step.                    *)

AfterFailure(p) == IF p = initproc THEN "none" ELSE "user"

ForkCall(p) ==
  /\ Running(p, "user") /\ ~killed[p]
  /\ p = initproc => shell = None
  /\ Goto(p, "alloc") /\ Cursor(p, 1)
  /\ UNCHANGED <<state, parent, chan, killed, lock, havekids, original, shell>>

allocproc(p) ==
  /\ Running(p, "alloc")
  /\ \/ /\ np[p] <= NPROC /\ Free(np[p])
        /\ IF state[np[p]] = "UNUSED"
             THEN /\ lock' = [lock EXCEPT ![np[p]] = p]
                  /\ Goto(p, "fork") /\ UNCHANGED np
             ELSE Cursor(p, np[p] + 1) /\ UNCHANGED <<lock, pc>>
     \/ /\ np[p] > NPROC
        /\ Goto(p, AfterFailure(p)) /\ Cursor(p, 0)
        /\ UNCHANGED lock
  /\ UNCHANGED <<state, parent, chan, killed, havekids, original, shell>>

(* The slot is locked: no memory (freeproc, release), or a child.          *)
fork(p) ==
  /\ Running(p, "fork")
  /\ LET q == np[p] IN
       /\ \/ Goto(p, AfterFailure(p)) /\ UNCHANGED <<state, parent, shell>>
          \/ /\ state' = [state EXCEPT ![q] = "RUNNABLE"]
             /\ parent' = [parent EXCEPT ![q] = p]
             /\ pc' = [pc EXCEPT ![q] = "user", ![p] = "user"]
             /\ shell' = IF p = initproc THEN q ELSE shell
       /\ lock' = [lock EXCEPT ![q] = None]
  /\ Cursor(p, 0)
  /\ UNCHANGED <<chan, killed, havekids, original>>

(* scheduler(): switch to a RUNNABLE process, which still holds p->lock;   *)
(* forkret and a call interrupted outside sleep release it, sleep(p) in    *)
(* wait keeps it and scans again.                                          *)
Resume(p) ==
  /\ state[p] = "RUNNABLE" /\ Free(p)
  /\ state' = [state EXCEPT ![p] = "RUNNING"]
  /\ chan' = [chan EXCEPT ![p] = None]
  /\ IF pc[p] = "waiting"
       THEN /\ lock' = [lock EXCEPT ![p] = p]
            /\ Goto(p, "wait") /\ Cursor(p, 1)
            /\ havekids' = [havekids EXCEPT ![p] = FALSE]
       ELSE UNCHANGED <<lock, pc, np, havekids>>
  /\ UNCHANGED <<parent, killed, original, shell>>

(* usertrap on a timer interrupt, after its test of p->killed.             *)
yield(p) ==
  /\ Running(p, "user") /\ Free(p) /\ ~killed[p]
  /\ state' = [state EXCEPT ![p] = "RUNNABLE"]
  /\ UNCHANGED <<parent, chan, killed, lock, pc, np, havekids, original, shell>>

(* Mutant of kill: a sleeping victim is not woken.                         *)
kill_no_wakeup(p, q) ==
  /\ Running(p, "user") /\ ~killed[p]
  /\ Free(q) /\ state[q] # "UNUSED" /\ q # initproc
  /\ killed' = [killed EXCEPT ![q] = TRUE]
  /\ UNCHANGED <<state, parent, chan, lock, pc, np, havekids, original, shell>>

(* kill(q->pid), under q->lock.                                            *)
kill(p, q) ==
  /\ Running(p, "user") /\ ~killed[p]
  /\ Free(q) /\ state[q] # "UNUSED" /\ q # initproc
  /\ killed' = [killed EXCEPT ![q] = TRUE]
  /\ state' = [state EXCEPT ![q] = IF @ = "SLEEPING" THEN "RUNNABLE" ELSE @]
  /\ UNCHANGED <<parent, chan, lock, pc, np, havekids, original, shell>>

-----------------------------------------------------------------------------
(* wait.  init.c calls it while its shell has not been reaped.             *)

WaitCall(p) ==
  /\ Running(p, "user") /\ ~killed[p]
  /\ p = initproc => shell # None
  /\ Free(p)
  /\ lock' = [lock EXCEPT ![p] = p]
  /\ Goto(p, "wait") /\ Cursor(p, 1)
  /\ havekids' = [havekids EXCEPT ![p] = FALSE]
  /\ UNCHANGED <<state, parent, chan, killed, original, shell>>

(* One iteration of the scan.  A zombie child is freed and wait returns,   *)
(* unless copyout fails: then wait returns and the zombie stays.           *)
wait_scan(p) ==
  /\ Running(p, "wait") /\ np[p] <= NPROC
  /\ LET q == np[p] IN
       \/ /\ parent[q] # p
          /\ Cursor(p, q + 1)
          /\ UNCHANGED <<state, parent, chan, killed, lock, pc, havekids, original, shell>>
       \/ /\ parent[q] = p /\ Free(q) /\ state[q] # "ZOMBIE"
          /\ Cursor(p, q + 1)
          /\ havekids' = [havekids EXCEPT ![p] = TRUE]
          /\ UNCHANGED <<state, parent, chan, killed, lock, pc, original, shell>>
       \/ /\ parent[q] = p /\ Free(q) /\ state[q] = "ZOMBIE"
          /\ lock' = [lock EXCEPT ![p] = None]
          /\ Cursor(p, 0)
          /\ \/ /\ state' = [state EXCEPT ![q] = "UNUSED"]
                /\ parent' = [parent EXCEPT ![q] = None]
                /\ chan' = [chan EXCEPT ![q] = None]
                /\ killed' = [killed EXCEPT ![q] = FALSE]
                /\ original' = [original EXCEPT ![q] = None]
                /\ pc' = [pc EXCEPT ![p] = "user", ![q] = "none"]
                /\ shell' = IF p = initproc /\ q = shell THEN None ELSE shell
             \/ /\ p # initproc
                /\ Goto(p, "user")
                /\ UNCHANGED <<state, parent, chan, killed, original, shell>>
          /\ UNCHANGED havekids

(* The scan is over: return -1, or sleep(p, &p->lock).                     *)
wait_sleep(p) ==
  /\ Running(p, "wait") /\ np[p] > NPROC
  /\ lock' = [lock EXCEPT ![p] = None]
  /\ Cursor(p, 0)
  /\ IF ~havekids[p] \/ killed[p]
       THEN Goto(p, "user") /\ UNCHANGED <<state, chan>>
       ELSE /\ chan' = [chan EXCEPT ![p] = p]
            /\ state' = [state EXCEPT ![p] = "SLEEPING"]
            /\ Goto(p, "waiting")
  /\ UNCHANGED <<parent, killed, havekids, original, shell>>

-----------------------------------------------------------------------------
(* exit, from the wakeup of init on.                                       *)

(* wakeup1(q): q is sleeping in wait().                                    *)
Woken(q) == IF chan[q] = q /\ state[q] = "SLEEPING" THEN "RUNNABLE" ELSE state[q]

ExitCall(p) ==
  /\ Running(p, "user") /\ p # initproc
  /\ Goto(p, "exit_wake_init")
  /\ UNCHANGED <<state, parent, chan, killed, lock, np, havekids, original, shell>>

exit_wake_init(p) ==
  /\ Running(p, "exit_wake_init") /\ Free(initproc)
  /\ state' = [state EXCEPT ![initproc] = Woken(initproc)]
  /\ Goto(p, "exit_parent")
  /\ UNCHANGED <<parent, chan, killed, lock, np, havekids, original, shell>>

exit_parent(p) ==
  /\ Running(p, "exit_parent") /\ Free(p)
  /\ original' = [original EXCEPT ![p] = parent[p]]
  /\ Goto(p, "exit_lock_parent")
  /\ UNCHANGED <<state, parent, chan, killed, lock, np, havekids, shell>>

exit_lock_parent(p) ==
  /\ Running(p, "exit_lock_parent") /\ Free(original[p])
  /\ lock' = [lock EXCEPT ![original[p]] = p]
  /\ Goto(p, "exit_lock_self")
  /\ UNCHANGED <<state, parent, chan, killed, np, havekids, original, shell>>

exit_lock_self(p) ==
  /\ Running(p, "exit_lock_self") /\ Free(p)
  /\ lock' = [lock EXCEPT ![p] = p]
  /\ Goto(p, "exit_reparent") /\ Cursor(p, 1)
  /\ UNCHANGED <<state, parent, chan, killed, havekids, original, shell>>

(* One iteration of reparent(p).                                           *)
reparent(p) ==
  /\ Running(p, "exit_reparent") /\ np[p] <= NPROC
  /\ \/ parent[np[p]] # p /\ UNCHANGED parent
     \/ /\ parent[np[p]] = p /\ Free(np[p])
        /\ parent' = [parent EXCEPT ![np[p]] = initproc]
  /\ Cursor(p, np[p] + 1)
  /\ UNCHANGED <<state, chan, killed, lock, pc, havekids, original, shell>>

(* Mutant of exit_zombie: no wakeup1.                                      *)
exit_zombie_no_wakeup(p) ==
  /\ Running(p, "exit_reparent") /\ np[p] > NPROC
  /\ state' = [state EXCEPT ![p] = "ZOMBIE"]
  /\ lock' = [lock EXCEPT ![original[p]] = None]
  /\ Goto(p, "exit_sched") /\ Cursor(p, 0)
  /\ UNCHANGED <<parent, chan, killed, havekids, original, shell>>

(* wakeup1(original_parent), ZOMBIE, release(&original_parent->lock).      *)
exit_zombie(p) ==
  /\ Running(p, "exit_reparent") /\ np[p] > NPROC
  /\ state' = [state EXCEPT ![original[p]] = Woken(original[p]), ![p] = "ZOMBIE"]
  /\ lock' = [lock EXCEPT ![original[p]] = None]
  /\ Goto(p, "exit_sched") /\ Cursor(p, 0)
  /\ UNCHANGED <<parent, chan, killed, havekids, original, shell>>

(* sched(): the scheduler releases p->lock once it is off p's stack.       *)
exit_sched(p) ==
  /\ pc[p] = "exit_sched" /\ state[p] = "ZOMBIE"
  /\ lock' = [lock EXCEPT ![p] = None]
  /\ Goto(p, "none")
  /\ UNCHANGED <<state, parent, chan, killed, np, havekids, original, shell>>

Kernel(p) == \/ allocproc(p) \/ fork(p) \/ Resume(p)
             \/ wait_scan(p) \/ wait_sleep(p)
             \/ exit_wake_init(p) \/ exit_parent(p) \/ exit_lock_parent(p)
             \/ exit_lock_self(p) \/ reparent(p) \/ exit_zombie(p) \/ exit_sched(p)

User(p) == \/ ForkCall(p) \/ WaitCall(p) \/ ExitCall(p) \/ yield(p)
           \/ \E q \in Slots : kill(p, q)

Next == \E p \in Slots : Kernel(p) \/ User(p)

Spec == Init /\ [][Next]_vars

(* Every kernel thread keeps running and no acquire() spins for ever while *)
(* the lock becomes free again and again; usertrap makes a killed process  *)
(* exit.  Nobody has to make system calls.                                 *)
FairSpec ==
  /\ Spec
  /\ \A p \in Slots : SF_vars(Kernel(p)) /\ SF_vars(killed[p] /\ ExitCall(p))

-----------------------------------------------------------------------------
(* The p->lock a process is spinning for, if any.                          *)
Wants(p) ==
  IF state[p] # "RUNNING" THEN None
  ELSE CASE pc[p] = "alloc" /\ np[p] <= NPROC -> np[p]
         [] pc[p] = "exit_wake_init" -> initproc
         [] pc[p] = "exit_parent" -> p
         [] pc[p] = "exit_lock_parent" -> original[p]
         [] pc[p] = "exit_lock_self" -> p
         [] pc[p] \in {"wait", "exit_reparent"} /\ np[p] <= NPROC ->
              IF parent[np[p]] = p THEN np[p] ELSE None
         [] OTHER -> None

(* The locking order of proc.c works: no set of processes spin for each    *)
(* other's p->lock.                                                        *)
NoLockCycle ==
  \A S \in SUBSET Slots \ {{}} :
    \E p \in S : Wants(p) = None \/ lock[Wants(p)] \notin S

(* Every process but init has a parent that has not finished exiting       *)
(* (reparent gives children away before ZOMBIE), and no parent but init    *)
(* sleeps in wait() while the child is a zombie: between exit and wait no  *)
(* wakeup is lost.                                                         *)
ParentAttends ==
  \A p \in Slots \ {initproc} :
    state[p] # "UNUSED" =>
      /\ parent[p] # None
      /\ state[parent[p]] \notin {"UNUSED", "ZOMBIE"}
      /\ state[p] = "ZOMBIE" /\ parent[p] # initproc => state[parent[p]] # "SLEEPING"

=============================================================================
