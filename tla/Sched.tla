------------------------------- MODULE Sched -------------------------------
(* Spin locks, interrupts and context switches: acquire, release, push_off *)
(* and pop_off of kernel/spinlock.c; sched, scheduler, yield, sleep and    *)
(* wakeup of kernel/proc.c.                                                *)
(*                                                                         *)
(* Kernel threads produce and consume items under a condition lock lk: a   *)
(* consumer sleeps while there is none, a producer calls wakeup.  Device   *)
(* interrupt handlers produce too, on top of whatever their CPU was doing, *)
(* and timer interrupts make a thread yield, whenever interrupts are on.   *)
(* sleep and wakeup are the ones pipes, the disk driver, the log and sleep *)
(* locks use.                                                              *)
EXTENDS Integers, FiniteSets

CONSTANTS NPROC,     \* number of kernel threads
          CPUs,
          MaxItems   \* bound on the items produced and not yet consumed

Procs == 1..NPROC
None  == 0
Lk    == NPROC + 1          \* the condition lock, beside the p->lock's
Locks == Procs \cup {Lk}
Nobody == "nobody"

ASSUME SchedAssumption == NPROC \in Nat \ {0} /\ MaxItems \in Nat \ {0} /\ Nobody \notin CPUs

VARIABLES
  held,    \* lk->cpu of each lock: the CPU that holds it, or Nobody
  noff,    \* c->noff
  intena,  \* c->intena
  intr,    \* does the CPU take interrupts (SIE in sstatus)?
  on,      \* whose stack the CPU is on: a thread, or None for scheduler()
  spc,     \* where scheduler() of each CPU stands
  cursor,  \* the loop variable p of scheduler()
  state,   \* p->state
  waits,   \* p->chan # 0
  pc,      \* where each thread stands
  ret,     \* where a thread resumes after a timer interrupt
  saved,   \* the local intena of sched()
  next,    \* the loop variable of a thread's wakeup()
  irq,     \* where the device interrupt handler of each CPU stands
  inext,   \* the loop variable of its wakeup()
  items    \* the condition

cpuvars == <<noff, intena, intr>>
irqvars == <<irq, inext>>
vars == <<held, noff, intena, intr, on, spc, cursor, state, waits, pc, ret,
          saved, next, irq, inext, items>>

TypeOK ==
  /\ held \in [Locks -> CPUs \cup {Nobody}]
  /\ noff \in [CPUs -> 0..2]
  /\ intena \in [CPUs -> BOOLEAN] /\ intr \in [CPUs -> BOOLEAN]
  /\ on \in [CPUs -> Procs \cup {None}]
  /\ spc \in [CPUs -> {"top", "scan", "take", "back"}]
  /\ cursor \in [CPUs -> Procs]
  /\ state \in [Procs -> {"RUNNABLE", "RUNNING", "SLEEPING"}]
  /\ waits \in [Procs -> BOOLEAN]
  /\ next \in [Procs -> 1..(NPROC + 1)] /\ inext \in [CPUs -> 1..(NPROC + 1)]
  /\ irq \in [CPUs -> {"none", "spin", "wake", "w_spin", "ret"}]
  /\ items \in 0..MaxItems

(* Every thread is fresh from fork, every CPU is about to enter its        *)
(* scheduler loop.                                                         *)
Init ==
  /\ held = [l \in Locks |-> Nobody]
  /\ noff = [c \in CPUs |-> 0]
  /\ intena = [c \in CPUs |-> FALSE] /\ intr = [c \in CPUs |-> FALSE]
  /\ on = [c \in CPUs |-> None]
  /\ spc = [c \in CPUs |-> "top"] /\ cursor = [c \in CPUs |-> 1]
  /\ state = [p \in Procs |-> "RUNNABLE"]
  /\ waits = [p \in Procs |-> FALSE]
  /\ pc = [p \in Procs |-> "forkret"] /\ ret = [p \in Procs |-> "run"]
  /\ saved = [p \in Procs |-> FALSE]
  /\ next = [p \in Procs |-> 1]
  /\ irq = [c \in CPUs |-> "none"] /\ inext = [c \in CPUs |-> 1]
  /\ items = 0

-----------------------------------------------------------------------------
(* spinlock.c.  acquire is push_off followed, once the lock is free, by    *)
(* Take; release is Drop.                                                  *)

push_off(c) ==
  /\ intena' = [intena EXCEPT ![c] = IF noff[c] = 0 THEN intr[c] ELSE @]
  /\ intr' = [intr EXCEPT ![c] = FALSE]
  /\ noff' = [noff EXCEPT ![c] = @ + 1]

pop_off(c) ==
  /\ noff' = [noff EXCEPT ![c] = @ - 1]
  /\ intr' = [intr EXCEPT ![c] = @ \/ (noff[c] = 1 /\ intena[c])]
  /\ UNCHANGED intena

Take(c, l) == held[l] = Nobody /\ held' = [held EXCEPT ![l] = c]

Drop(c, l) == held' = [held EXCEPT ![l] = Nobody] /\ pop_off(c)

Goto(p, at) == pc' = [pc EXCEPT ![p] = at]

(* Thread p, on CPU c, calls acquire and starts to spin at `at'.           *)
Spin(p, c, from, at) ==
  /\ on[c] = p /\ pc[p] = from
  /\ push_off(c)
  /\ Goto(p, at)

-----------------------------------------------------------------------------
(* sched(): give the CPU back to scheduler(), still holding p->lock.       *)
sched(p, c) ==
  /\ on[c] = p /\ pc[p] \in {"s_sched", "y_sched"}
  /\ saved' = [saved EXCEPT ![p] = intena[c]]
  /\ on' = [on EXCEPT ![c] = None]
  /\ Goto(p, IF pc[p] = "s_sched" THEN "s_back" ELSE "y_back")
  /\ UNCHANGED <<held, cpuvars, spc, cursor, state, waits, ret, next, items, irqvars>>

(* consumer: acquire(lk), test, sleep(chan, lk), test again ...            *)
ConsumeCall(p, c) ==
  /\ \/ Spin(p, c, "run", "c_spin")
     \/ Spin(p, c, "again", "c_spin")
  /\ UNCHANGED <<held, on, spc, cursor, state, waits, ret, saved, next, items, irqvars>>

ConsumeLock(p, c) ==
  /\ on[c] = p /\ pc[p] = "c_spin" /\ Take(c, Lk)
  /\ Goto(p, "c_test")
  /\ UNCHANGED <<cpuvars, on, spc, cursor, state, waits, ret, saved, next, items, irqvars>>

Consume(p, c) ==
  /\ on[c] = p /\ pc[p] = "c_test" /\ items > 0
  /\ items' = items - 1
  /\ Drop(c, Lk)
  /\ Goto(p, "run")
  /\ UNCHANGED <<on, spc, cursor, state, waits, ret, saved, next, irqvars>>

(* sleep(chan, lk): acquire(&p->lock) ...                                  *)
SleepCall(p, c) ==
  /\ items = 0
  /\ Spin(p, c, "c_test", "s_spin")
  /\ UNCHANGED <<held, on, spc, cursor, state, waits, ret, saved, next, items, irqvars>>

SleepLock(p, c) ==
  /\ on[c] = p /\ pc[p] = "s_spin" /\ Take(c, p)
  /\ Goto(p, "s_drop")
  /\ UNCHANGED <<cpuvars, on, spc, cursor, state, waits, ret, saved, next, items, irqvars>>

(* ... release(lk) ...                                                     *)
SleepDrop(p, c) ==
  /\ on[c] = p /\ pc[p] = "s_drop"
  /\ Drop(c, Lk)
  /\ Goto(p, "s_chan")
  /\ UNCHANGED <<on, spc, cursor, state, waits, ret, saved, next, items, irqvars>>

(* ... p->chan = chan, p->state = SLEEPING; sched() ...                    *)
SleepSched(p, c) ==
  /\ on[c] = p /\ pc[p] = "s_chan"
  /\ waits' = [waits EXCEPT ![p] = TRUE]
  /\ state' = [state EXCEPT ![p] = "SLEEPING"]
  /\ Goto(p, "s_sched")
  /\ UNCHANGED <<held, cpuvars, on, spc, cursor, ret, saved, next, items, irqvars>>

(* ... p->chan = 0, release(&p->lock); acquire(lk) follows.                *)
SleepBack(p, c) ==
  /\ on[c] = p /\ pc[p] = "s_back"
  /\ waits' = [waits EXCEPT ![p] = FALSE]
  /\ Drop(c, p)
  /\ Goto(p, "again")
  /\ UNCHANGED <<on, spc, cursor, state, ret, saved, next, items, irqvars>>

(* The body of wakeup's loop: a process asleep on chan becomes RUNNABLE.   *)
wakeup1(q) ==
  [state EXCEPT ![q] = IF @ = "SLEEPING" /\ waits[q] THEN "RUNNABLE" ELSE @]

Produced == IF items < MaxItems THEN items + 1 ELSE items

(* producer: acquire(lk), one more item, wakeup(chan), release(lk).        *)
ProduceCall(p, c) ==
  /\ Spin(p, c, "run", "p_spin")
  /\ UNCHANGED <<held, on, spc, cursor, state, waits, ret, saved, next, items, irqvars>>

ProduceLock(p, c) ==
  /\ on[c] = p /\ pc[p] = "p_spin" /\ Take(c, Lk)
  /\ items' = Produced
  /\ next' = [next EXCEPT ![p] = 1]
  /\ Goto(p, "p_wake")
  /\ UNCHANGED <<cpuvars, on, spc, cursor, state, waits, ret, saved, irqvars>>

(* One iteration of wakeup(): acquire the next p->lock, make a sleeper     *)
(* RUNNABLE, release.                                                      *)
WakeupCall(p, c) ==
  /\ next[p] <= NPROC
  /\ Spin(p, c, "p_wake", "w_spin")
  /\ UNCHANGED <<held, on, spc, cursor, state, waits, ret, saved, next, items, irqvars>>

(* Mutant of wakeup: a process whose lock is busy is passed over.          *)
wakeup_trylock(p, c) ==
  /\ on[c] = p /\ pc[p] = "w_spin"
  /\ state' = IF held[next[p]] = Nobody THEN wakeup1(next[p]) ELSE state
  /\ next' = [next EXCEPT ![p] = @ + 1]
  /\ pop_off(c)
  /\ Goto(p, "p_wake")
  /\ UNCHANGED <<held, on, spc, cursor, waits, ret, saved, items, irqvars>>

wakeup(p, c) ==
  /\ on[c] = p /\ pc[p] = "w_spin" /\ held[next[p]] = Nobody
  /\ state' = wakeup1(next[p])
  /\ next' = [next EXCEPT ![p] = @ + 1]
  /\ pop_off(c)
  /\ Goto(p, "p_wake")
  /\ UNCHANGED <<held, on, spc, cursor, waits, ret, saved, items, irqvars>>

ProduceDone(p, c) ==
  /\ on[c] = p /\ pc[p] = "p_wake" /\ next[p] > NPROC
  /\ Drop(c, Lk)
  /\ next' = [next EXCEPT ![p] = 1]
  /\ Goto(p, "run")
  /\ UNCHANGED <<on, spc, cursor, state, waits, ret, saved, items, irqvars>>

-----------------------------------------------------------------------------
(* A timer interrupt: the handler runs with interrupts off and yields.     *)

Timer(p, c) ==
  /\ on[c] = p /\ pc[p] \in {"run", "again"} /\ intr[c]
  /\ intr' = [intr EXCEPT ![c] = FALSE]
  /\ ret' = [ret EXCEPT ![p] = pc[p]]
  /\ Goto(p, "trap")
  /\ UNCHANGED <<held, noff, intena, on, spc, cursor, state, waits, saved, next, items, irqvars>>

YieldCall(p, c) ==
  /\ Spin(p, c, "trap", "y_spin")
  /\ UNCHANGED <<held, on, spc, cursor, state, waits, ret, saved, next, items, irqvars>>

(* yield: acquire(&p->lock), RUNNABLE; sched() follows.                    *)
yield(p, c) ==
  /\ on[c] = p /\ pc[p] = "y_spin" /\ Take(c, p)
  /\ state' = [state EXCEPT ![p] = "RUNNABLE"]
  /\ Goto(p, "y_sched")
  /\ UNCHANGED <<cpuvars, on, spc, cursor, waits, ret, saved, next, items, irqvars>>

(* yield after sched(), and forkret: release(&p->lock).                    *)
YieldBack(p, c) ==
  /\ on[c] = p /\ pc[p] \in {"y_back", "forkret"}
  /\ Drop(c, p)
  /\ Goto(p, IF pc[p] = "y_back" THEN "trapret" ELSE "userret")
  /\ UNCHANGED <<on, spc, cursor, state, waits, ret, saved, next, items, irqvars>>

(* The return from the trap turns interrupts on again.                     *)
TrapRet(p, c) ==
  /\ on[c] = p /\ pc[p] \in {"trapret", "userret"}
  /\ intr' = [intr EXCEPT ![c] = TRUE]
  /\ Goto(p, ret[p])
  /\ ret' = [ret EXCEPT ![p] = "run"]
  /\ UNCHANGED <<held, noff, intena, on, spc, cursor, state, waits, saved, next, items, irqvars>>

-----------------------------------------------------------------------------
(* scheduler() of CPU c.                                                   *)

sched_top(c) ==
  /\ on[c] = None /\ spc[c] = "top"
  /\ intr' = [intr EXCEPT ![c] = TRUE]
  /\ spc' = [spc EXCEPT ![c] = "scan"]
  /\ cursor' = [cursor EXCEPT ![c] = 1]
  /\ UNCHANGED <<held, noff, intena, on, state, waits, pc, ret, saved, next, items, irqvars>>

sched_acquire(c) ==
  /\ on[c] = None /\ spc[c] = "scan"
  /\ push_off(c)
  /\ spc' = [spc EXCEPT ![c] = "take"]
  /\ UNCHANGED <<held, on, cursor, state, waits, pc, ret, saved, next, items, irqvars>>

(* Mutant of Advance: after a process ran, the scan starts over.           *)
Advance_restart(c) ==
  /\ cursor' = [cursor EXCEPT ![c] = IF @ < NPROC /\ spc[c] # "back" THEN @ + 1 ELSE 1]
  /\ spc' = [spc EXCEPT ![c] = IF cursor[c] < NPROC /\ @ # "back" THEN "scan" ELSE "top"]

Advance(c) ==
  /\ cursor' = [cursor EXCEPT ![c] = IF @ < NPROC THEN @ + 1 ELSE 1]
  /\ spc' = [spc EXCEPT ![c] = IF cursor[c] < NPROC THEN "scan" ELSE "top"]

(* Mutant of sched_switch: the scheduler does not wait for p->lock.        *)
sched_switch_unlocked(c) ==
  /\ on[c] = None /\ spc[c] = "take"
  /\ LET p == cursor[c] IN
       /\ IF state[p] = "RUNNABLE"
            THEN /\ held' = [held EXCEPT ![p] = c]
                 /\ state' = [state EXCEPT ![p] = "RUNNING"]
                 /\ on' = [on EXCEPT ![c] = p]
                 /\ spc' = [spc EXCEPT ![c] = "back"]
                 /\ intena' = [intena EXCEPT ![c] =
                                 IF pc[p] = "forkret" THEN @ ELSE saved[p]]
                 /\ UNCHANGED <<noff, intr, cursor>>
            ELSE /\ Advance(c) /\ pop_off(c)
                 /\ UNCHANGED <<held, state, on>>
  /\ UNCHANGED <<waits, pc, ret, saved, next, items, irqvars>>

(* Mutant of sched_switch: intena is not restored.                         *)
sched_switch_no_restore(c) ==
  /\ on[c] = None /\ spc[c] = "take"
  /\ LET p == cursor[c] IN
       /\ held[p] = Nobody
       /\ IF state[p] = "RUNNABLE"
            THEN /\ held' = [held EXCEPT ![p] = c]
                 /\ state' = [state EXCEPT ![p] = "RUNNING"]
                 /\ on' = [on EXCEPT ![c] = p]
                 /\ spc' = [spc EXCEPT ![c] = "back"]
                 /\ UNCHANGED <<cpuvars, cursor>>
            ELSE /\ Advance(c) /\ pop_off(c)
                 /\ UNCHANGED <<held, state, on>>
  /\ UNCHANGED <<waits, pc, ret, saved, next, items, irqvars>>

(* The slot is locked: switch to a RUNNABLE process, where sched() goes on *)
(* and restores intena; or release.                                        *)
sched_switch(c) ==
  /\ on[c] = None /\ spc[c] = "take"
  /\ LET p == cursor[c] IN
       /\ held[p] = Nobody
       /\ IF state[p] = "RUNNABLE"
            THEN /\ held' = [held EXCEPT ![p] = c]
                 /\ state' = [state EXCEPT ![p] = "RUNNING"]
                 /\ on' = [on EXCEPT ![c] = p]
                 /\ spc' = [spc EXCEPT ![c] = "back"]
                 /\ intena' = [intena EXCEPT ![c] =
                                 IF pc[p] = "forkret" THEN @ ELSE saved[p]]
                 /\ UNCHANGED <<noff, intr, cursor>>
            ELSE /\ Advance(c) /\ pop_off(c)
                 /\ UNCHANGED <<held, state, on>>
  /\ UNCHANGED <<waits, pc, ret, saved, next, items, irqvars>>

(* Back from a process: release(&p->lock) and go on with the scan.         *)
sched_release(c) ==
  /\ on[c] = None /\ spc[c] = "back"
  /\ Drop(c, cursor[c])
  /\ Advance(c)
  /\ UNCHANGED <<on, state, waits, pc, ret, saved, next, items, irqvars>>

-----------------------------------------------------------------------------
(* A device interrupt: a handler such as virtio_disk_intr or clockintr     *)
(* acquires the lock, changes the condition, calls wakeup and releases, on *)
(* the stack of the thread or scheduler it interrupts.                     *)

idle == <<on, spc, cursor, waits, pc, ret, saved, next>>

intr_enter(c) ==
  /\ irq[c] = "none" /\ intr[c]
  /\ intr' = [intr EXCEPT ![c] = FALSE]
  /\ intena' = [intena EXCEPT ![c] = IF noff[c] = 0 THEN FALSE ELSE @]
  /\ noff' = [noff EXCEPT ![c] = @ + 1]
  /\ irq' = [irq EXCEPT ![c] = "spin"]
  /\ UNCHANGED <<held, state, inext, items, idle>>

intr_lock(c) ==
  /\ irq[c] = "spin" /\ Take(c, Lk)
  /\ items' = Produced
  /\ inext' = [inext EXCEPT ![c] = 1]
  /\ irq' = [irq EXCEPT ![c] = "wake"]
  /\ UNCHANGED <<cpuvars, state, idle>>

intr_wake(c) ==
  \/ /\ irq[c] = "wake" /\ inext[c] <= NPROC
     /\ push_off(c)
     /\ irq' = [irq EXCEPT ![c] = "w_spin"]
     /\ UNCHANGED <<held, state, inext, items, idle>>
  \/ /\ irq[c] = "w_spin" /\ held[inext[c]] = Nobody
     /\ state' = wakeup1(inext[c])
     /\ inext' = [inext EXCEPT ![c] = @ + 1]
     /\ pop_off(c)
     /\ irq' = [irq EXCEPT ![c] = "wake"]
     /\ UNCHANGED <<held, items, idle>>

intr_release(c) ==
  /\ irq[c] = "wake" /\ inext[c] > NPROC
  /\ Drop(c, Lk)
  /\ inext' = [inext EXCEPT ![c] = 1]
  /\ irq' = [irq EXCEPT ![c] = "ret"]
  /\ UNCHANGED <<state, items, idle>>

intr_return(c) ==
  /\ irq[c] = "ret"
  /\ intr' = [intr EXCEPT ![c] = TRUE]
  /\ irq' = [irq EXCEPT ![c] = "none"]
  /\ UNCHANGED <<held, noff, intena, state, inext, items, idle>>

Handler(c) == intr_lock(c) \/ intr_wake(c) \/ intr_release(c) \/ intr_return(c)

Thread(p, c) ==
  \/ ConsumeLock(p, c) \/ Consume(p, c) \/ SleepCall(p, c) \/ SleepLock(p, c)
  \/ SleepDrop(p, c) \/ SleepSched(p, c) \/ SleepBack(p, c)
  \/ ProduceLock(p, c) \/ WakeupCall(p, c) \/ wakeup(p, c) \/ ProduceDone(p, c)
  \/ YieldCall(p, c) \/ yield(p, c) \/ sched(p, c) \/ YieldBack(p, c) \/ TrapRet(p, c)

Scheduler(c) ==
  sched_top(c) \/ sched_acquire(c) \/ sched_switch(c) \/ sched_release(c)

Next ==
  \E c \in CPUs :
    \/ irq[c] = "none" /\ Scheduler(c)
    \/ irq[c] = "none" /\ \E p \in Procs : \/ Thread(p, c) \/ Timer(p, c)
                                           \/ ConsumeCall(p, c) \/ ProduceCall(p, c)
    \/ intr_enter(c) \/ Handler(c)

Spec == Init /\ [][Next]_vars

(* Every CPU keeps executing.  SF: acquire() spins on an atomic swap, so a *)
(* lock free infinitely often is taken in the end, and interrupts leave    *)
(* the interrupted code infinitely many chances to go on.  Timer interrupts*)
(* recur, so a thread that runs with interrupts on is interrupted.         *)
Fairness ==
  \A c \in CPUs :
    /\ SF_vars(Handler(c))
    /\ SF_vars(irq[c] = "none" /\ (Scheduler(c) \/ \E p \in Procs : Thread(p, c)))
    /\ SF_vars(irq[c] = "none" /\ \E p \in Procs : Timer(p, c))

FairSpec == Spec /\ Fairness

-----------------------------------------------------------------------------
(* No two CPUs ever run on the same kernel stack.                          *)
StackExclusive ==
  \A c, d \in CPUs : on[c] # None /\ on[c] = on[d] => c = d

(* The locks a CPU spins for.                                              *)
Spinning(c) ==
  CASE irq[c] = "spin" -> {Lk}
    [] irq[c] = "w_spin" -> {inext[c]}
    [] irq[c] \in {"wake", "ret"} -> {}
    [] irq[c] = "none" /\ on[c] = None -> IF spc[c] = "take" THEN {cursor[c]} ELSE {}
    [] OTHER -> LET p == on[c] IN
                CASE pc[p] \in {"c_spin", "p_spin"} -> {Lk}
                  [] pc[p] \in {"s_spin", "y_spin"} -> {p}
                  [] pc[p] = "w_spin" -> {next[p]}
                  [] OTHER -> {}

(* None of the panics of sched, acquire, release and pop_off is reached:   *)
(* a thread leaves the CPU holding exactly its own p->lock, and nobody     *)
(* spins for a lock its own CPU holds.  intena belongs to the thread: when *)
(* a thread holds no lock, interrupts are on, except in a trap handler,    *)
(* whichever CPUs it slept or yielded on and resumed on.                   *)
NoSchedPanic ==
  \A c \in CPUs :
    /\ \A l \in Spinning(c) : held[l] # c
    /\ noff[c] > 0 => ~intr[c]
    /\ noff[c] = Cardinality({l \in Locks : held[l] = c}) + Cardinality(Spinning(c))
    /\ on[c] # None /\ pc[on[c]] \in {"s_sched", "y_sched"} => held[on[c]] = c /\ noff[c] = 1
    /\ on[c] = None /\ spc[c] = "back" => held[cursor[c]] = c /\ noff[c] = 1
    /\ on[c] # None /\ irq[c] = "none" /\ noff[c] = 0 /\ pc[on[c]] # "userret" =>
         (intr[c] <=> pc[on[c]] \notin {"trap", "trapret"})

(* No lost wakeup: when a thread sleeps although there is an item, the     *)
(* producer of an item has still to pass it in its wakeup loop.            *)
NoLostWakeup ==
  \A p \in Procs :
    state[p] = "SLEEPING" /\ items > 0 =>
      \/ \E q \in Procs : pc[q] \in {"p_wake", "w_spin"} /\ next[q] <= p
      \/ \E c \in CPUs : irq[c] \in {"wake", "w_spin"} /\ inext[c] <= p

(* scheduler() starves nobody: every RUNNABLE process runs in the end,     *)
(* whatever the others and the interrupts do.                              *)
RunnableRuns == \A p \in Procs : state[p] = "RUNNABLE" ~> state[p] = "RUNNING"
=============================================================================
