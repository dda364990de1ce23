---------------------------- MODULE SchedProofs ----------------------------
(* Theorems about Sched, for any number of threads and CPUs.               *)
EXTENDS Sched, TLAPS

(* A leaf goes to Zenon, unless it names the SMT solver, which alone does   *)
(* arithmetic.                                                             *)
USE ZenonT(60)

(* Where a thread holds the condition lock, where its own p->lock, where   *)
(* it is inside a call that began with interrupts on, and inside yield.    *)
LkPcs    == {"c_test", "s_spin", "s_drop", "p_wake", "w_spin"}
OwnPcs   == {"s_drop", "s_chan", "s_sched", "s_back", "y_sched", "y_back", "forkret"}
CallPcs  == {"c_spin", "c_test", "s_spin", "s_drop", "s_chan", "s_sched", "s_back",
             "p_spin", "p_wake", "w_spin"}
YieldPcs == {"y_spin", "y_sched", "y_back"}
FreePcs  == {"run", "again", "trap", "trapret", "userret"}
DeepPcs  == {"s_spin", "s_drop", "w_spin"}
Pcs      == CallPcs \cup YieldPcs \cup FreePcs \cup {"forkret"}

PcTypes ==
  /\ pc \in [Procs -> Pcs] /\ ret \in [Procs -> {"run", "again"}]
  /\ saved \in [Procs -> BOOLEAN]

(* Which locks a CPU holds, by where its code stands.                      *)
Holds(c, l) ==
  \/ on[c] = None /\ spc[c] = "back" /\ l = cursor[c]
  \/ on[c] # None /\ pc[on[c]] \in OwnPcs /\ l = on[c]
  \/ on[c] # None /\ pc[on[c]] \in LkPcs /\ l = Lk
  \/ irq[c] \in {"wake", "w_spin"} /\ l = Lk

HeldInv == \A c \in CPUs, l \in Locks : held[l] = c <=> Holds(c, l)

(* noff, by where its code stands.                                         *)
BaseDepth(c) ==
  IF on[c] = None THEN IF spc[c] \in {"take", "back"} THEN 1 ELSE 0
  ELSE IF pc[on[c]] \in FreePcs THEN 0
  ELSE IF pc[on[c]] \in DeepPcs THEN 2 ELSE 1

IrqDepth(c) ==
  IF irq[c] \in {"none", "ret"} THEN 0 ELSE IF irq[c] = "w_spin" THEN 2 ELSE 1

(* Where interrupts may come in.                                           *)
Open(c) == \/ on[c] = None /\ spc[c] \in {"top", "scan"}
           \/ on[c] # None /\ pc[on[c]] \in {"run", "again", "userret"}

(* The interrupt state of a CPU.                                           *)
Cpu(c) ==
  /\ on[c] # None => spc[c] = "back" /\ cursor[c] = on[c]
  /\ noff[c] = BaseDepth(c) + IrqDepth(c)
  /\ noff[c] > 0 => ~intr[c]
  /\ irq[c] # "none" => ~intr[c] /\ Open(c)
  /\ irq[c] \in {"spin", "wake", "w_spin"} => ~intena[c]
  /\ irq[c] = "w_spin" => inext[c] <= NPROC

(* A thread on a CPU.                                                      *)
Running(p, c) ==
  /\ pc[p] \in {"run", "again"} /\ irq[c] = "none" => intr[c]
  /\ pc[p] \in {"trap", "trapret"} => ~intr[c]
  /\ pc[p] \in CallPcs => intena[c]
  /\ pc[p] \in YieldPcs => ~intena[c]
  /\ state[p] = IF pc[p] = "s_sched" THEN "SLEEPING"
                ELSE IF pc[p] = "y_sched" THEN "RUNNABLE" ELSE "RUNNING"

(* A thread that is on no CPU, and what sched() saved of it.               *)
Off(p) ==
  /\ pc[p] \in {"s_back", "y_back", "forkret"}
  /\ state[p] \in (IF pc[p] = "s_back" THEN {"RUNNABLE", "SLEEPING"} ELSE {"RUNNABLE"})
  /\ pc[p] = "s_back" => saved[p]
  /\ pc[p] = "y_back" => ~saved[p]

CpuInv == \A c \in CPUs : Cpu(c)

ThreadInv ==
  \A p \in Procs :
    /\ \A c \in CPUs : on[c] = p => Running(p, c)
    /\ (\A c \in CPUs : on[c] # p) => Off(p)
    /\ waits[p] <=> pc[p] \in {"s_sched", "s_back"}
    /\ pc[p] = "w_spin" => next[p] <= NPROC
    /\ pc[p] \in {"s_spin", "s_drop"} => items = 0

(* NoLostWakeup, also for a thread that has released the condition lock    *)
(* and is not yet SLEEPING.                                                *)
Waker(p) ==
  \/ \E q \in Procs : pc[q] \in {"p_wake", "w_spin"} /\ next[q] <= p
  \/ \E c \in CPUs : irq[c] \in {"wake", "w_spin"} /\ inext[c] <= p

WakeInv ==
  \A p \in Procs :
    (pc[p] = "s_chan" \/ state[p] = "SLEEPING") /\ items > 0 => Waker(p)

SInv == TypeOK /\ PcTypes /\ StackExclusive /\ HeldInv /\ CpuInv /\ ThreadInv /\ WakeInv

-----------------------------------------------------------------------------
(* A step of CPU c changes of the CPUs only c, and of the threads only p,  *)
(* the one that runs there, but for a wakeup of threads nobody has locked. *)
OnlyCpu(c) ==
  \A d \in CPUs \ {c} :
    /\ noff'[d] = noff[d] /\ intena'[d] = intena[d] /\ intr'[d] = intr[d]
    /\ on'[d] = on[d] /\ spc'[d] = spc[d] /\ cursor'[d] = cursor[d]
    /\ irq'[d] = irq[d] /\ inext'[d] = inext[d]

OnlyThread(p) ==
  \A q \in Procs \ {p} :
    /\ pc'[q] = pc[q] /\ saved'[q] = saved[q] /\ next'[q] = next[q] /\ waits'[q] = waits[q]
    /\ \/ state'[q] = state[q]
       \/ held[q] = Nobody /\ state[q] = "SLEEPING" /\ state'[q] = "RUNNABLE"

(* What the step does to the locks.                                        *)
OnlyLocks(c) ==
  /\ \A d \in CPUs \ {c}, l \in Locks : held'[l] = d <=> held[l] = d
  /\ \A l \in Locks : held'[l] = c <=> Holds(c, l)'

(* What the step leaves of p.                                              *)
After(p, c) ==
  /\ on'[c] = p => Running(p, c)'
  /\ on'[c] # p => Off(p)'
  /\ waits'[p] <=> pc'[p] \in {"s_sched", "s_back"}
  /\ pc'[p] = "w_spin" => next'[p] <= NPROC

Tested == \A q \in Procs : pc'[q] \in {"s_spin", "s_drop"} => items' = 0

(* A thread nobody has locked that sleeps is on no CPU.                    *)
LEMMA Sleeper ==
  ASSUME SInv, NEW q \in Procs, held[q] = Nobody, state[q] = "SLEEPING"
  PROVE  pc[q] = "s_back" /\ \A c \in CPUs : on[c] # q
<1>1. \A c \in CPUs : on[c] # q
  <2> SUFFICES ASSUME NEW c \in CPUs, on[c] = q PROVE FALSE
    OBVIOUS
  <2>1. pc[q] = "s_sched"
    BY DEF SInv, ThreadInv, Running
  <2>2. q \in Locks /\ on[c] # None
    BY SMTT(60), SchedAssumption DEF Locks, Procs, None
  <2>3. Holds(c, q)
    BY <2>1, <2>2 DEF Holds, OwnPcs
  <2>4. held[q] = c
    BY <2>2, <2>3 DEF SInv, HeldInv
  <2>5. QED
    BY <2>4, SchedAssumption
<1>2. Off(q)
  BY <1>1 DEF SInv, ThreadInv
<1>3. QED
  BY <1>1, <1>2 DEF Off

(* The other CPUs do not notice.                                           *)
LEMMA OtherCpu ==
  ASSUME SInv, NEW c \in CPUs, NEW p \in Procs \cup {None},
         \A d \in CPUs \ {c} : on[d] # None => on[d] # p,
         OnlyCpu(c), OnlyThread(p), NEW d \in CPUs \ {c}
  PROVE  /\ Cpu(d)' /\ \A l \in Locks : Holds(d, l)' <=> Holds(d, l)
         /\ \A q \in Procs : on[d] = q => Running(q, d)'
<1>1. /\ noff'[d] = noff[d] /\ intena'[d] = intena[d] /\ intr'[d] = intr[d]
      /\ on'[d] = on[d] /\ spc'[d] = spc[d] /\ cursor'[d] = cursor[d]
      /\ irq'[d] = irq[d] /\ inext'[d] = inext[d]
  BY DEF OnlyCpu
<1>2. on[d] # None => on[d] \in Procs \ {p}
  BY DEF SInv, TypeOK
<1>3. on[d] # None => pc'[on[d]] = pc[on[d]]
  BY <1>2 DEF OnlyThread
<1>4. on[d] # None => state'[on[d]] = state[on[d]]
  BY <1>2, Sleeper DEF OnlyThread
<1>5. Cpu(d)
  BY DEF SInv, CpuInv
<1>6. Cpu(d)'
  BY <1>1, <1>3, <1>5 DEF Cpu, BaseDepth, IrqDepth, Open
<1>7. \A l \in Locks : Holds(d, l)' <=> Holds(d, l)
  BY <1>1, <1>3 DEF Holds
<1>8. ASSUME NEW q \in Procs, on[d] = q PROVE Running(q, d)'
  <2>1. q # None
    BY SMTT(60) DEF Procs, None
  <2>2. Running(q, d) /\ pc'[q] = pc[q] /\ state'[q] = state[q]
    BY <1>3, <1>4, <1>8, <2>1 DEF SInv, ThreadInv
  <2>3. QED
    BY <1>1, <2>2 DEF Running
<1>9. QED
  BY <1>6, <1>7, <1>8

(* A step of one CPU keeps the invariant if it keeps what concerns that    *)
(* CPU, the thread that runs on it and the sleepers: nothing else has      *)
(* changed.                                                                *)
LEMMA CpuStep ==
  ASSUME SInv, NEW c \in CPUs, NEW p \in Procs \cup {None},
         \A d \in CPUs \ {c} : on[d] # None => on[d] # p,
         on[c] \in {p, None}, on'[c] \in {p, None},
         TypeOK', PcTypes', OnlyCpu(c), OnlyThread(p), OnlyLocks(c),
         Cpu(c)', p # None => After(p, c), Tested, WakeInv'
  PROVE  SInv'
<1>1. StackExclusive'
  BY SMTT(60) DEF SInv, StackExclusive, OnlyCpu
<1>2. HeldInv'
  <2> SUFFICES ASSUME NEW d \in CPUs, NEW l \in Locks PROVE held'[l] = d <=> Holds(d, l)'
    BY DEF HeldInv
  <2>1. CASE d = c
    BY <2>1 DEF OnlyLocks
  <2>2. CASE d # c
    <3>1. held'[l] = d <=> held[l] = d
      BY <2>2 DEF OnlyLocks
    <3>2. Holds(d, l)' <=> Holds(d, l)
      BY <2>2, OtherCpu
    <3>3. QED
      BY <3>1, <3>2 DEF SInv, HeldInv
  <2>3. QED
    BY <2>1, <2>2
<1>3. CpuInv'
  BY OtherCpu DEF CpuInv
<1>4. ThreadInv'
  <2> SUFFICES ASSUME NEW q \in Procs
               PROVE  /\ \A d \in CPUs : on'[d] = q => Running(q, d)'
                      /\ (\A d \in CPUs : on'[d] # q) => Off(q)'
                      /\ waits'[q] <=> pc'[q] \in {"s_sched", "s_back"}
                      /\ pc'[q] = "w_spin" => next'[q] <= NPROC
    BY DEF ThreadInv, Tested
  <2>1. q # None
    BY SMTT(60) DEF Procs, None
  <2>2. \A d \in CPUs \ {c} : on'[d] = on[d] /\ (on[d] = q => Running(q, d)')
    BY OtherCpu DEF OnlyCpu
  <2>3. CASE q = p
    <3>1. After(p, c)
      BY <2>1, <2>3
    <3>2. \A d \in CPUs \ {c} : on'[d] # q
      BY <2>1, <2>2, <2>3
    <3>3. QED
      BY <2>3, <3>1, <3>2 DEF After
  <2>4. CASE q # p
    <3>1. on[c] # q /\ on'[c] # q
      BY <2>1, <2>4
    <3>2. /\ pc'[q] = pc[q] /\ saved'[q] = saved[q] /\ next'[q] = next[q] /\ waits'[q] = waits[q]
          /\ \/ state'[q] = state[q]
             \/ held[q] = Nobody /\ state[q] = "SLEEPING" /\ state'[q] = "RUNNABLE"
      BY <2>4 DEF OnlyThread
    <3>3. /\ waits[q] <=> pc[q] \in {"s_sched", "s_back"}
          /\ pc[q] = "w_spin" => next[q] <= NPROC
          /\ (\A d \in CPUs : on[d] # q) => Off(q)
      BY DEF SInv, ThreadInv
    <3>4. ASSUME \A d \in CPUs : on'[d] # q PROVE Off(q)'
      <4>1. Off(q)
        BY <2>2, <3>1, <3>3, <3>4
      <4>2. state[q] = "SLEEPING" => pc[q] = "s_back"
        BY <4>1 DEF Off
      <4>3. QED
        BY <3>2, <4>1, <4>2 DEF Off
    <3>5. QED
      BY <2>2, <3>1, <3>2, <3>3, <3>4
  <2>5. QED
    BY <2>3, <2>4
<1>5. QED
  BY <1>1, <1>2, <1>3, <1>4 DEF SInv

-----------------------------------------------------------------------------
(* A thread on a CPU, outside of interrupt handlers.                       *)
PcDepth(at) == IF at \in FreePcs THEN 0 ELSE IF at \in DeepPcs THEN 2 ELSE 1

Here(p, c) ==
  /\ p # None /\ p # Lk /\ p \in Locks /\ Lk \in Locks
  /\ on[c] = p /\ spc[c] = "back" /\ cursor[c] = p
  /\ noff[c] = PcDepth(pc[p]) /\ (noff[c] > 0 => ~intr[c])
  /\ intr[c] \in BOOLEAN /\ intena[c] \in BOOLEAN /\ Running(p, c)
  /\ \A d \in CPUs \ {c} : on[d] # p
  /\ \A l \in Locks : held[l] = c <=> (pc[p] \in OwnPcs /\ l = p) \/ (pc[p] \in LkPcs /\ l = Lk)
  /\ waits[p] <=> pc[p] \in {"s_sched", "s_back"}

(* What the invariant says of a thread that runs outside an interrupt      *)
(* handler.                                                                *)
LEMMA IsHere ==
  ASSUME SInv, NEW p \in Procs, NEW c \in CPUs, on[c] = p, irq[c] = "none"
  PROVE  Here(p, c)
<1>1. p # None /\ p # Lk /\ p \in Locks /\ Lk \in Locks
  BY SMTT(60), SchedAssumption DEF Procs, None, Lk, Locks
<1>2. Cpu(c) /\ Running(p, c) /\ (waits[p] <=> pc[p] \in {"s_sched", "s_back"})
  BY DEF SInv, CpuInv, ThreadInv
<1>3. noff[c] = PcDepth(pc[p])
  BY SMTT(60), <1>1, <1>2 DEF Cpu, BaseDepth, IrqDepth, PcDepth
<1>4. spc[c] = "back" /\ cursor[c] = p /\ (noff[c] > 0 => ~intr[c])
  BY <1>1, <1>2 DEF Cpu
<1>5. \A d \in CPUs \ {c} : on[d] # p
  BY <1>1 DEF SInv, StackExclusive
<1>6. \A l \in Locks : held[l] = c <=> (pc[p] \in OwnPcs /\ l = p) \/ (pc[p] \in LkPcs /\ l = Lk)
  BY SMTT(60), <1>1 DEF SInv, HeldInv, Holds
<1>7. QED
  BY <1>1, <1>2, <1>3, <1>4, <1>5, <1>6 DEF Here, SInv, TypeOK

(* The common part of the proofs for the threads' steps.                   *)
LEMMA ThreadStep ==
  ASSUME SInv, NEW p \in Procs, NEW c \in CPUs, Here(p, c), irq[c] = "none",
         NEW at \in Pcs, pc' = [pc EXCEPT ![p] = at],
         UNCHANGED <<on, spc, cursor, irq, inext>>, OnlyCpu(c), OnlyThread(p),
         TypeOK', PcTypes', noff'[c] = PcDepth(at), noff'[c] > 0 => ~intr'[c],
         \A d \in CPUs \ {c}, l \in Locks : held'[l] = d <=> held[l] = d,
         \A l \in Locks : held'[l] = c <=> (at \in OwnPcs /\ l = p) \/ (at \in LkPcs /\ l = Lk),
         Running(p, c)', waits'[p] <=> at \in {"s_sched", "s_back"},
         at = "w_spin" => next'[p] <= NPROC,
         Tested, WakeInv'
  PROVE  SInv'
<1>1. pc'[p] = at
  BY DEF SInv, PcTypes
<1>2. OnlyLocks(c)
  BY SMTT(60), <1>1 DEF OnlyLocks, Holds, Here
<1>3. Cpu(c)'
  BY SMTT(60), <1>1 DEF Cpu, BaseDepth, IrqDepth, Open, PcDepth, Here
<1>4. After(p, c)
  BY <1>1 DEF After, Here
<1>5. /\ \A d \in CPUs \ {c} : on[d] # None => on[d] # p
      /\ on[c] \in {p, None} /\ on'[c] \in {p, None}
  BY DEF Here
<1>6. QED
  BY <1>2, <1>3, <1>4, <1>5, CpuStep

(* acquire(), up to the loop that spins.                                   *)
SpinPairs == {<<"run", "c_spin">>, <<"again", "c_spin">>, <<"c_test", "s_spin">>,
              <<"run", "p_spin">>, <<"p_wake", "w_spin">>, <<"trap", "y_spin">>}

(* push_off at the start of an acquire: interrupts go off, noff goes up.   *)
LEMMA SpinStep ==
  ASSUME SInv, NEW p \in Procs, NEW c \in CPUs, irq[c] = "none",
         NEW from, NEW at, <<from, at>> \in SpinPairs, Spin(p, c, from, at),
         at = "s_spin" => items = 0, at = "w_spin" => next[p] <= NPROC,
         UNCHANGED <<held, on, spc, cursor, state, waits, ret, saved, next, items, irqvars>>
  PROVE  SInv'
<1>1. Here(p, c) /\ pc[p] = from
  BY IsHere DEF Spin
<1>2. at \in Pcs /\ PcDepth(at) = PcDepth(from) + 1 /\ at \notin OwnPcs
      /\ from \notin OwnPcs /\ (from \in LkPcs <=> at \in LkPcs)
  BY SMTT(60) DEF SpinPairs, Pcs, CallPcs, YieldPcs, FreePcs, DeepPcs, PcDepth, OwnPcs, LkPcs
<1>3. pc' = [pc EXCEPT ![p] = at] /\ pc'[p] = at
  BY DEF Spin, Goto, SInv, PcTypes
<1>4. /\ noff'[c] = PcDepth(at) /\ ~intr'[c] /\ noff' \in [CPUs -> 0..2]
      /\ intena' \in [CPUs -> BOOLEAN] /\ intr' \in [CPUs -> BOOLEAN] /\ OnlyCpu(c)
      /\ intena'[c] = IF PcDepth(from) = 0 THEN intr[c] ELSE intena[c]
  <2>1. noff[c] = PcDepth(from) /\ PcDepth(from) + 1 \in 0..2 /\ intr[c] \in BOOLEAN
    BY SMTT(60), <1>1, <1>2 DEF Here, PcDepth
  <2>2. /\ noff' = [noff EXCEPT ![c] = PcDepth(at)] /\ intr' = [intr EXCEPT ![c] = FALSE]
        /\ intena' = [intena EXCEPT ![c] = IF PcDepth(from) = 0 THEN intr[c] ELSE @]
    BY <1>2, <2>1 DEF Spin, push_off
  <2>3. /\ noff \in [CPUs -> 0..2] /\ intr \in [CPUs -> BOOLEAN]
        /\ intena \in [CPUs -> BOOLEAN]
    BY DEF SInv, TypeOK
  <2>4. PcDepth(at) \in 0..2
    BY <1>2, <2>1
  <2>5. QED
    BY <2>1, <2>2, <2>3, <2>4 DEF OnlyCpu, irqvars
<1>5. TypeOK' /\ PcTypes'
  BY <1>2, <1>3, <1>4 DEF SInv, TypeOK, PcTypes, irqvars
<1>6. OnlyThread(p)
  BY <1>3 DEF OnlyThread, SInv, PcTypes
<1>7. \A l \in Locks : held'[l] = c <=> (at \in OwnPcs /\ l = p) \/ (at \in LkPcs /\ l = Lk)
  BY <1>1, <1>2 DEF Here
<1>8. Running(p, c)'
  <2>1. Running(p, c)
    BY <1>1 DEF Here
  <2>2. from \in {"run", "again"} => intr[c] /\ PcDepth(from) = 0
    BY <1>1, <2>1 DEF Running, PcDepth, FreePcs
  <2>3. from \in {"c_test", "p_wake"} => intena[c] /\ PcDepth(from) = 1
    BY <1>1, <2>1 DEF Running, PcDepth, FreePcs, DeepPcs, CallPcs
  <2>4. from = "trap" => ~intr[c] /\ PcDepth(from) = 0
    BY <1>1, <2>1 DEF Running, PcDepth, FreePcs
  <2>5. at \in CallPcs => intena'[c]
    BY SMTT(60), <1>4, <2>2, <2>3 DEF SpinPairs, CallPcs
  <2>6. at \in YieldPcs => ~intena'[c]
    BY <1>4, <2>4 DEF SpinPairs, YieldPcs
  <2>7. at \notin {"run", "again", "trap", "trapret", "s_sched", "y_sched"}
        /\ from \notin {"s_sched", "y_sched"}
    BY DEF SpinPairs
  <2>8. QED
    BY <1>1, <1>3, <2>1, <2>5, <2>6, <2>7 DEF Running
<1>9. waits'[p] <=> at \in {"s_sched", "s_back"}
  BY <1>1 DEF Here, SpinPairs
<1>10. Tested
  <2>1. at # "s_drop"
    BY DEF SpinPairs
  <2>2. \A q \in Procs : q # p => pc'[q] = pc[q]
    BY <1>3 DEF SInv, PcTypes
  <2>3. QED
    BY <1>3, <2>1, <2>2 DEF Tested, SInv, ThreadInv
<1>11. WakeInv'
  <2>1. at # "s_chan" /\ (from = "p_wake" <=> at = "w_spin") /\ from # "w_spin" /\ at # "p_wake"
    BY DEF SpinPairs
  <2>2. \A q \in Procs : Waker(q) => Waker(q)'
    BY <1>1, <1>3, <2>1 DEF Waker, irqvars, SInv, PcTypes
  <2>3. QED
    BY <1>3, <2>1, <2>2 DEF WakeInv, SInv, PcTypes
<1>12. QED
  BY <1>1, <1>2, <1>3, <1>4, <1>5, <1>6, <1>7, <1>8, <1>9, <1>10, <1>11, ThreadStep DEF irqvars

(* The end of acquire(): from, at, and whether the lock is p->lock.        *)
TakeCases == {<<"c_spin", "c_test", FALSE>>, <<"s_spin", "s_drop", TRUE>>,
              <<"p_spin", "p_wake", FALSE>>, <<"y_spin", "y_sched", TRUE>>}

(* A thread gets the lock it spins for.                                    *)
LEMMA TakeStep ==
  ASSUME SInv, NEW p \in Procs, NEW c \in CPUs, irq[c] = "none", on[c] = p,
         NEW from, NEW at, NEW own, <<from, at, own>> \in TakeCases, pc[p] = from,
         Take(c, IF own THEN p ELSE Lk), Goto(p, at),
         UNCHANGED <<cpuvars, on, spc, cursor, ret, saved, waits, irqvars>>,
         next' \in [Procs -> 1..(NPROC + 1)], items' \in 0..MaxItems,
         \A q \in Procs \ {p} : next'[q] = next[q] /\ state'[q] = state[q],
         state' \in [Procs -> {"RUNNABLE", "RUNNING", "SLEEPING"}],
         state'[p] = IF at = "y_sched" THEN "RUNNABLE" ELSE "RUNNING", Tested, WakeInv'
  PROVE  SInv'
<1>1. Here(p, c)
  BY IsHere
<1>2. at \in Pcs /\ PcDepth(at) = PcDepth(from) /\ (from \in CallPcs <=> at \in CallPcs)
      /\ (from \in YieldPcs <=> at \in YieldPcs)
      /\ at \notin {"run", "again", "trap", "trapret", "s_sched", "s_back", "w_spin"}
      /\ from \notin {"s_sched", "s_back"}
  BY DEF TakeCases, Pcs, CallPcs, YieldPcs, FreePcs, DeepPcs, PcDepth
<1>3. pc' = [pc EXCEPT ![p] = at] /\ pc'[p] = at
  BY DEF Goto, SInv, PcTypes
<1>4. /\ \A k \in Locks : held'[k] = IF k = (IF own THEN p ELSE Lk) THEN c ELSE held[k]
      /\ held[IF own THEN p ELSE Lk] = Nobody /\ held' \in [Locks -> CPUs \cup {Nobody}]
  BY <1>1 DEF Take, SInv, TypeOK, Here
<1>5. TypeOK' /\ PcTypes'
  BY <1>2, <1>3, <1>4 DEF SInv, TypeOK, PcTypes, irqvars, cpuvars
<1>6. OnlyThread(p) /\ OnlyCpu(c)
  BY <1>3 DEF OnlyThread, OnlyCpu, SInv, PcTypes, cpuvars, irqvars
<1>7. \A d \in CPUs \ {c}, l \in Locks : held'[l] = d <=> held[l] = d
  BY SMTT(60), <1>4, SchedAssumption
<1>8. \A l \in Locks : held'[l] = c <=> (at \in OwnPcs /\ l = p) \/ (at \in LkPcs /\ l = Lk)
  <2>1. \A l \in Locks : held[l] = c <=> (from \in OwnPcs /\ l = p) \/ (from \in LkPcs /\ l = Lk)
    BY <1>1 DEF Here
  <2>2. QED
    BY <1>4, <2>1 DEF TakeCases, OwnPcs, LkPcs
<1>9. Running(p, c)'
  BY <1>1, <1>2, <1>3 DEF Here, Running, cpuvars, irqvars
<1>10. /\ noff'[c] = PcDepth(at) /\ (noff'[c] > 0 => ~intr'[c])
       /\ waits'[p] <=> at \in {"s_sched", "s_back"}
  BY <1>1, <1>2 DEF Here, cpuvars
<1>11. QED
  BY <1>1, <1>2, <1>3, <1>5, <1>6, <1>7, <1>8, <1>9, <1>10, ThreadStep DEF irqvars

(* release(): from, at, and whether the lock is p->lock.                   *)
DropCases == {<<"c_test", "run", FALSE>>, <<"p_wake", "run", FALSE>>,
              <<"s_drop", "s_chan", FALSE>>, <<"s_back", "again", TRUE>>,
              <<"y_back", "trapret", TRUE>>, <<"forkret", "userret", TRUE>>}

(* A thread releases a lock: pop_off restores the interrupt state when the *)
(* last lock goes.                                                         *)
LEMMA DropStep ==
  ASSUME SInv, NEW p \in Procs, NEW c \in CPUs, irq[c] = "none", on[c] = p,
         NEW from, NEW at, NEW own, <<from, at, own>> \in DropCases, pc[p] = from,
         Drop(c, IF own THEN p ELSE Lk), Goto(p, at),
         UNCHANGED <<on, spc, cursor, state, ret, saved, irqvars>>,
         next' \in [Procs -> 1..(NPROC + 1)], items' \in 0..MaxItems,
         waits' = [waits EXCEPT ![p] = FALSE],
         \A q \in Procs \ {p} : next'[q] = next[q], Tested, WakeInv'
  PROVE  SInv'
<1>1. Here(p, c) /\ Running(p, c)
  BY SMTT(60), IsHere DEF Here
<1>2. at \in Pcs /\ PcDepth(at) = PcDepth(from) - 1 /\ PcDepth(from) \in 1..2
      /\ at \notin {"s_sched", "s_back", "y_sched", "w_spin", "trap"}
      /\ from \notin {"s_sched", "y_sched"} /\ at \notin YieldPcs
      /\ (at \in CallPcs => from \in CallPcs /\ PcDepth(from) = 2)
      /\ (at \in {"run", "again"} => from \in CallPcs /\ PcDepth(from) = 1)
      /\ (at = "trapret" => from \in YieldPcs)
  <2>1. at \in Pcs
    BY DEF DropCases, Pcs, CallPcs, YieldPcs, FreePcs
  <2>2. PcDepth(at) = PcDepth(from) - 1 /\ PcDepth(from) \in 1..2
    <3>1. \/ PcDepth(from) = 1 /\ PcDepth(at) = 0
          \/ PcDepth(from) = 2 /\ PcDepth(at) = 1
      BY DEF DropCases, FreePcs, DeepPcs, PcDepth
    <3>2. QED
      BY SMTT(60), <3>1
  <2>3. /\ at \notin {"s_sched", "s_back", "y_sched", "w_spin", "trap"}
        /\ from \notin {"s_sched", "y_sched"} /\ at \notin YieldPcs
    BY DEF DropCases, YieldPcs
  <2>4. at \in CallPcs => from \in CallPcs /\ PcDepth(from) = 2
    BY DEF DropCases, CallPcs, FreePcs, DeepPcs, PcDepth
  <2>5. at \in {"run", "again"} => from \in CallPcs /\ PcDepth(from) = 1
    BY DEF DropCases, CallPcs, FreePcs, DeepPcs, PcDepth
  <2>6. at = "trapret" => from \in YieldPcs
    BY DEF DropCases, YieldPcs
  <2>7. QED
    BY <2>1, <2>2, <2>3, <2>4, <2>5, <2>6
<1>3. pc' = [pc EXCEPT ![p] = at] /\ pc'[p] = at
  BY DEF Goto, SInv, PcTypes
<1>4. /\ \A k \in Locks : held'[k] = IF k = (IF own THEN p ELSE Lk) THEN Nobody ELSE held[k]
      /\ held' \in [Locks -> CPUs \cup {Nobody}]
  BY <1>1 DEF Drop, SInv, TypeOK, Here
<1>5. /\ noff' = [noff EXCEPT ![c] = PcDepth(at)]
      /\ intr' = [intr EXCEPT ![c] = PcDepth(from) = 1 /\ intena[c]] /\ intena' = intena
  <2>1. noff[c] = PcDepth(from) /\ intr[c] = FALSE
    BY SMTT(60), <1>1, <1>2 DEF Here
  <2>2. QED
    BY <1>2, <2>1 DEF Drop, pop_off
<1>6. noff'[c] = PcDepth(at) /\ (intr'[c] <=> PcDepth(from) = 1 /\ intena[c])
      /\ noff' \in [CPUs -> 0..2] /\ intr' \in [CPUs -> BOOLEAN]
      /\ \A d \in CPUs \ {c} : noff'[d] = noff[d] /\ intr'[d] = intr[d]
  <2>1. noff \in [CPUs -> 0..2] /\ intr \in [CPUs -> BOOLEAN] /\ PcDepth(at) \in 0..2
    BY SMTT(60), <1>2 DEF SInv, TypeOK
  <2>2. (PcDepth(from) = 1 /\ intena[c]) \in BOOLEAN
    OBVIOUS
  <2>3. QED
    BY <1>5, <2>1, <2>2
<1>7. TypeOK' /\ PcTypes'
  BY <1>2, <1>3, <1>4, <1>5, <1>6 DEF SInv, TypeOK, PcTypes, irqvars
<1>8. OnlyThread(p) /\ OnlyCpu(c)
  BY SMTT(60), <1>3, <1>5, <1>6 DEF OnlyThread, OnlyCpu, SInv, PcTypes, TypeOK, irqvars
<1>9. /\ \A l \in Locks : held'[l] = c <=> (at \in OwnPcs /\ l = p) \/ (at \in LkPcs /\ l = Lk)
      /\ \A d \in CPUs \ {c}, l \in Locks : held'[l] = d <=> held[l] = d
  <2>1. \A l \in Locks : held[l] = c <=> (from \in OwnPcs /\ l = p) \/ (from \in LkPcs /\ l = Lk)
    BY <1>1 DEF Here
  <2>2. held[IF own THEN p ELSE Lk] = c
    BY <1>1, <2>1 DEF DropCases, OwnPcs, LkPcs, Here
  <2>3. \A l \in Locks : (l # IF own THEN p ELSE Lk) =>
          ((at \in OwnPcs /\ l = p) \/ (at \in LkPcs /\ l = Lk)
            <=> (from \in OwnPcs /\ l = p) \/ (from \in LkPcs /\ l = Lk))
    BY DEF DropCases, OwnPcs, LkPcs
  <2>4. (IF own THEN at \notin OwnPcs ELSE at \notin LkPcs) /\ p # Lk
    BY <1>1 DEF DropCases, OwnPcs, LkPcs, Here
  <2>5. QED
    BY SMTT(60), <1>4, <2>1, <2>2, <2>3, <2>4, SchedAssumption
<1>10. Running(p, c)'
  BY <1>1, <1>2, <1>3, <1>5, <1>6 DEF Running
<1>11. noff'[c] > 0 => ~intr'[c]
  BY SMTT(60), <1>2, <1>6
<1>12. waits'[p] <=> at \in {"s_sched", "s_back"}
  BY <1>2 DEF SInv, TypeOK
<1>13. at \in Pcs /\ (at = "w_spin" => next'[p] <= NPROC) /\ noff'[c] = PcDepth(at)
       /\ UNCHANGED <<on, spc, cursor, irq, inext>>
  BY <1>2, <1>6 DEF irqvars
<1>14. QED
  BY <1>1, <1>3, <1>7, <1>8, <1>9, <1>10, <1>11, <1>12, <1>13, ThreadStep

-----------------------------------------------------------------------------
(* One lemma per action: threads.                                          *)
LEMMA CallsStep ==
  ASSUME SInv, NEW p \in Procs, NEW c \in CPUs, irq[c] = "none",
         \/ ConsumeCall(p, c) \/ SleepCall(p, c) \/ ProduceCall(p, c)
         \/ WakeupCall(p, c) \/ YieldCall(p, c)
  PROVE  SInv'
<1>1. CASE ConsumeCall(p, c)
  BY SMTT(60), <1>1, SpinStep DEF ConsumeCall, SpinPairs
<1>2. CASE SleepCall(p, c)
  BY SMTT(60), <1>2, SpinStep DEF SleepCall, SpinPairs
<1>3. CASE ProduceCall(p, c)
  BY SMTT(60), <1>3, SpinStep DEF ProduceCall, SpinPairs
<1>4. CASE WakeupCall(p, c)
  BY SMTT(60), <1>4, SpinStep DEF WakeupCall, SpinPairs
<1>5. CASE YieldCall(p, c)
  BY SMTT(60), <1>5, SpinStep DEF YieldCall, SpinPairs
<1>6. QED
  BY <1>1, <1>2, <1>3, <1>4, <1>5

(* Who moves and is no producer leaves the wakeups as they are.            *)
LEMMA NoProducer ==
  ASSUME SInv, NEW p \in Procs, NEW at, Goto(p, at), pc[p] \notin {"p_wake", "w_spin"},
         UNCHANGED <<irq, inext>>, \A q \in Procs \ {p} : next'[q] = next[q]
  PROVE  \A q \in Procs : Waker(q) => Waker(q)'
BY DEF Goto, Waker, SInv, PcTypes

(* A thread that has tested the condition and is about to sleep is not     *)
(* disturbed by a step that leaves the condition alone.                    *)
LEMMA OthersTested ==
  ASSUME SInv, NEW p \in Procs, NEW at, Goto(p, at), items' = items,
         at \in {"s_spin", "s_drop"} => items = 0
  PROVE  Tested
<1>1. pc'[p] = at /\ \A q \in Procs : q # p => pc'[q] = pc[q]
  BY DEF Goto, SInv, PcTypes
<1>2. QED
  BY <1>1 DEF Tested, SInv, ThreadInv

(* Nobody holds the condition lock: no thread is between test and sleep.   *)
LEMMA LkFree ==
  ASSUME SInv, held[Lk] = Nobody, NEW q \in Procs
  PROVE  pc[q] \notin LkPcs
<1> SUFFICES ASSUME pc[q] \in LkPcs PROVE FALSE
  OBVIOUS
<1>1. ~Off(q) /\ q # None /\ Lk \in Locks
  BY SMTT(60), SchedAssumption DEF Off, LkPcs, Procs, None, Lk, Locks
<1>2. PICK c \in CPUs : on[c] = q
  BY <1>1 DEF SInv, ThreadInv
<1>3. Holds(c, Lk)
  BY <1>1, <1>2 DEF Holds
<1>4. held[Lk] = c
  BY <1>1, <1>3 DEF SInv, HeldInv
<1>5. QED
  BY <1>4, SchedAssumption

(* The consumer takes the lock of the condition.                           *)
LEMMA ConsumeLockStep ==
  ASSUME SInv, NEW p \in Procs, NEW c \in CPUs, irq[c] = "none", ConsumeLock(p, c)
  PROVE  SInv'
<1>1. /\ on[c] = p /\ pc[p] = "c_spin" /\ Take(c, Lk) /\ Goto(p, "c_test")
      /\ UNCHANGED <<cpuvars, on, spc, cursor, state, waits, ret, saved, next, items, irqvars>>
  BY DEF ConsumeLock
<1>2. Tested
  BY <1>1, OthersTested
<1>3. WakeInv'
  <2>1. \A q \in Procs : Waker(q) => Waker(q)'
    BY <1>1, NoProducer DEF irqvars
  <2>2. QED
    BY <1>1, <2>1 DEF WakeInv, SInv, PcTypes, Goto
<1>4. state[p] = "RUNNING"
  BY <1>1 DEF SInv, ThreadInv, Running
<1>5. /\ <<"c_spin", "c_test", FALSE>> \in TakeCases
      /\ Take(c, IF FALSE THEN p ELSE Lk)
  BY <1>1 DEF TakeCases
<1>6. /\ next' \in [Procs -> 1..(NPROC + 1)] /\ items' \in 0..MaxItems
      /\ state' \in [Procs -> {"RUNNABLE", "RUNNING", "SLEEPING"}]
      /\ state'[p] = IF "c_test" = "y_sched" THEN "RUNNABLE" ELSE "RUNNING"
      /\ \A q \in Procs \ {p} : next'[q] = next[q] /\ state'[q] = state[q]
  BY <1>1, <1>4 DEF SInv, TypeOK
<1>7. QED
  BY <1>1, <1>2, <1>3, <1>5, <1>6, TakeStep

(* sleep takes p->lock while it still holds the lock of the condition.     *)
LEMMA SleepLockStep ==
  ASSUME SInv, NEW p \in Procs, NEW c \in CPUs, irq[c] = "none", SleepLock(p, c)
  PROVE  SInv'
<1>1. /\ on[c] = p /\ pc[p] = "s_spin" /\ Take(c, p) /\ Goto(p, "s_drop")
      /\ UNCHANGED <<cpuvars, on, spc, cursor, state, waits, ret, saved, next, items, irqvars>>
  BY DEF SleepLock
<1>2. Tested
  BY <1>1, OthersTested DEF SInv, ThreadInv
<1>3. WakeInv'
  <2>1. \A q \in Procs : Waker(q) => Waker(q)'
    BY <1>1, NoProducer DEF irqvars
  <2>2. QED
    BY <1>1, <2>1 DEF WakeInv, SInv, PcTypes, Goto
<1>4. state[p] = "RUNNING"
  BY <1>1 DEF SInv, ThreadInv, Running
<1>5. /\ <<"s_spin", "s_drop", TRUE>> \in TakeCases
      /\ Take(c, IF TRUE THEN p ELSE Lk)
  BY <1>1 DEF TakeCases
<1>6. /\ next' \in [Procs -> 1..(NPROC + 1)] /\ items' \in 0..MaxItems
      /\ state' \in [Procs -> {"RUNNABLE", "RUNNING", "SLEEPING"}]
      /\ state'[p] = IF "s_drop" = "y_sched" THEN "RUNNABLE" ELSE "RUNNING"
      /\ \A q \in Procs \ {p} : next'[q] = next[q] /\ state'[q] = state[q]
  BY <1>1, <1>4 DEF SInv, TypeOK
<1>7. QED
  BY <1>1, <1>2, <1>3, <1>5, <1>6, TakeStep

(* yield takes p->lock and makes its process RUNNABLE.                     *)
LEMMA YieldStep ==
  ASSUME SInv, NEW p \in Procs, NEW c \in CPUs, irq[c] = "none", yield(p, c)
  PROVE  SInv'
<1>1. /\ on[c] = p /\ pc[p] = "y_spin" /\ Take(c, p) /\ Goto(p, "y_sched")
      /\ state' = [state EXCEPT ![p] = "RUNNABLE"]
      /\ UNCHANGED <<cpuvars, on, spc, cursor, waits, ret, saved, next, items, irqvars>>
  BY DEF yield
<1>2. Tested
  BY <1>1, OthersTested
<1>3. WakeInv'
  <2>1. \A q \in Procs : Waker(q) => Waker(q)'
    BY <1>1, NoProducer DEF irqvars
  <2>2. QED
    BY <1>1, <2>1 DEF WakeInv, SInv, PcTypes, TypeOK, Goto
<1>4. /\ state' \in [Procs -> {"RUNNABLE", "RUNNING", "SLEEPING"}] /\ state'[p] = "RUNNABLE"
      /\ \A q \in Procs \ {p} : state'[q] = state[q]
  BY <1>1 DEF SInv, TypeOK
<1>5. /\ <<"y_spin", "y_sched", TRUE>> \in TakeCases
      /\ Take(c, IF TRUE THEN p ELSE Lk)
  BY <1>1 DEF TakeCases
<1>6. /\ next' \in [Procs -> 1..(NPROC + 1)] /\ items' \in 0..MaxItems
      /\ state' \in [Procs -> {"RUNNABLE", "RUNNING", "SLEEPING"}]
      /\ state'[p] = IF "y_sched" = "y_sched" THEN "RUNNABLE" ELSE "RUNNING"
      /\ \A q \in Procs \ {p} : next'[q] = next[q] /\ state'[q] = state[q]
  BY <1>1, <1>4 DEF SInv, TypeOK
<1>7. QED
  BY <1>1, <1>2, <1>3, <1>5, <1>6, TakeStep

(* acquire(lk) of a producer starts a new round of wakeups.                *)
LEMMA ProduceLockStep ==
  ASSUME SInv, NEW p \in Procs, NEW c \in CPUs, irq[c] = "none", ProduceLock(p, c)
  PROVE  SInv'
<1>1. /\ on[c] = p /\ pc[p] = "p_spin" /\ Take(c, Lk) /\ Goto(p, "p_wake") /\ items' = Produced
      /\ next' = [next EXCEPT ![p] = 1]
      /\ UNCHANGED <<cpuvars, on, spc, cursor, state, waits, ret, saved, irqvars>>
  BY DEF ProduceLock
<1>2. pc'[p] = "p_wake" /\ next'[p] = 1 /\ \A q \in Procs \ {p} : pc'[q] = pc[q]
  BY <1>1 DEF SInv, PcTypes, TypeOK, Goto
<1>3. Tested
  BY <1>1, <1>2, LkFree DEF Tested, Take, LkPcs
<1>4. WakeInv'
  BY SMTT(60), <1>2 DEF WakeInv, Waker, Procs
<1>5. items' \in 0..MaxItems /\ next' \in [Procs -> 1..(NPROC + 1)]
  BY SMTT(60), <1>1, SchedAssumption DEF Produced, SInv, TypeOK
<1>6. state[p] = "RUNNING"
  BY <1>1 DEF SInv, ThreadInv, Running
<1>7. /\ <<"p_spin", "p_wake", FALSE>> \in TakeCases
      /\ Take(c, IF FALSE THEN p ELSE Lk)
  BY <1>1 DEF TakeCases
<1>8. /\ next' \in [Procs -> 1..(NPROC + 1)] /\ items' \in 0..MaxItems
      /\ state' \in [Procs -> {"RUNNABLE", "RUNNING", "SLEEPING"}]
      /\ state'[p] = IF "p_wake" = "y_sched" THEN "RUNNABLE" ELSE "RUNNING"
      /\ \A q \in Procs \ {p} : next'[q] = next[q] /\ state'[q] = state[q]
  BY <1>1, <1>5, <1>6 DEF SInv, TypeOK
<1>9. QED
  BY <1>1, <1>3, <1>4, <1>7, <1>8, TakeStep

(* The consumer tests the condition under its lock, takes an item or goes  *)
(* to sleep.                                                               *)
LEMMA ConsumeStep ==
  ASSUME SInv, NEW p \in Procs, NEW c \in CPUs, irq[c] = "none", Consume(p, c)
  PROVE  SInv'
<1>1. /\ on[c] = p /\ pc[p] = "c_test" /\ Drop(c, IF FALSE THEN p ELSE Lk) /\ Goto(p, "run")
      /\ UNCHANGED <<on, spc, cursor, state, ret, saved, irqvars>>
      /\ items > 0 /\ items' = items - 1 /\ UNCHANGED <<waits, next>>
  BY DEF Consume
<1>2. Tested
  <2>1. pc'[p] = "run" /\ \A q \in Procs : q # p => pc'[q] = pc[q]
    BY <1>1 DEF Goto, SInv, PcTypes
  <2>2. \A q \in Procs : pc[q] \in {"s_spin", "s_drop"} => items = 0
    BY DEF SInv, ThreadInv
  <2>3. QED
    BY SMTT(60), <1>1, <2>1, <2>2 DEF Tested
<1>3. WakeInv'
  <2>1. \A q \in Procs : Waker(q) => Waker(q)'
    BY <1>1, NoProducer DEF irqvars
  <2>2. QED
    BY <1>1, <2>1 DEF WakeInv, SInv, PcTypes, TypeOK, Goto
<1>4. waits' = [waits EXCEPT ![p] = FALSE]
  <2>1. waits \in [Procs -> BOOLEAN] /\ ~waits[p]
    BY <1>1 DEF SInv, TypeOK, ThreadInv
  <2>2. QED
    BY <1>1, <2>1
<1>5. <<"c_test", "run", FALSE>> \in DropCases
  BY DEF DropCases
<1>6. /\ next' \in [Procs -> 1..(NPROC + 1)] /\ items' \in 0..MaxItems
      /\ \A q \in Procs \ {p} : next'[q] = next[q]
  BY SMTT(60), <1>1, SchedAssumption DEF SInv, TypeOK
<1>7. QED
  BY <1>1, <1>2, <1>3, <1>4, <1>5, <1>6, DropStep

(* release(lk) in sleep: there is no item, and who adds one now finds      *)
(* p->lock taken.                                                          *)
LEMMA SleepDropStep ==
  ASSUME SInv, NEW p \in Procs, NEW c \in CPUs, irq[c] = "none", SleepDrop(p, c)
  PROVE  SInv'
<1>1. /\ on[c] = p /\ pc[p] = "s_drop" /\ Drop(c, IF FALSE THEN p ELSE Lk) /\ Goto(p, "s_chan")
      /\ UNCHANGED <<on, spc, cursor, state, ret, saved, irqvars>>
      /\ UNCHANGED <<waits, next, items>>
  BY DEF SleepDrop
<1>2. Tested
  BY <1>1, OthersTested
<1>3. WakeInv'
  <2>1. items' = 0
    BY <1>1 DEF SInv, ThreadInv
  <2>2. QED
    BY SMTT(60), <2>1 DEF WakeInv
<1>4. waits' = [waits EXCEPT ![p] = FALSE]
  <2>1. waits \in [Procs -> BOOLEAN] /\ ~waits[p]
    BY <1>1 DEF SInv, TypeOK, ThreadInv
  <2>2. QED
    BY <1>1, <2>1
<1>5. <<"s_drop", "s_chan", FALSE>> \in DropCases
  BY DEF DropCases
<1>6. /\ next' \in [Procs -> 1..(NPROC + 1)] /\ items' \in 0..MaxItems
      /\ \A q \in Procs \ {p} : next'[q] = next[q]
  BY <1>1, SchedAssumption DEF SInv, TypeOK
<1>7. QED
  BY <1>1, <1>2, <1>3, <1>4, <1>5, <1>6, DropStep

(* sleep returns from sched, clears p->chan and releases p->lock.          *)
LEMMA SleepBackStep ==
  ASSUME SInv, NEW p \in Procs, NEW c \in CPUs, irq[c] = "none", SleepBack(p, c)
  PROVE  SInv'
<1>1. /\ on[c] = p /\ pc[p] = "s_back" /\ Drop(c, IF TRUE THEN p ELSE Lk) /\ Goto(p, "again")
      /\ UNCHANGED <<on, spc, cursor, state, ret, saved, irqvars>>
      /\ waits' = [waits EXCEPT ![p] = FALSE] /\ UNCHANGED <<next, items>>
  BY DEF SleepBack
<1>2. Tested
  BY <1>1, OthersTested
<1>3. WakeInv'
  <2>1. \A q \in Procs : Waker(q) => Waker(q)'
    BY <1>1, NoProducer DEF irqvars
  <2>2. QED
    BY <1>1, <2>1 DEF WakeInv, SInv, PcTypes, TypeOK, Goto
<1>4. waits' = [waits EXCEPT ![p] = FALSE]
  BY <1>1
<1>5. <<"s_back", "again", TRUE>> \in DropCases
  BY DEF DropCases
<1>6. /\ next' \in [Procs -> 1..(NPROC + 1)] /\ items' \in 0..MaxItems
      /\ \A q \in Procs \ {p} : next'[q] = next[q]
  BY <1>1, SchedAssumption DEF SInv, TypeOK
<1>7. QED
  BY <1>1, <1>2, <1>3, <1>4, <1>5, <1>6, DropStep

(* The producer has passed everybody.                                      *)
LEMMA ProduceDoneStep ==
  ASSUME SInv, NEW p \in Procs, NEW c \in CPUs, irq[c] = "none", ProduceDone(p, c)
  PROVE  SInv'
<1>1. /\ on[c] = p /\ pc[p] = "p_wake" /\ Drop(c, IF FALSE THEN p ELSE Lk) /\ Goto(p, "run")
      /\ UNCHANGED <<on, spc, cursor, state, ret, saved, irqvars>>
      /\ next[p] > NPROC /\ next' = [next EXCEPT ![p] = 1] /\ UNCHANGED <<waits, items>>
  BY DEF ProduceDone
<1>2. Tested
  BY <1>1, OthersTested
<1>3. WakeInv'
  <2>1. pc'[p] = "run" /\ \A q \in Procs \ {p} : pc'[q] = pc[q] /\ next'[q] = next[q]
    BY <1>1 DEF Goto, SInv, PcTypes, TypeOK
  <2>2. \A q \in Procs : ~(next[p] <= q)
    <3>1. next[p] \in Int /\ NPROC \in Int
      BY SMTT(60), SchedAssumption DEF SInv, TypeOK
    <3>2. QED
      BY SMTT(60), <1>1, <3>1 DEF Procs
  <2>3. \A q \in Procs : Waker(q) => Waker(q)'
    BY <1>1, <2>1, <2>2 DEF Waker, irqvars
  <2>4. QED
    BY <1>1, <2>1, <2>3 DEF WakeInv, SInv
<1>4. waits' = [waits EXCEPT ![p] = FALSE]
  <2>1. waits \in [Procs -> BOOLEAN] /\ ~waits[p]
    BY <1>1 DEF SInv, TypeOK, ThreadInv
  <2>2. QED
    BY <1>1, <2>1
<1>5. <<"p_wake", "run", FALSE>> \in DropCases
  BY DEF DropCases
<1>6. /\ next' \in [Procs -> 1..(NPROC + 1)] /\ items' \in 0..MaxItems
      /\ \A q \in Procs \ {p} : next'[q] = next[q]
  BY SMTT(60), <1>1, SchedAssumption DEF SInv, TypeOK
<1>7. QED
  BY <1>1, <1>2, <1>3, <1>4, <1>5, <1>6, DropStep

(* yield returns from sched and releases p->lock.                          *)
LEMMA YieldBackStep ==
  ASSUME SInv, NEW p \in Procs, NEW c \in CPUs, irq[c] = "none", YieldBack(p, c)
  PROVE  SInv'
<1>1. /\ on[c] = p /\ pc[p] \in {"y_back", "forkret"} /\ Drop(c, IF TRUE THEN p ELSE Lk)
      /\ Goto(p, IF pc[p] = "y_back" THEN "trapret" ELSE "userret")
      /\ UNCHANGED <<on, spc, cursor, state, waits, ret, saved, next, items, irqvars>>
  BY DEF YieldBack
<1>2. waits' = [waits EXCEPT ![p] = FALSE]
  <2>1. waits \in [Procs -> BOOLEAN] /\ ~waits[p]
    BY <1>1 DEF SInv, TypeOK, ThreadInv
  <2>2. QED
    BY <1>1, <2>1
<1>3. /\ next' \in [Procs -> 1..(NPROC + 1)] /\ items' \in 0..MaxItems
      /\ \A q \in Procs \ {p} : next'[q] = next[q]
  BY <1>1 DEF SInv, TypeOK
<1>4. ASSUME NEW from, NEW at, <<from, at>> \in {<<"y_back", "trapret">>, <<"forkret", "userret">>},
             pc[p] = from, Goto(p, at)
      PROVE  SInv'
  <2>1. <<from, at, TRUE>> \in DropCases
    BY <1>4 DEF DropCases
  <2>2. at \notin {"s_spin", "s_drop", "s_chan"} /\ from \notin {"p_wake", "w_spin"}
    BY <1>4
  <2>3. Tested
    BY <1>1, <1>4, <2>2, OthersTested
  <2>4. \A q \in Procs : Waker(q) => Waker(q)'
    BY <1>1, <1>4, <2>2, NoProducer DEF irqvars
  <2>5. WakeInv'
    BY <1>1, <1>4, <2>2, <2>4 DEF WakeInv, SInv, PcTypes, Goto
  <2>6. QED
    BY <1>1, <1>2, <1>3, <1>4, <2>1, <2>3, <2>5, DropStep
<1>5. CASE pc[p] = "y_back"
  BY SMTT(60), <1>1, <1>4, <1>5
<1>6. CASE pc[p] = "forkret"
  BY SMTT(60), <1>1, <1>4, <1>6
<1>7. QED
  BY <1>1, <1>5, <1>6

(* SLEEPING: whoever adds an item has still to get p->lock.                *)
LEMMA SleepSchedStep ==
  ASSUME SInv, NEW p \in Procs, NEW c \in CPUs, irq[c] = "none", SleepSched(p, c)
  PROVE  SInv'
<1>1. /\ on[c] = p /\ pc[p] = "s_chan" /\ Goto(p, "s_sched")
      /\ waits' = [waits EXCEPT ![p] = TRUE] /\ state' = [state EXCEPT ![p] = "SLEEPING"]
      /\ UNCHANGED <<held, cpuvars, on, spc, cursor, ret, saved, next, items, irqvars>>
  BY DEF SleepSched
<1>2. Here(p, c) /\ Running(p, c)
  BY SMTT(60), <1>1, IsHere DEF Here
<1>3. pc' = [pc EXCEPT ![p] = "s_sched"] /\ pc'[p] = "s_sched" /\ "s_sched" \in Pcs
  BY <1>1 DEF Goto, SInv, PcTypes, Pcs, CallPcs
<1>4. TypeOK' /\ PcTypes'
  BY <1>1, <1>3 DEF SInv, TypeOK, PcTypes, irqvars, cpuvars
<1>5. OnlyCpu(c) /\ OnlyThread(p)
  BY <1>1, <1>3 DEF OnlyCpu, OnlyThread, SInv, TypeOK, PcTypes, irqvars, cpuvars
<1>6. \A l \in Locks : held'[l] = c <=> ("s_sched" \in OwnPcs /\ l = p) \/ ("s_sched" \in LkPcs /\ l = Lk)
  BY <1>1, <1>2 DEF Here, OwnPcs, LkPcs
<1>7. Running(p, c)'
  BY <1>1, <1>2, <1>3 DEF Running, CallPcs, YieldPcs, cpuvars, irqvars, SInv, TypeOK
<1>8. noff'[c] = PcDepth("s_sched") /\ (noff'[c] > 0 => ~intr'[c]) /\ waits'[p]
  BY <1>1, <1>2 DEF Here, PcDepth, FreePcs, DeepPcs, cpuvars, SInv, TypeOK
<1>9. Tested
  BY <1>1, OthersTested
<1>10. WakeInv'
  <2>1. \A q \in Procs : Waker(q) => Waker(q)'
    BY <1>1, NoProducer DEF irqvars
  <2>2. QED
    BY <1>1, <2>1 DEF WakeInv, SInv, PcTypes, TypeOK, Goto
<1>11. UNCHANGED <<on, spc, cursor, irq, inext, held>>
  BY <1>1 DEF irqvars
<1>12. QED
  BY <1>2, <1>3, <1>4, <1>5, <1>6, <1>7, <1>8, <1>9, <1>10, <1>11, ThreadStep

(* The body of wakeup's loop.                                              *)
LEMMA WokenUp ==
  ASSUME SInv, NEW n \in Procs, held[n] = Nobody, state' = wakeup1(n)
  PROVE  /\ state' \in [Procs -> {"RUNNABLE", "RUNNING", "SLEEPING"}]
         /\ state'[n] # "SLEEPING" /\ pc[n] # "s_chan"
         /\ \A q \in Procs : \/ state'[q] = state[q]
                             \/ q = n /\ state[q] = "SLEEPING" /\ state'[q] = "RUNNABLE"
<1>1. state \in [Procs -> {"RUNNABLE", "RUNNING", "SLEEPING"}]
  BY DEF SInv, TypeOK
<1>2. state[n] = "SLEEPING" => waits[n]
  BY Sleeper DEF SInv, ThreadInv
<1>3. pc[n] # "s_chan"
  <2> SUFFICES ASSUME pc[n] = "s_chan" PROVE FALSE
    OBVIOUS
  <2>1. ~Off(n) /\ n # None /\ n \in Locks
    BY SMTT(60) DEF Off, Procs, None, Locks
  <2>2. PICK c \in CPUs : on[c] = n
    BY <2>1 DEF SInv, ThreadInv
  <2>3. Holds(c, n)
    BY <2>1, <2>2 DEF Holds, OwnPcs
  <2>4. held[n] = c
    BY <2>1, <2>3 DEF SInv, HeldInv
  <2>5. QED
    BY <2>4, SchedAssumption
<1>4. QED
  BY <1>1, <1>2, <1>3 DEF wakeup1

(* wakeup looks at one process under its p->lock.                          *)
LEMMA WakeupStep ==
  ASSUME SInv, NEW p \in Procs, NEW c \in CPUs, irq[c] = "none", wakeup(p, c)
  PROVE  SInv'
<1>1. /\ on[c] = p /\ pc[p] = "w_spin" /\ held[next[p]] = Nobody /\ state' = wakeup1(next[p])
      /\ next' = [next EXCEPT ![p] = @ + 1] /\ pop_off(c) /\ Goto(p, "p_wake")
      /\ UNCHANGED <<held, on, spc, cursor, waits, ret, saved, items, irqvars>>
  BY DEF wakeup
<1>2. Here(p, c) /\ Running(p, c)
  BY SMTT(60), <1>1, IsHere DEF Here
<1>3. next[p] \in Procs /\ next[p] + 1 \in 1..(NPROC + 1)
  BY SMTT(60), <1>1, SchedAssumption DEF SInv, ThreadInv, TypeOK, Procs
<1>4. /\ state' \in [Procs -> {"RUNNABLE", "RUNNING", "SLEEPING"}]
      /\ state'[next[p]] # "SLEEPING" /\ pc[next[p]] # "s_chan"
      /\ \A q \in Procs : \/ state'[q] = state[q]
                          \/ q = next[p] /\ state[q] = "SLEEPING" /\ state'[q] = "RUNNABLE"
  BY <1>1, <1>3, WokenUp
<1>5. /\ pc' = [pc EXCEPT ![p] = "p_wake"] /\ pc'[p] = "p_wake" /\ "p_wake" \in Pcs
      /\ \A q \in Procs \ {p} : pc'[q] = pc[q]
  BY <1>1 DEF Goto, SInv, PcTypes, Pcs, CallPcs
<1>6. /\ next' \in [Procs -> 1..(NPROC + 1)] /\ next'[p] = next[p] + 1
      /\ \A q \in Procs \ {p} : next'[q] = next[q]
  BY <1>1, <1>3 DEF SInv, TypeOK
<1>7. noff[c] = 2 /\ intr[c] = FALSE /\ state[p] = "RUNNING" /\ intena[c]
  BY SMTT(60), <1>1, <1>2 DEF Here, PcDepth, FreePcs, DeepPcs, Running, CallPcs
<1>8. noff' = [noff EXCEPT ![c] = 1] /\ intr' = intr /\ intena' = intena
  BY SMTT(60), <1>1, <1>7 DEF pop_off, SInv, TypeOK
<1>9. TypeOK' /\ PcTypes'
  BY SMTT(60), <1>1, <1>4, <1>5, <1>6, <1>8 DEF SInv, TypeOK, PcTypes, irqvars
<1>10. OnlyCpu(c) /\ OnlyThread(p)
  <2>1. OnlyCpu(c)
    BY <1>1, <1>8 DEF OnlyCpu, SInv, TypeOK, irqvars
  <2>2. OnlyThread(p)
    BY SMTT(60), <1>1, <1>4, <1>5, <1>6 DEF OnlyThread
  <2>3. QED
    BY <2>1, <2>2
<1>11. \A l \in Locks : held'[l] = c <=> ("p_wake" \in OwnPcs /\ l = p) \/ ("p_wake" \in LkPcs /\ l = Lk)
  BY <1>1, <1>2 DEF Here, OwnPcs, LkPcs
<1>12. Running(p, c)'
  <2>1. state'[p] = "RUNNING"
    BY <1>4, <1>7
  <2>2. QED
    BY <1>5, <1>7, <1>8, <2>1 DEF Running, CallPcs, YieldPcs
<1>13. /\ noff'[c] = PcDepth("p_wake") /\ (noff'[c] > 0 => ~intr'[c])
       /\ ~waits'[p]
  BY <1>1, <1>2, <1>7, <1>8 DEF Here, PcDepth, FreePcs, DeepPcs, SInv, TypeOK
<1>14. Tested
  BY <1>1, OthersTested
<1>15. WakeInv'
  <2> SUFFICES ASSUME NEW q \in Procs, pc'[q] = "s_chan" \/ state'[q] = "SLEEPING", items' > 0
               PROVE  Waker(q)'
    BY DEF WakeInv
  <2>1. q # next[p]
    BY <1>4, <1>5
  <2>2. pc[q] = "s_chan" \/ state[q] = "SLEEPING"
    BY <1>4, <1>5
  <2>3. Waker(q)
    BY <1>1, <2>2 DEF SInv, WakeInv
  <2>4. next[p] <= q => next'[p] <= q
    BY SMTT(60), <1>3, <1>6, <2>1 DEF Procs
  <2>5. QED
    BY <1>1, <1>5, <1>6, <2>3, <2>4 DEF Waker, irqvars
<1>16. UNCHANGED <<on, spc, cursor, irq, inext, held>>
  BY <1>1 DEF irqvars
<1>17. QED
  BY <1>2, <1>5, <1>9, <1>10, <1>11, <1>12, <1>13, <1>14, <1>15, <1>16, ThreadStep

(* A timer interrupt of a running thread, which then yields.               *)
LEMMA TimerStep ==
  ASSUME SInv, NEW p \in Procs, NEW c \in CPUs, irq[c] = "none", Timer(p, c)
  PROVE  SInv'
<1>1. /\ on[c] = p /\ pc[p] \in {"run", "again"} /\ intr' = [intr EXCEPT ![c] = FALSE]
      /\ ret' = [ret EXCEPT ![p] = pc[p]] /\ Goto(p, "trap")
      /\ UNCHANGED <<held, noff, intena, on, spc, cursor, state, waits, saved, next, items, irqvars>>
  BY DEF Timer
<1>2. Here(p, c) /\ Running(p, c)
  BY SMTT(60), <1>1, IsHere DEF Here
<1>3. pc' = [pc EXCEPT ![p] = "trap"] /\ pc'[p] = "trap" /\ "trap" \in Pcs
  BY <1>1 DEF Goto, SInv, PcTypes, Pcs, FreePcs
<1>4. TypeOK' /\ PcTypes'
  BY <1>1, <1>3 DEF SInv, TypeOK, PcTypes, irqvars
<1>5. OnlyCpu(c) /\ OnlyThread(p) /\ intr'[c] = FALSE
  BY <1>1, <1>3 DEF OnlyCpu, OnlyThread, SInv, TypeOK, PcTypes, irqvars
<1>6. \A l \in Locks : held'[l] = c <=> ("trap" \in OwnPcs /\ l = p) \/ ("trap" \in LkPcs /\ l = Lk)
  BY <1>1, <1>2 DEF Here, OwnPcs, LkPcs
<1>7. Running(p, c)'
  BY <1>1, <1>2, <1>3, <1>5 DEF Running, CallPcs, YieldPcs
<1>8. noff'[c] = PcDepth("trap") /\ (noff'[c] > 0 => ~intr'[c]) /\ ~waits'[p]
  BY <1>1, <1>2, <1>5 DEF Here, PcDepth, FreePcs, DeepPcs
<1>9. Tested
  BY <1>1, OthersTested
<1>10. WakeInv'
  <2>1. \A q \in Procs : Waker(q) => Waker(q)'
    BY <1>1, NoProducer DEF irqvars
  <2>2. QED
    BY <1>1, <2>1 DEF WakeInv, SInv, PcTypes, TypeOK, Goto
<1>11. UNCHANGED <<on, spc, cursor, irq, inext, held>>
  BY <1>1 DEF irqvars
<1>12. QED
  BY <1>2, <1>3, <1>4, <1>5, <1>6, <1>7, <1>8, <1>9, <1>10, <1>11, ThreadStep

(* The return from a trap restores the interrupt state of the thread.      *)
LEMMA TrapRetStep ==
  ASSUME SInv, NEW p \in Procs, NEW c \in CPUs, irq[c] = "none", TrapRet(p, c)
  PROVE  SInv'
<1>1. /\ on[c] = p /\ pc[p] \in {"trapret", "userret"} /\ intr' = [intr EXCEPT ![c] = TRUE]
      /\ ret' = [ret EXCEPT ![p] = "run"] /\ Goto(p, ret[p])
      /\ UNCHANGED <<held, noff, intena, on, spc, cursor, state, waits, saved, next, items, irqvars>>
  BY DEF TrapRet
<1>2. Here(p, c) /\ Running(p, c)
  BY SMTT(60), <1>1, IsHere DEF Here
<1>3. ASSUME NEW at \in {"run", "again"}, Goto(p, at) PROVE SInv'
  <2>1. pc' = [pc EXCEPT ![p] = at] /\ pc'[p] = at /\ at \in Pcs
    BY <1>3 DEF Goto, SInv, PcTypes, Pcs, FreePcs
  <2>2. TypeOK' /\ PcTypes'
    BY <1>1, <2>1 DEF SInv, TypeOK, PcTypes, irqvars
  <2>3. OnlyCpu(c) /\ OnlyThread(p) /\ intr'[c] = TRUE
    BY <1>1, <2>1 DEF OnlyCpu, OnlyThread, SInv, TypeOK, PcTypes, irqvars
  <2>4. \A l \in Locks : held'[l] = c <=> (at \in OwnPcs /\ l = p) \/ (at \in LkPcs /\ l = Lk)
    BY <1>1, <1>2 DEF Here, OwnPcs, LkPcs
  <2>5. Running(p, c)'
    BY <1>1, <1>2, <2>1, <2>3 DEF Running, CallPcs, YieldPcs
  <2>6. noff'[c] = PcDepth(at) /\ (noff'[c] > 0 => ~intr'[c]) /\ ~waits'[p]
    BY SMTT(60), <1>1, <1>2 DEF Here, PcDepth, FreePcs, DeepPcs
  <2>7. Tested
    BY <1>1, <1>3, OthersTested
  <2>8. WakeInv'
    <3>1. \A q \in Procs : Waker(q) => Waker(q)'
      BY <1>1, <1>3, NoProducer DEF irqvars
    <3>2. QED
      BY <1>1, <2>1, <3>1 DEF WakeInv, SInv, PcTypes, TypeOK
  <2>9. UNCHANGED <<on, spc, cursor, irq, inext, held>>
    BY <1>1 DEF irqvars
  <2>10. QED
    BY <1>2, <2>1, <2>2, <2>3, <2>4, <2>5, <2>6, <2>7, <2>8, <2>9, ThreadStep
<1>4. ret[p] \in {"run", "again"}
  BY DEF SInv, PcTypes
<1>5. QED
  BY <1>1, <1>3, <1>4

(* swtch to the scheduler: p->lock changes hands, intena stays with p.     *)
LEMMA SchedStep ==
  ASSUME SInv, NEW p \in Procs, NEW c \in CPUs, irq[c] = "none", sched(p, c)
  PROVE  SInv'
<1>1. /\ on[c] = p /\ pc[p] \in {"s_sched", "y_sched"} /\ saved' = [saved EXCEPT ![p] = intena[c]]
      /\ on' = [on EXCEPT ![c] = None]
      /\ pc' = [pc EXCEPT ![p] = IF pc[p] = "s_sched" THEN "s_back" ELSE "y_back"]
      /\ UNCHANGED <<held, noff, intena, intr, spc, cursor, state, waits, ret, next, items, irq, inext>>
  BY DEF sched, Goto, cpuvars, irqvars
<1>2. Here(p, c) /\ Running(p, c)
  BY SMTT(60), <1>1, IsHere DEF Here
<1>3. /\ pc'[p] = IF pc[p] = "s_sched" THEN "s_back" ELSE "y_back"
      /\ \A q \in Procs \ {p} : pc'[q] = pc[q] /\ saved'[q] = saved[q]
      /\ saved'[p] = intena[c] /\ on'[c] = None /\ \A d \in CPUs \ {c} : on'[d] = on[d]
  BY <1>1 DEF SInv, PcTypes, TypeOK
<1>4. PcTypes'
  BY <1>1, <1>2 DEF SInv, PcTypes, Here, Pcs, CallPcs, YieldPcs
<1>5. TypeOK'
  BY <1>1 DEF SInv, TypeOK
<1>6. OnlyCpu(c) /\ OnlyThread(p)
  BY <1>1, <1>3 DEF OnlyCpu, OnlyThread
<1>7. OnlyLocks(c)
  BY <1>1, <1>2, <1>3 DEF OnlyLocks, Holds, Here, OwnPcs, LkPcs
<1>8. Cpu(c)'
  BY SMTT(60), <1>1, <1>2, <1>3 DEF Cpu, BaseDepth, IrqDepth, Open, Here, PcDepth, FreePcs, DeepPcs
<1>9. After(p, c)
  <2>1. Off(p)'
    BY SMTT(60), <1>1, <1>2, <1>3 DEF Off, Running, CallPcs, YieldPcs
  <2>2. QED
    BY SMTT(60), <1>1, <1>2, <1>3, <2>1 DEF After, Here
<1>10. Tested
  BY SMTT(60), <1>1, <1>3 DEF Tested, SInv, ThreadInv
<1>11. WakeInv'
  <2>1. \A q \in Procs : Waker(q) => Waker(q)'
    BY <1>1, <1>3 DEF Waker
  <2>2. QED
    BY SMTT(60), <1>1, <1>3, <2>1 DEF WakeInv, SInv
<1>12. /\ \A d \in CPUs \ {c} : on[d] # None => on[d] # p
       /\ on[c] \in {p, None} /\ on'[c] \in {p, None}
  BY <1>1, <1>2, <1>3 DEF Here
<1>13. QED
  BY <1>4, <1>5, <1>6, <1>7, <1>8, <1>9, <1>10, <1>11, <1>12, CpuStep

-----------------------------------------------------------------------------
(* The scheduler.                                                          *)
Idle(c) ==
  /\ on[c] = None /\ irq[c] = "none"
  /\ noff[c] = (IF spc[c] \in {"take", "back"} THEN 1 ELSE 0) /\ (noff[c] > 0 => ~intr[c])
  /\ intr[c] \in BOOLEAN /\ intena[c] \in BOOLEAN /\ cursor[c] \in Procs
  /\ \A l \in Locks : held[l] = c <=> spc[c] = "back" /\ l = cursor[c]

(* What the invariant says of a CPU that runs its scheduler.               *)
LEMMA IsIdle ==
  ASSUME SInv, NEW c \in CPUs, irq[c] = "none", on[c] = None
  PROVE  Idle(c)
<1>1. Cpu(c)
  BY DEF SInv, CpuInv
<1>2. noff[c] = (IF spc[c] \in {"take", "back"} THEN 1 ELSE 0) /\ (noff[c] > 0 => ~intr[c])
  BY SMTT(60), <1>1 DEF Cpu, BaseDepth, IrqDepth
<1>3. \A l \in Locks : held[l] = c <=> spc[c] = "back" /\ l = cursor[c]
  BY SMTT(60) DEF SInv, HeldInv, Holds
<1>4. QED
  BY <1>2, <1>3 DEF Idle, SInv, TypeOK

(* Steps of the scheduler that switch to nobody.                           *)
LEMMA IdleStep ==
  ASSUME SInv, NEW c \in CPUs, Idle(c), OnlyCpu(c), TypeOK',
         UNCHANGED <<on, irq, inext, state, waits, pc, ret, saved, next, items>>,
         \A d \in CPUs \ {c}, l \in Locks : held'[l] = d <=> held[l] = d,
         \A l \in Locks : held'[l] = c <=> spc'[c] = "back" /\ l = cursor'[c],
         noff'[c] = (IF spc'[c] \in {"take", "back"} THEN 1 ELSE 0), noff'[c] > 0 => ~intr'[c]
  PROVE  SInv'
<1>1. PcTypes'
  BY DEF SInv, PcTypes
<1>2. OnlyThread(None)
  BY DEF OnlyThread
<1>3. OnlyLocks(c)
  BY DEF OnlyLocks, Holds, Idle
<1>4. Cpu(c)'
  BY SMTT(60) DEF Cpu, BaseDepth, IrqDepth, Open, Idle
<1>5. Tested
  BY DEF Tested, SInv, ThreadInv
<1>6. WakeInv'
  BY DEF WakeInv, Waker, SInv
<1>7. on[c] \in {None} /\ on'[c] \in {None} /\ None \in Procs \cup {None}
  BY DEF Idle
<1>8. QED
  BY <1>1, <1>2, <1>3, <1>4, <1>5, <1>6, <1>7, CpuStep

(* The scheduler turns interrupts on before it goes over the table.        *)
LEMMA SchedTopStep ==
  ASSUME SInv, NEW c \in CPUs, irq[c] = "none", sched_top(c)
  PROVE  SInv'
<1>1. /\ on[c] = None /\ spc[c] = "top" /\ intr' = [intr EXCEPT ![c] = TRUE]
      /\ spc' = [spc EXCEPT ![c] = "scan"] /\ cursor' = [cursor EXCEPT ![c] = 1]
      /\ UNCHANGED <<held, noff, intena, on, state, waits, pc, ret, saved, next, items, irq, inext>>
  BY DEF sched_top, irqvars
<1>2. Idle(c)
  BY <1>1, IsIdle
<1>3. TypeOK' /\ OnlyCpu(c) /\ spc'[c] = "scan"
  BY SMTT(60), <1>1, SchedAssumption DEF SInv, TypeOK, OnlyCpu, Procs
<1>4. /\ \A l \in Locks : held'[l] = c <=> spc'[c] = "back" /\ l = cursor'[c]
      /\ noff'[c] = (IF spc'[c] \in {"take", "back"} THEN 1 ELSE 0) /\ (noff'[c] > 0 => ~intr'[c])
  BY SMTT(60), <1>1, <1>2, <1>3 DEF Idle
<1>5. QED
  BY <1>1, <1>2, <1>3, <1>4, IdleStep

(* The scheduler takes the p->lock of a process.                           *)
LEMMA SchedAcquireStep ==
  ASSUME SInv, NEW c \in CPUs, irq[c] = "none", sched_acquire(c)
  PROVE  SInv'
<1>1. /\ on[c] = None /\ spc[c] = "scan" /\ push_off(c) /\ spc' = [spc EXCEPT ![c] = "take"]
      /\ UNCHANGED <<held, on, cursor, state, waits, pc, ret, saved, next, items, irq, inext>>
  BY DEF sched_acquire, irqvars
<1>2. Idle(c) /\ noff[c] = 0
  BY <1>1, IsIdle DEF Idle
<1>3. /\ noff' = [noff EXCEPT ![c] = 1] /\ intr' = [intr EXCEPT ![c] = FALSE]
      /\ intena' = [intena EXCEPT ![c] = intr[c]] /\ intr[c] \in BOOLEAN
  BY SMTT(60), <1>1, <1>2 DEF push_off, Idle
<1>4. TypeOK' /\ OnlyCpu(c) /\ spc'[c] = "take" /\ noff'[c] = 1 /\ ~intr'[c]
  BY SMTT(60), <1>1, <1>3 DEF SInv, TypeOK, OnlyCpu
<1>5. \A l \in Locks : held'[l] = c <=> spc'[c] = "back" /\ l = cursor'[c]
  BY <1>1, <1>2, <1>4 DEF Idle
<1>6. QED
  BY <1>1, <1>2, <1>4, <1>5, IdleStep

(* release(&p->lock) and on to the next slot, from a process or without.   *)
LEMMA Advanced ==
  ASSUME SInv, NEW c \in CPUs, Idle(c), spc[c] \in {"take", "back"}, Advance(c), pop_off(c),
         UNCHANGED <<on, irq, inext>>
  PROVE  /\ OnlyCpu(c) /\ spc'[c] \in {"scan", "top"} /\ noff'[c] = 0
         /\ noff' \in [CPUs -> 0..2] /\ intena' = intena /\ intr' \in [CPUs -> BOOLEAN]
         /\ cursor' \in [CPUs -> Procs] /\ spc' \in [CPUs -> {"top", "scan", "take", "back"}]
<1>1. noff[c] = 1 /\ cursor[c] \in 1..NPROC /\ NPROC \in Nat /\ NPROC > 0
  BY SMTT(60), SchedAssumption DEF Idle, Procs
<1>2. /\ noff \in [CPUs -> 0..2] /\ intr \in [CPUs -> BOOLEAN] /\ cursor \in [CPUs -> 1..NPROC]
      /\ spc \in [CPUs -> {"top", "scan", "take", "back"}] /\ intena \in [CPUs -> BOOLEAN]
  BY DEF SInv, TypeOK, Procs
<1>3. noff' = [noff EXCEPT ![c] = 0] /\ intena' = intena
  BY SMTT(60), <1>1 DEF pop_off
<1>4. intr' \in [CPUs -> BOOLEAN] /\ \A d \in CPUs \ {c} : intr'[d] = intr[d]
  <2>1. (intr[c] \/ (noff[c] = 1 /\ intena[c])) \in BOOLEAN
    OBVIOUS
  <2>2. QED
    BY <1>2, <2>1 DEF pop_off
<1>5. /\ cursor' \in [CPUs -> 1..NPROC] /\ \A d \in CPUs \ {c} : cursor'[d] = cursor[d]
  <2>1. (IF cursor[c] < NPROC THEN cursor[c] + 1 ELSE 1) \in 1..NPROC
    BY SMTT(60), <1>1
  <2>2. QED
    BY <1>2, <2>1 DEF Advance
<1>6. /\ spc' \in [CPUs -> {"top", "scan", "take", "back"}] /\ spc'[c] \in {"scan", "top"}
      /\ \A d \in CPUs \ {c} : spc'[d] = spc[d]
  BY <1>2 DEF Advance
<1>7. /\ noff' \in [CPUs -> 0..2] /\ noff'[c] = 0
      /\ \A d \in CPUs \ {c} : noff'[d] = noff[d]
  BY SMTT(60), <1>2, <1>3
<1>8. OnlyCpu(c)
  BY <1>3, <1>4, <1>5, <1>6, <1>7 DEF OnlyCpu
<1>9. QED
  BY <1>3, <1>4, <1>5, <1>6, <1>7, <1>8 DEF Procs

(* The scheduler releases p->lock and goes on to the next process.         *)
LEMMA SchedReleaseStep ==
  ASSUME SInv, NEW c \in CPUs, irq[c] = "none", sched_release(c)
  PROVE  SInv'
<1>1. /\ on[c] = None /\ spc[c] = "back" /\ pop_off(c) /\ Advance(c)
      /\ held' = [held EXCEPT ![cursor[c]] = Nobody]
      /\ UNCHANGED <<on, state, waits, pc, ret, saved, next, items, irq, inext>>
  BY DEF sched_release, Drop, irqvars
<1>2. Idle(c) /\ cursor[c] \in Locks /\ held[cursor[c]] = c
  BY <1>1, IsIdle DEF Idle, Locks
<1>3. /\ OnlyCpu(c) /\ spc'[c] \in {"scan", "top"} /\ noff'[c] = 0
      /\ noff' \in [CPUs -> 0..2] /\ intena' = intena /\ intr' \in [CPUs -> BOOLEAN]
      /\ cursor' \in [CPUs -> Procs] /\ spc' \in [CPUs -> {"top", "scan", "take", "back"}]
  BY <1>1, <1>2, Advanced
<1>4. /\ held' \in [Locks -> CPUs \cup {Nobody}]
      /\ \A l \in Locks : held'[l] = IF l = cursor[c] THEN Nobody ELSE held[l]
  BY <1>1, <1>2 DEF SInv, TypeOK
<1>5. TypeOK'
  BY <1>1, <1>3, <1>4 DEF SInv, TypeOK
<1>6. /\ \A l \in Locks : held'[l] = c <=> spc'[c] = "back" /\ l = cursor'[c]
      /\ \A d \in CPUs \ {c}, l \in Locks : held'[l] = d <=> held[l] = d
  BY <1>1, <1>2, <1>3, <1>4, SchedAssumption DEF Idle
<1>7. noff'[c] = (IF spc'[c] \in {"take", "back"} THEN 1 ELSE 0) /\ (noff'[c] > 0 => ~intr'[c])
  BY SMTT(60), <1>3
<1>8. QED
  BY <1>1, <1>2, <1>3, <1>5, <1>6, <1>7, IdleStep

(* swtch to a process: no CPU is on its stack, and it goes on where sched()*)
(* left it, with the intena it had.                                        *)
LEMMA SchedSwitchStep ==
  ASSUME SInv, NEW c \in CPUs, irq[c] = "none", sched_switch(c)
  PROVE  SInv'
<1>1. /\ on[c] = None /\ spc[c] = "take" /\ held[cursor[c]] = Nobody
      /\ UNCHANGED <<waits, pc, ret, saved, next, items, irq, inext>>
  BY DEF sched_switch, irqvars
<1>2. Idle(c) /\ cursor[c] \in Locks /\ cursor[c] \in Procs /\ cursor[c] # None /\ cursor[c] # Lk
  BY SMTT(60), <1>1, IsIdle, SchedAssumption DEF Idle, Locks, Procs, None, Lk
<1>3. CASE state[cursor[c]] # "RUNNABLE"
  <2>1. Advance(c) /\ pop_off(c) /\ UNCHANGED <<held, state, on>>
    BY <1>3 DEF sched_switch
  <2>2. /\ OnlyCpu(c) /\ spc'[c] \in {"scan", "top"} /\ noff'[c] = 0
        /\ noff' \in [CPUs -> 0..2] /\ intena' = intena /\ intr' \in [CPUs -> BOOLEAN]
        /\ cursor' \in [CPUs -> Procs] /\ spc' \in [CPUs -> {"top", "scan", "take", "back"}]
    BY <1>1, <1>2, <2>1, Advanced
  <2>3. TypeOK'
    BY <1>1, <2>1, <2>2 DEF SInv, TypeOK
  <2>4. \A l \in Locks : held'[l] = c <=> spc'[c] = "back" /\ l = cursor'[c]
    BY <1>1, <1>2, <2>1, <2>2 DEF Idle
  <2>5. noff'[c] = (IF spc'[c] \in {"take", "back"} THEN 1 ELSE 0) /\ (noff'[c] > 0 => ~intr'[c])
    BY SMTT(60), <2>2
  <2>6. QED
    BY <1>1, <1>2, <2>1, <2>2, <2>3, <2>4, <2>5, IdleStep
<1>4. ASSUME NEW p \in Procs, p = cursor[c], state[p] = "RUNNABLE"
      PROVE  SInv'
  <2>1. /\ held' = [held EXCEPT ![p] = c] /\ state' = [state EXCEPT ![p] = "RUNNING"]
        /\ on' = [on EXCEPT ![c] = p] /\ spc' = [spc EXCEPT ![c] = "back"]
        /\ intena' = [intena EXCEPT ![c] = IF pc[p] = "forkret" THEN @ ELSE saved[p]]
        /\ UNCHANGED <<noff, intr, cursor>>
    BY <1>4 DEF sched_switch
  <2>2. \A d \in CPUs : on[d] # p
    <3> SUFFICES ASSUME NEW d \in CPUs, on[d] = p PROVE FALSE
      OBVIOUS
    <3>1. pc[p] = "y_sched"
      BY <1>4 DEF SInv, ThreadInv, Running
    <3>2. Holds(d, p)
      BY <1>2, <1>4, <3>1 DEF Holds, OwnPcs
    <3>3. held[p] = d
      BY SMTT(60), <1>2, <1>4, <3>2 DEF SInv, HeldInv
    <3>4. QED
      BY <1>1, <1>4, <3>3, SchedAssumption
  <2>3. Off(p)
    BY <2>2 DEF SInv, ThreadInv
  <2>4. /\ \A l \in Locks : held'[l] = IF l = p THEN c ELSE held[l]
        /\ state'[p] = "RUNNING" /\ \A q \in Procs \ {p} : state'[q] = state[q]
        /\ on'[c] = p /\ spc'[c] = "back" /\ intena'[c] = IF pc[p] = "forkret" THEN intena[c] ELSE saved[p]
        /\ \A d \in CPUs \ {c} : on'[d] = on[d] /\ spc'[d] = spc[d] /\ intena'[d] = intena[d]
    BY <1>2, <1>4, <2>1 DEF SInv, TypeOK
  <2>5. PcTypes'
    BY <1>1 DEF SInv, PcTypes
  <2>6. TypeOK'
    <3>1. (IF pc[p] = "forkret" THEN intena[c] ELSE saved[p]) \in BOOLEAN
      BY DEF SInv, TypeOK, PcTypes
    <3>2. intena' \in [CPUs -> BOOLEAN]
      BY <2>1, <3>1 DEF SInv, TypeOK
    <3>3. QED
      BY <1>1, <1>2, <1>4, <2>1, <3>2 DEF SInv, TypeOK
  <2>7. OnlyCpu(c) /\ OnlyThread(p)
    BY <1>1, <2>1, <2>4 DEF OnlyCpu, OnlyThread
  <2>8. OnlyLocks(c)
    <3>1. pc'[p] \in OwnPcs /\ pc'[p] \notin LkPcs
      BY <1>1, <2>3 DEF Off, OwnPcs, LkPcs
    <3>2. \A l \in Locks : held'[l] = c <=> l = p
      BY <1>1, <1>2, <2>4 DEF Idle
    <3>3. \A l \in Locks : Holds(c, l)' <=> l = p
      BY <1>1, <1>2, <1>4, <2>4, <3>1 DEF Holds
    <3>4. \A d \in CPUs \ {c}, l \in Locks : held'[l] = d <=> held[l] = d
      BY SMTT(60), <1>1, <1>4, <2>4, SchedAssumption
    <3>5. QED
      BY <3>2, <3>3, <3>4 DEF OnlyLocks
  <2>9. Cpu(c)'
    <3>1. noff'[c] = 1 /\ ~intr'[c]
      BY SMTT(60), <1>1, <1>2, <2>1 DEF Idle
    <3>2. pc'[p] \notin FreePcs /\ pc'[p] \notin DeepPcs
      BY <1>1, <2>3 DEF Off, FreePcs, DeepPcs
    <3>3. QED
      BY SMTT(60), <1>1, <1>2, <1>4, <2>1, <2>4, <3>1, <3>2 DEF Cpu, BaseDepth, IrqDepth
  <2>10. After(p, c)
    <3>1. Running(p, c)'
      BY <1>1, <2>3, <2>4 DEF Off, Running, CallPcs, YieldPcs
    <3>2. waits[p] <=> pc[p] \in {"s_sched", "s_back"}
      BY DEF SInv, ThreadInv
    <3>3. QED
      BY <1>1, <2>3, <2>4, <3>1, <3>2 DEF After, Off
  <2>11. Tested
    BY <1>1 DEF Tested, SInv, ThreadInv
  <2>12. WakeInv'
    BY <1>1, <2>4 DEF WakeInv, Waker, SInv
  <2>13. /\ \A d \in CPUs \ {c} : on[d] # None => on[d] # p
         /\ on[c] \in {p, None} /\ on'[c] \in {p, None}
    BY <1>1, <2>2, <2>4
  <2>14. QED
    BY <2>5, <2>6, <2>7, <2>8, <2>9, <2>10, <2>11, <2>12, <2>13, CpuStep
<1>5. QED
  BY <1>2, <1>3, <1>4

-----------------------------------------------------------------------------
(* Interrupt handlers.                                                     *)
InHandler(c) ==
  /\ irq[c] # "none" /\ Open(c) /\ ~intr[c] /\ noff[c] = IrqDepth(c)
  /\ irq[c] \in {"spin", "wake", "w_spin"} => ~intena[c]
  /\ irq[c] = "w_spin" => inext[c] <= NPROC
  /\ \A l \in Locks : held[l] = c <=> irq[c] \in {"wake", "w_spin"} /\ l = Lk

(* What the invariant says of a CPU in an interrupt handler.               *)
LEMMA IsInHandler ==
  ASSUME SInv, NEW c \in CPUs, irq[c] # "none"
  PROVE  InHandler(c)
<1>1. Cpu(c) /\ Open(c)
  BY DEF SInv, CpuInv, Cpu
<1>2. BaseDepth(c) = 0 /\ IrqDepth(c) \in 0..2
  BY SMTT(60), <1>1 DEF Open, BaseDepth, IrqDepth, FreePcs
<1>3. noff[c] = IrqDepth(c)
  BY SMTT(60), <1>1, <1>2 DEF Cpu
<1>4. \A l \in Locks : held[l] = c <=> irq[c] \in {"wake", "w_spin"} /\ l = Lk
  BY SMTT(60), <1>1 DEF SInv, HeldInv, Holds, Open, OwnPcs, LkPcs
<1>5. QED
  BY <1>1, <1>3, <1>4 DEF InHandler, Cpu

(* A step of a handler keeps the invariant if it keeps what concerns its   *)
(* CPU and makes sleepers RUNNABLE only under their locks.                 *)
LEMMA HandlerStep ==
  ASSUME SInv, NEW c \in CPUs, Open(c), OnlyCpu(c), TypeOK', UNCHANGED idle,
         \A q \in Procs : \/ state'[q] = state[q]
                          \/ held[q] = Nobody /\ state[q] = "SLEEPING" /\ state'[q] = "RUNNABLE",
         \A d \in CPUs \ {c}, l \in Locks : held'[l] = d <=> held[l] = d,
         InHandler(c)' \/ (irq'[c] = "none" /\ intr'[c] /\ noff'[c] = 0 /\ \A l \in Locks : held'[l] # c),
         Tested, WakeInv'
  PROVE  SInv'
<1>1. UNCHANGED <<on, spc, cursor, waits, pc, ret, saved, next>>
  BY DEF idle
<1>2. PcTypes'
  BY <1>1 DEF SInv, PcTypes
<1>3. Open(c)'
  BY <1>1 DEF Open
<1>4. Cpu(c)'
  <2>1. BaseDepth(c)' = 0
    BY <1>3 DEF Open, BaseDepth, FreePcs
  <2>2. noff'[c] = IrqDepth(c)' /\ IrqDepth(c)' \in 0..2
    BY SMTT(60) DEF InHandler, IrqDepth
  <2>3. noff'[c] = BaseDepth(c)' + IrqDepth(c)'
    BY SMTT(60), <2>1, <2>2
  <2>4. on'[c] # None => spc'[c] = "back" /\ cursor'[c] = on'[c]
    BY <1>1 DEF SInv, CpuInv, Cpu
  <2>5. QED
    BY SMTT(60), <1>3, <2>3, <2>4 DEF Cpu, InHandler
<1>5. OnlyLocks(c)
  BY <1>3 DEF OnlyLocks, Holds, InHandler, Open, OwnPcs, LkPcs
<1>6. ASSUME NEW p \in Procs \cup {None}, p = on[c] PROVE SInv'
  <2>1. OnlyThread(p)
    BY <1>1 DEF OnlyThread
  <2>2. \A d \in CPUs \ {c} : on[d] # None => on[d] # p
    BY <1>6 DEF SInv, StackExclusive
  <2>3. p # None => After(p, c)
    <3> SUFFICES ASSUME p # None PROVE After(p, c)
      OBVIOUS
    <3>1. Running(p, c) /\ pc[p] \in {"run", "again", "userret"}
      BY <1>6 DEF Open, SInv, ThreadInv
    <3>2. state'[p] = "RUNNING" /\ state[p] = "RUNNING"
      BY <3>1 DEF Running
    <3>3. Running(p, c)'
      BY <1>1, <3>1, <3>2 DEF Running, InHandler, CallPcs, YieldPcs
    <3>4. ~waits[p]
      BY <3>1 DEF SInv, ThreadInv
    <3>5. QED
      BY <1>1, <1>6, <3>1, <3>3, <3>4 DEF After
  <2>4. on[c] \in {p, None} /\ on'[c] \in {p, None}
    BY <1>1, <1>6
  <2>5. QED
    BY <1>2, <1>4, <1>5, <2>1, <2>2, <2>3, <2>4, CpuStep
<1>7. on[c] \in Procs \cup {None}
  BY DEF SInv, TypeOK
<1>8. QED
  BY <1>6, <1>7

(* A device interrupt is taken where interrupts are on, so without a lock. *)
LEMMA IntrEnterStep ==
  ASSUME SInv, NEW c \in CPUs, intr_enter(c)
  PROVE  SInv'
<1>1. /\ irq[c] = "none" /\ intr[c] /\ intr' = [intr EXCEPT ![c] = FALSE]
      /\ intena' = [intena EXCEPT ![c] = IF noff[c] = 0 THEN FALSE ELSE @]
      /\ noff' = [noff EXCEPT ![c] = @ + 1] /\ irq' = [irq EXCEPT ![c] = "spin"]
      /\ UNCHANGED <<held, state, inext, items, idle>>
      /\ UNCHANGED <<on, spc, cursor, waits, pc, ret, saved, next>>
  BY DEF intr_enter, idle
<1>2. Cpu(c) /\ noff[c] \in 0..2
  BY DEF SInv, CpuInv, TypeOK
<1>3. noff[c] = 0
  BY SMTT(60), <1>1, <1>2 DEF Cpu
<1>4. BaseDepth(c) = 0
  BY SMTT(60), <1>1, <1>2, <1>3 DEF Cpu, IrqDepth, BaseDepth
<1>5. Open(c)
  <2>1. CASE on[c] = None
    BY SMTT(60), <1>4, <2>1 DEF BaseDepth, Open, SInv, TypeOK
  <2>2. CASE on[c] # None
    <3>1. on[c] \in Procs /\ pc[on[c]] \in FreePcs
      BY SMTT(60), <1>4, <2>2 DEF BaseDepth, SInv, TypeOK
    <3>2. Running(on[c], c)
      BY <3>1 DEF SInv, ThreadInv
    <3>3. QED
      BY <1>1, <2>2, <3>1, <3>2 DEF Running, FreePcs, Open
  <2>3. QED
    BY <2>1, <2>2
<1>6. /\ noff' = [noff EXCEPT ![c] = 1] /\ intena' = [intena EXCEPT ![c] = FALSE]
  BY SMTT(60), <1>1, <1>3
<1>7. TypeOK' /\ OnlyCpu(c) /\ noff'[c] = 1 /\ ~intena'[c] /\ ~intr'[c] /\ irq'[c] = "spin"
  <2>1. TypeOK'
    <3>1. noff' \in [CPUs -> 0..2] /\ intena' \in [CPUs -> BOOLEAN]
      BY SMTT(60), <1>6 DEF SInv, TypeOK
    <3>2. /\ intr' \in [CPUs -> BOOLEAN]
          /\ irq' \in [CPUs -> {"none", "spin", "wake", "w_spin", "ret"}]
      BY <1>1 DEF SInv, TypeOK
    <3>3. QED
      BY <1>1, <3>1, <3>2 DEF SInv, TypeOK
  <2>2. OnlyCpu(c)
    BY SMTT(60), <1>1, <1>6 DEF SInv, TypeOK, OnlyCpu
  <2>3. QED
    BY <1>1, <1>6, <2>1, <2>2 DEF SInv, TypeOK
<1>8. \A l \in Locks : held[l] # c
  BY SMTT(60), <1>1, <1>5 DEF SInv, HeldInv, Holds, Open, OwnPcs, LkPcs
<1>9. InHandler(c)'
  BY <1>1, <1>5, <1>7, <1>8 DEF InHandler, IrqDepth, Open
<1>10. Tested
  BY <1>1 DEF Tested, SInv, ThreadInv
<1>11. WakeInv'
  <2>1. \A q \in Procs : Waker(q) => Waker(q)'
    BY <1>1, <1>7 DEF Waker, OnlyCpu
  <2>2. QED
    BY <1>1, <2>1 DEF WakeInv, SInv
<1>12. QED
  BY <1>1, <1>5, <1>7, <1>9, <1>10, <1>11, HandlerStep

(* The handler takes a lock; its CPU held none.                            *)
LEMMA IntrLockStep ==
  ASSUME SInv, NEW c \in CPUs, intr_lock(c)
  PROVE  SInv'
<1>1. /\ irq[c] = "spin" /\ held[Lk] = Nobody /\ held' = [held EXCEPT ![Lk] = c]
      /\ items' = Produced /\ inext' = [inext EXCEPT ![c] = 1] /\ irq' = [irq EXCEPT ![c] = "wake"]
      /\ UNCHANGED <<noff, intena, intr, state, idle>>
      /\ UNCHANGED <<on, spc, cursor, waits, pc, ret, saved, next>>
  BY DEF intr_lock, Take, cpuvars, idle
<1>2. InHandler(c) /\ noff[c] = 1 /\ Lk \in Locks
  BY <1>1, IsInHandler DEF InHandler, IrqDepth, Locks
<1>3. items' \in 0..MaxItems
  BY SMTT(60), <1>1, SchedAssumption DEF Produced, SInv, TypeOK
<1>4. TypeOK' /\ OnlyCpu(c) /\ irq'[c] = "wake" /\ inext'[c] = 1
  <2>1. inext' \in [CPUs -> 1..(NPROC + 1)] /\ held' \in [Locks -> CPUs \cup {Nobody}]
    <3>1. 1 \in 1..(NPROC + 1)
      BY SMTT(60), SchedAssumption
    <3>2. inext' \in [CPUs -> 1..(NPROC + 1)]
      BY <1>1, <3>1 DEF SInv, TypeOK
    <3>3. held' \in [Locks -> CPUs \cup {Nobody}]
      BY <1>1 DEF SInv, TypeOK
    <3>4. QED
      BY <3>2, <3>3
  <2>2. TypeOK'
    BY <1>1, <1>3, <2>1 DEF SInv, TypeOK
  <2>3. OnlyCpu(c)
    BY <1>1 DEF SInv, TypeOK, OnlyCpu
  <2>4. QED
    BY SMTT(60), <1>1, <2>2, <2>3 DEF SInv, TypeOK
<1>5. \A l \in Locks : held'[l] = IF l = Lk THEN c ELSE held[l]
  BY <1>1, <1>2 DEF SInv, TypeOK
<1>6. \A d \in CPUs \ {c}, l \in Locks : held'[l] = d <=> held[l] = d
  BY <1>1, <1>5, SchedAssumption
<1>7. InHandler(c)'
  BY <1>1, <1>2, <1>4, <1>5 DEF InHandler, IrqDepth, Open
<1>8. Tested
  BY <1>1, LkFree DEF Tested, LkPcs
<1>9. WakeInv'
  BY SMTT(60), <1>4 DEF WakeInv, Waker, Procs
<1>10. QED
  BY <1>1, <1>2, <1>4, <1>6, <1>7, <1>8, <1>9, HandlerStep DEF InHandler

(* The handler's wakeup looks at one process under its p->lock.            *)
LEMMA IntrWakeStep ==
  ASSUME SInv, NEW c \in CPUs, intr_wake(c)
  PROVE  SInv'
<1>1. CASE irq[c] = "wake"
  <2>1. /\ inext[c] <= NPROC /\ push_off(c) /\ irq' = [irq EXCEPT ![c] = "w_spin"]
        /\ UNCHANGED <<held, state, inext, items, idle>>
        /\ UNCHANGED <<on, spc, cursor, waits, pc, ret, saved, next>>
    BY <1>1 DEF intr_wake, idle
  <2>2. InHandler(c) /\ noff[c] = 1 /\ ~intena[c]
    BY <1>1, IsInHandler DEF InHandler, IrqDepth
  <2>3. noff' = [noff EXCEPT ![c] = 2] /\ intena' = intena /\ intr' = [intr EXCEPT ![c] = FALSE]
    BY SMTT(60), <2>1, <2>2 DEF push_off, SInv, TypeOK
  <2>4. TypeOK' /\ OnlyCpu(c) /\ irq'[c] = "w_spin" /\ noff'[c] = 2 /\ ~intr'[c]
    BY SMTT(60), <2>1, <2>3 DEF SInv, TypeOK, OnlyCpu
  <2>5. InHandler(c)'
    BY <1>1, <2>1, <2>2, <2>3, <2>4 DEF InHandler, IrqDepth, Open
  <2>6. Tested
    BY <2>1 DEF Tested, SInv, ThreadInv
  <2>7. WakeInv'
    <3>1. \A q \in Procs : Waker(q) => Waker(q)'
      BY <1>1, <2>1, <2>4 DEF Waker, OnlyCpu
    <3>2. QED
      BY <2>1, <3>1 DEF WakeInv, SInv
  <2>8. QED
    BY <2>1, <2>2, <2>4, <2>5, <2>6, <2>7, HandlerStep DEF InHandler
<1>2. CASE irq[c] = "w_spin"
  <2>1. /\ held[inext[c]] = Nobody /\ state' = wakeup1(inext[c]) /\ pop_off(c)
        /\ inext' = [inext EXCEPT ![c] = @ + 1] /\ irq' = [irq EXCEPT ![c] = "wake"]
        /\ UNCHANGED <<held, items, idle>>
        /\ UNCHANGED <<on, spc, cursor, waits, pc, ret, saved, next>>
    BY <1>2 DEF intr_wake, idle
  <2>2. InHandler(c) /\ noff[c] = 2 /\ ~intena[c] /\ intr[c] = FALSE
    BY SMTT(60), <1>2, IsInHandler DEF InHandler, IrqDepth, SInv, TypeOK
  <2>3. noff' = [noff EXCEPT ![c] = 1] /\ intena' = intena /\ intr' = intr
    BY SMTT(60), <2>1, <2>2 DEF pop_off, SInv, TypeOK
  <2>4. inext[c] \in Procs /\ inext[c] + 1 \in 1..(NPROC + 1)
    BY SMTT(60), <1>2, <2>2, SchedAssumption DEF InHandler, SInv, TypeOK, Procs
  <2>5. /\ state' \in [Procs -> {"RUNNABLE", "RUNNING", "SLEEPING"}]
        /\ state'[inext[c]] # "SLEEPING" /\ pc[inext[c]] # "s_chan"
        /\ \A q \in Procs : \/ state'[q] = state[q]
                            \/ q = inext[c] /\ state[q] = "SLEEPING" /\ state'[q] = "RUNNABLE"
    BY <2>1, <2>4, WokenUp
  <2>6. TypeOK' /\ OnlyCpu(c) /\ irq'[c] = "wake" /\ noff'[c] = 1 /\ inext'[c] = inext[c] + 1
    BY SMTT(60), <2>1, <2>3, <2>4, <2>5 DEF SInv, TypeOK, OnlyCpu
  <2>7. InHandler(c)'
    BY <1>2, <2>1, <2>2, <2>3, <2>6 DEF InHandler, IrqDepth, Open
  <2>8. Tested
    BY <2>1 DEF Tested, SInv, ThreadInv
  <2>9. WakeInv'
    <3> SUFFICES ASSUME NEW q \in Procs, pc'[q] = "s_chan" \/ state'[q] = "SLEEPING", items' > 0
                 PROVE  Waker(q)'
      BY DEF WakeInv
    <3>1. q # inext[c] /\ (pc[q] = "s_chan" \/ state[q] = "SLEEPING")
      BY <2>1, <2>5
    <3>2. Waker(q)
      BY <2>1, <3>1 DEF SInv, WakeInv
    <3>3. inext[c] <= q => inext'[c] <= q
      BY SMTT(60), <2>4, <2>6, <3>1 DEF Procs
    <3>4. QED
      BY <2>1, <2>6, <3>2, <3>3 DEF Waker, OnlyCpu
  <2>10. /\ \A q \in Procs : \/ state'[q] = state[q]
                             \/ held[q] = Nobody /\ state[q] = "SLEEPING" /\ state'[q] = "RUNNABLE"
         /\ \A d \in CPUs \ {c}, l \in Locks : held'[l] = d <=> held[l] = d
    BY <2>1, <2>5
  <2>11. QED
    BY <2>1, <2>2, <2>6, <2>7, <2>8, <2>9, <2>10, HandlerStep DEF InHandler
<1>3. QED
  BY <1>1, <1>2 DEF intr_wake

(* The handler releases a lock; interrupts stay off, as intena says.       *)
LEMMA IntrReleaseStep ==
  ASSUME SInv, NEW c \in CPUs, intr_release(c)
  PROVE  SInv'
<1>1. /\ irq[c] = "wake" /\ inext[c] > NPROC /\ held' = [held EXCEPT ![Lk] = Nobody] /\ pop_off(c)
      /\ inext' = [inext EXCEPT ![c] = 1] /\ irq' = [irq EXCEPT ![c] = "ret"]
      /\ UNCHANGED <<state, items, idle>>
      /\ UNCHANGED <<on, spc, cursor, waits, pc, ret, saved, next>>
  BY DEF intr_release, Drop, idle
<1>2. InHandler(c) /\ noff[c] = 1 /\ ~intena[c] /\ intr[c] = FALSE /\ Lk \in Locks
  BY SMTT(60), <1>1, IsInHandler DEF InHandler, IrqDepth, Locks, SInv, TypeOK
<1>3. noff' = [noff EXCEPT ![c] = 0] /\ intena' = intena /\ intr' = intr
  BY SMTT(60), <1>1, <1>2 DEF pop_off, SInv, TypeOK
<1>4. TypeOK' /\ OnlyCpu(c) /\ irq'[c] = "ret" /\ noff'[c] = 0
  <2>1. inext' \in [CPUs -> 1..(NPROC + 1)] /\ held' \in [Locks -> CPUs \cup {Nobody}]
    <3>1. 1 \in 1..(NPROC + 1)
      BY SMTT(60), SchedAssumption
    <3>2. inext' \in [CPUs -> 1..(NPROC + 1)]
      BY <1>1, <3>1 DEF SInv, TypeOK
    <3>3. held' \in [Locks -> CPUs \cup {Nobody}]
      BY <1>1 DEF SInv, TypeOK
    <3>4. QED
      BY <3>2, <3>3
  <2>2. TypeOK'
    BY SMTT(60), <1>1, <1>3, <2>1 DEF SInv, TypeOK
  <2>3. OnlyCpu(c)
    BY <1>1, <1>3 DEF SInv, TypeOK, OnlyCpu
  <2>4. QED
    BY SMTT(60), <1>1, <1>3, <2>2, <2>3 DEF SInv, TypeOK
<1>5. \A l \in Locks : held'[l] = IF l = Lk THEN Nobody ELSE held[l]
  BY <1>1, <1>2 DEF SInv, TypeOK
<1>6. held[Lk] = c
  BY <1>1, <1>2 DEF InHandler
<1>7. \A d \in CPUs \ {c}, l \in Locks : held'[l] = d <=> held[l] = d
  BY <1>5, <1>6, SchedAssumption
<1>8. InHandler(c)'
  BY SMTT(60), <1>1, <1>2, <1>3, <1>4, <1>5, SchedAssumption DEF InHandler, IrqDepth, Open
<1>9. Tested
  BY <1>1 DEF Tested, SInv, ThreadInv
<1>10. WakeInv'
  <2>1. \A q \in Procs : ~(inext[c] <= q)
    <3>1. inext[c] \in Int /\ NPROC \in Int
      BY SMTT(60), SchedAssumption DEF SInv, TypeOK
    <3>2. QED
      BY SMTT(60), <1>1, <3>1 DEF Procs
  <2>2. \A q \in Procs : Waker(q) => Waker(q)'
    BY <1>1, <1>4, <2>1 DEF Waker, OnlyCpu
  <2>3. QED
    BY <1>1, <2>2 DEF WakeInv, SInv
<1>11. QED
  BY <1>1, <1>2, <1>4, <1>7, <1>8, <1>9, <1>10, HandlerStep DEF InHandler

(* The return from the handler turns interrupts on again.                  *)
LEMMA IntrReturnStep ==
  ASSUME SInv, NEW c \in CPUs, intr_return(c)
  PROVE  SInv'
<1>1. /\ irq[c] = "ret" /\ intr' = [intr EXCEPT ![c] = TRUE] /\ irq' = [irq EXCEPT ![c] = "none"]
      /\ UNCHANGED <<held, noff, intena, state, inext, items, idle>>
      /\ UNCHANGED <<on, spc, cursor, waits, pc, ret, saved, next>>
  BY DEF intr_return, idle
<1>2. InHandler(c) /\ noff[c] = 0 /\ \A l \in Locks : held[l] # c
  BY <1>1, IsInHandler DEF InHandler, IrqDepth
<1>3. TypeOK' /\ OnlyCpu(c) /\ irq'[c] = "none" /\ intr'[c]
  BY <1>1 DEF SInv, TypeOK, OnlyCpu
<1>4. Tested
  BY <1>1 DEF Tested, SInv, ThreadInv
<1>5. WakeInv'
  <2>1. \A q \in Procs : Waker(q) => Waker(q)'
    BY <1>1, <1>3 DEF Waker, OnlyCpu
  <2>2. QED
    BY <1>1, <2>1 DEF WakeInv, SInv
<1>6. QED
  BY <1>1, <1>2, <1>3, <1>4, <1>5, HandlerStep DEF InHandler

-----------------------------------------------------------------------------
(* After boot every CPU is in its scheduler without a lock.                *)
LEMMA InitSInv == Init => SInv
<1> SUFFICES ASSUME Init PROVE SInv
  OBVIOUS
<1> USE SchedAssumption
<1>1. TypeOK
  <2>1. 1 \in Procs /\ 1 \in 1..(NPROC + 1) /\ 0 \in 0..MaxItems
    BY SMTT(60) DEF Procs
  <2>2. QED
    BY SMTT(60), <2>1 DEF Init, TypeOK
<1>2. PcTypes
  BY DEF Init, PcTypes, Pcs
<1>3. StackExclusive
  BY DEF Init, StackExclusive
<1>4. HeldInv
  BY DEF Init, HeldInv, Holds
<1>5. CpuInv
  BY SMTT(60) DEF Init, CpuInv, Cpu, BaseDepth, IrqDepth
<1>6. ThreadInv
  <2>1. \A p \in Procs : p # None
    BY SMTT(60) DEF Procs, None
  <2>2. QED
    BY <2>1 DEF Init, ThreadInv, Off
<1>7. WakeInv
  BY DEF Init, WakeInv
<1>8. QED
  BY <1>1, <1>2, <1>3, <1>4, <1>5, <1>6, <1>7 DEF SInv

(* Every step of threads, schedulers, timers and handlers keeps the        *)
(* invariant.                                                              *)
LEMMA NextSInv == SInv /\ [Next]_vars => SInv'
<1> SUFFICES ASSUME SInv, [Next]_vars PROVE SInv'
  OBVIOUS
<1>1. ASSUME NEW c \in CPUs, irq[c] = "none", Scheduler(c) PROVE SInv'
  BY <1>1, SchedTopStep, SchedAcquireStep, SchedSwitchStep, SchedReleaseStep DEF Scheduler
<1>2. ASSUME NEW c \in CPUs, irq[c] = "none", NEW p \in Procs, Thread(p, c) PROVE SInv'
  BY <1>2, ConsumeLockStep, ConsumeStep, CallsStep, SleepLockStep, SleepDropStep, SleepSchedStep,
     SleepBackStep, ProduceLockStep, WakeupStep, ProduceDoneStep, YieldStep, SchedStep,
     YieldBackStep, TrapRetStep DEF Thread
<1>3. ASSUME NEW c \in CPUs, irq[c] = "none", NEW p \in Procs,
             Timer(p, c) \/ ConsumeCall(p, c) \/ ProduceCall(p, c)
      PROVE  SInv'
  BY <1>3, TimerStep, CallsStep
<1>4. ASSUME NEW c \in CPUs, intr_enter(c) \/ Handler(c) PROVE SInv'
  BY <1>4, IntrEnterStep, IntrLockStep, IntrWakeStep, IntrReleaseStep, IntrReturnStep DEF Handler
<1>5. CASE UNCHANGED vars
  <2>1. TypeOK' /\ PcTypes' /\ StackExclusive'
    BY <1>5 DEF vars, SInv, TypeOK, PcTypes, StackExclusive
  <2>2. HeldInv'
    BY SMTT(60), <1>5 DEF vars, SInv, HeldInv, Holds
  <2>3. CpuInv'
    BY <1>5 DEF vars, SInv, CpuInv, Cpu, BaseDepth, IrqDepth, Open
  <2>4. ThreadInv'
    BY SMTT(60), <1>5 DEF vars, SInv, ThreadInv, Running, Off
  <2>5. WakeInv'
    BY <1>5 DEF vars, SInv, WakeInv, Waker
  <2>6. QED
    BY <2>1, <2>2, <2>3, <2>4, <2>5 DEF SInv
<1>6. QED
  BY <1>1, <1>2, <1>3, <1>4, <1>5 DEF Next

(* Every lock is held where the code that took it stands, noff is the      *)
(* nesting depth of that code, intena is the interrupt state of the thread *)
(* that runs and saved that of one that does not, and whoever tests the    *)
(* condition and goes to sleep has a waker if the condition has come true. *)
THEOREM SchedInvariant == Spec => []SInv
<1>1. QED
  BY InitSInv, NextSInv, PTL DEF Spec

(* swtch never resumes a kernel stack that another CPU is still using, for *)
(* any number of threads and CPUs: p->lock is held across the switch.      *)
THEOREM SchedStackExclusive == Spec => []StackExclusive
<1>1. SInv => StackExclusive
  BY DEF SInv
<1>2. QED
  BY <1>1, SchedInvariant, PTL

(* sleep and wakeup lose no wakeup, whichever CPUs and interrupt handlers  *)
(* they race on: sleep takes p->lock before it gives up the condition's    *)
(* lock, and wakeup looks at every p->state under p->lock.                 *)
THEOREM SchedNoLostWakeup == Spec => []NoLostWakeup
<1>1. SInv => NoLostWakeup
  BY DEF SInv, WakeInv, Waker, NoLostWakeup
<1>2. QED
  BY <1>1, SchedInvariant, PTL

-----------------------------------------------------------------------------
(* noff counts the locks held and the one waited for.                      *)
HeldBy(c) == {l \in Locks : held[l] = c}

INSTANCE FiniteSetTheorems

(* The sizes of the sets of locks a CPU may hold.                          *)
LEMMA Sizes ==
  /\ Cardinality({}) = 0
  /\ \A a : Cardinality({a}) = 1
  /\ \A a, b : a # b => Cardinality({a, b}) = 2
<1>1. Cardinality({}) = 0
  BY FS_EmptySet
<1>2. \A a : IsFiniteSet({a}) /\ Cardinality({a}) = 1
  BY FS_Singleton
<1>3. ASSUME NEW a, NEW b, a # b PROVE Cardinality({a, b}) = 2
  <2>1. Cardinality({a} \cup {b}) = Cardinality({a}) + 1
    BY <1>2, <1>3, FS_AddElement
  <2>2. {a} \cup {b} = {a, b}
    OBVIOUS
  <2>3. Cardinality({a}) + 1 = 2
    <3>1. Cardinality({a}) = 1
      BY <1>2
    <3>2. QED
      BY SMTT(60), <3>1
  <2>4. QED
    BY <2>1, <2>2, <2>3
<1>4. QED
  BY <1>1, <1>2, <1>3

Counted(c) ==
  /\ \A l \in Spinning(c) : held[l] # c
  /\ noff[c] = Cardinality(HeldBy(c)) + Cardinality(Spinning(c))

(* noff counts the locks an interrupt handler holds.                       *)
LEMMA HandlerCounted ==
  ASSUME SInv, NEW c \in CPUs, irq[c] # "none"
  PROVE  Counted(c)
<1>1. InHandler(c)
  BY IsInHandler
<1>2. irq[c] \in {"spin", "wake", "w_spin", "ret"} /\ inext[c] \in 1..(NPROC + 1) /\ NPROC \in Nat
  BY SchedAssumption DEF SInv, TypeOK
<1>3. CASE irq[c] = "spin"
  <2>1. HeldBy(c) = {}
    BY <1>1, <1>3 DEF InHandler, HeldBy, Locks
  <2>2. Spinning(c) = {Lk}
    BY <1>3 DEF Spinning
  <2>3. noff[c] = 1 /\ held[Lk] # c
    BY <1>1, <1>3 DEF InHandler, IrqDepth, Locks
  <2>4. Cardinality(HeldBy(c)) = 0 /\ Cardinality(Spinning(c)) = 1
    BY <2>1, <2>2, Sizes
  <2>5. QED
    BY SMTT(60), <2>2, <2>3, <2>4 DEF Counted
<1>4. CASE irq[c] = "wake"
  <2>1. HeldBy(c) = {Lk}
    BY <1>1, <1>4 DEF InHandler, HeldBy, Locks
  <2>2. Spinning(c) = {}
    BY <1>4 DEF Spinning
  <2>3. noff[c] = 1
    BY <1>1, <1>4 DEF InHandler, IrqDepth, Locks
  <2>4. Cardinality(HeldBy(c)) = 1 /\ Cardinality(Spinning(c)) = 0
    BY <2>1, <2>2, Sizes
  <2>5. QED
    BY SMTT(60), <2>2, <2>3, <2>4 DEF Counted
<1>5. CASE irq[c] = "w_spin"
  <2>1. inext[c] \in Procs /\ inext[c] # Lk
    BY SMTT(60), <1>1, <1>2, <1>5 DEF InHandler, Procs, Lk
  <2>2. HeldBy(c) = {Lk}
    BY <1>1, <1>5, <2>1 DEF InHandler, HeldBy, Locks
  <2>3. Spinning(c) = {inext[c]}
    BY <1>5 DEF Spinning
  <2>4. noff[c] = 2 /\ held[inext[c]] # c
    BY <1>1, <1>5, <2>1 DEF InHandler, IrqDepth, Locks
  <2>5. Cardinality(HeldBy(c)) = 1 /\ Cardinality(Spinning(c)) = 1
    BY <2>2, <2>3, Sizes
  <2>6. QED
    BY SMTT(60), <2>3, <2>4, <2>5 DEF Counted
<1>6. CASE irq[c] = "ret"
  <2>1. HeldBy(c) = {}
    BY <1>1, <1>6 DEF InHandler, HeldBy, Locks
  <2>2. Spinning(c) = {}
    BY <1>6 DEF Spinning
  <2>3. noff[c] = 0
    BY <1>1, <1>6 DEF InHandler, IrqDepth, Locks
  <2>4. Cardinality(HeldBy(c)) = 0 /\ Cardinality(Spinning(c)) = 0
    BY <2>1, <2>2, Sizes
  <2>5. QED
    BY SMTT(60), <2>2, <2>3, <2>4 DEF Counted
<1>7. QED
  BY <1>2, <1>3, <1>4, <1>5, <1>6

(* noff counts the locks a scheduler holds.                                *)
LEMMA IdleCounted ==
  ASSUME SInv, NEW c \in CPUs, irq[c] = "none", on[c] = None
  PROVE  Counted(c)
<1>1. /\ spc[c] \in {"top", "scan", "take", "back"} /\ cursor[c] \in Locks
      /\ noff[c] = IF spc[c] \in {"take", "back"} THEN 1 ELSE 0
      /\ \A l \in Locks : held[l] = c <=> spc[c] = "back" /\ l = cursor[c]
      /\ Spinning(c) = IF spc[c] = "take" THEN {cursor[c]} ELSE {}
  <2>1. spc[c] \in {"top", "scan", "take", "back"} /\ cursor[c] \in Locks
    BY DEF SInv, TypeOK, Locks
  <2>2. Cpu(c) /\ BaseDepth(c) = (IF spc[c] \in {"take", "back"} THEN 1 ELSE 0) /\ IrqDepth(c) = 0
    BY DEF SInv, CpuInv, BaseDepth, IrqDepth
  <2>3. noff[c] = IF spc[c] \in {"take", "back"} THEN 1 ELSE 0
    BY SMTT(60), <2>2 DEF Cpu
  <2>4. \A l \in Locks : held[l] = c <=> spc[c] = "back" /\ l = cursor[c]
    BY SMTT(60) DEF SInv, HeldInv, Holds
  <2>5. Spinning(c) = IF spc[c] = "take" THEN {cursor[c]} ELSE {}
    BY DEF Spinning
  <2>6. QED
    BY <2>1, <2>3, <2>4, <2>5
<1>2. CASE spc[c] = "take"
  <2>1. HeldBy(c) = {}
    BY <1>1, <1>2 DEF HeldBy
  <2>2. Spinning(c) = {cursor[c]}
    BY <1>1, <1>2 DEF HeldBy
  <2>3. noff[c] = 1 /\ held[cursor[c]] # c
    BY <1>1, <1>2 DEF HeldBy
  <2>4. Cardinality(HeldBy(c)) = 0 /\ Cardinality(Spinning(c)) = 1
    BY <2>1, <2>2, Sizes
  <2>5. QED
    BY SMTT(60), <2>2, <2>3, <2>4 DEF Counted
<1>3. CASE spc[c] = "back"
  <2>1. HeldBy(c) = {cursor[c]}
    BY <1>1, <1>3 DEF HeldBy
  <2>2. Spinning(c) = {}
    BY <1>1, <1>3 DEF HeldBy
  <2>3. noff[c] = 1
    BY <1>1, <1>3 DEF HeldBy
  <2>4. Cardinality(HeldBy(c)) = 1 /\ Cardinality(Spinning(c)) = 0
    BY <2>1, <2>2, Sizes
  <2>5. QED
    BY SMTT(60), <2>2, <2>3, <2>4 DEF Counted
<1>4. CASE spc[c] \in {"top", "scan"}
  <2>1. HeldBy(c) = {}
    BY <1>1, <1>4 DEF HeldBy
  <2>2. Spinning(c) = {}
    BY <1>1, <1>4 DEF HeldBy
  <2>3. noff[c] = 0
    BY <1>1, <1>4 DEF HeldBy
  <2>4. Cardinality(HeldBy(c)) = 0 /\ Cardinality(Spinning(c)) = 0
    BY <2>1, <2>2, Sizes
  <2>5. QED
    BY SMTT(60), <2>2, <2>3, <2>4 DEF Counted
<1>5. QED
  BY <1>1, <1>2, <1>3, <1>4

(* noff counts the locks a running thread holds.                           *)
LEMMA ThreadCounted ==
  ASSUME SInv, NEW c \in CPUs, NEW p \in Procs, irq[c] = "none", on[c] = p
  PROVE  Counted(c)
<1>1. /\ pc[p] \in Pcs /\ p \in Locks /\ Lk \in Locks /\ p # Lk /\ p # None
      /\ pc[p] = "w_spin" => next[p] \in Locks /\ next[p] # Lk
  BY SMTT(60), SchedAssumption DEF SInv, PcTypes, TypeOK, ThreadInv, Locks, Procs, Lk, None
<1>2. \A l \in Locks : held[l] = c <=> (pc[p] \in OwnPcs /\ l = p) \/ (pc[p] \in LkPcs /\ l = Lk)
  BY <1>1 DEF SInv, HeldInv, Holds
<1>3. noff[c] = IF pc[p] \in FreePcs THEN 0 ELSE IF pc[p] \in DeepPcs THEN 2 ELSE 1
  <2>1. Cpu(c) /\ IrqDepth(c) = 0
    BY DEF SInv, CpuInv, IrqDepth
  <2>2. BaseDepth(c) = IF pc[p] \in FreePcs THEN 0 ELSE IF pc[p] \in DeepPcs THEN 2 ELSE 1
    BY <1>1 DEF BaseDepth
  <2>3. QED
    BY SMTT(60), <2>1, <2>2 DEF Cpu
<1>4. Spinning(c) = CASE pc[p] \in {"c_spin", "p_spin"} -> {Lk}
                      [] pc[p] \in {"s_spin", "y_spin"} -> {p}
                      [] pc[p] = "w_spin" -> {next[p]}
                      [] OTHER -> {}
  BY <1>1 DEF Spinning
<1>5. CASE pc[p] \in {"c_spin", "p_spin"}
  <2>1. HeldBy(c) = {}
    BY <1>1, <1>2, <1>3, <1>4, <1>5 DEF HeldBy, OwnPcs, LkPcs, FreePcs, DeepPcs
  <2>2. Spinning(c) = {Lk}
    BY <1>1, <1>2, <1>3, <1>4, <1>5 DEF HeldBy, OwnPcs, LkPcs, FreePcs, DeepPcs
  <2>3. noff[c] = 1 /\ held[Lk] # c
    BY <1>1, <1>2, <1>3, <1>4, <1>5 DEF HeldBy, OwnPcs, LkPcs, FreePcs, DeepPcs
  <2>4. Cardinality(HeldBy(c)) = 0 /\ Cardinality(Spinning(c)) = 1
    BY <2>1, <2>2, Sizes
  <2>5. QED
    BY SMTT(60), <2>2, <2>3, <2>4 DEF Counted
<1>6. CASE pc[p] = "y_spin"
  <2>1. HeldBy(c) = {}
    BY <1>1, <1>2, <1>3, <1>4, <1>6 DEF HeldBy, OwnPcs, LkPcs, FreePcs, DeepPcs
  <2>2. Spinning(c) = {p}
    BY <1>1, <1>2, <1>3, <1>4, <1>6 DEF HeldBy, OwnPcs, LkPcs, FreePcs, DeepPcs
  <2>3. noff[c] = 1 /\ held[p] # c
    BY <1>1, <1>2, <1>3, <1>4, <1>6 DEF HeldBy, OwnPcs, LkPcs, FreePcs, DeepPcs
  <2>4. Cardinality(HeldBy(c)) = 0 /\ Cardinality(Spinning(c)) = 1
    BY <2>1, <2>2, Sizes
  <2>5. QED
    BY SMTT(60), <2>2, <2>3, <2>4 DEF Counted
<1>7. CASE pc[p] = "s_spin"
  <2>1. HeldBy(c) = {Lk}
    BY <1>1, <1>2, <1>3, <1>4, <1>7 DEF HeldBy, OwnPcs, LkPcs, FreePcs, DeepPcs
  <2>2. Spinning(c) = {p}
    BY <1>1, <1>2, <1>3, <1>4, <1>7 DEF HeldBy, OwnPcs, LkPcs, FreePcs, DeepPcs
  <2>3. noff[c] = 2 /\ held[p] # c
    BY <1>1, <1>2, <1>3, <1>4, <1>7 DEF HeldBy, OwnPcs, LkPcs, FreePcs, DeepPcs
  <2>4. Cardinality(HeldBy(c)) = 1 /\ Cardinality(Spinning(c)) = 1
    BY <2>1, <2>2, Sizes
  <2>5. QED
    BY SMTT(60), <2>2, <2>3, <2>4 DEF Counted
<1>8. CASE pc[p] = "w_spin"
  <2>1. HeldBy(c) = {Lk}
    BY <1>1, <1>2, <1>3, <1>4, <1>8 DEF HeldBy, OwnPcs, LkPcs, FreePcs, DeepPcs
  <2>2. Spinning(c) = {next[p]}
    BY <1>1, <1>2, <1>3, <1>4, <1>8 DEF HeldBy, OwnPcs, LkPcs, FreePcs, DeepPcs
  <2>3. noff[c] = 2 /\ held[next[p]] # c
    BY <1>1, <1>2, <1>3, <1>4, <1>8 DEF HeldBy, OwnPcs, LkPcs, FreePcs, DeepPcs
  <2>4. Cardinality(HeldBy(c)) = 1 /\ Cardinality(Spinning(c)) = 1
    BY <2>1, <2>2, Sizes
  <2>5. QED
    BY SMTT(60), <2>2, <2>3, <2>4 DEF Counted
<1>9. CASE pc[p] = "s_drop"
  <2>1. HeldBy(c) = {p, Lk}
    BY <1>1, <1>2, <1>3, <1>4, <1>9 DEF HeldBy, OwnPcs, LkPcs, FreePcs, DeepPcs
  <2>2. Spinning(c) = {}
    BY <1>1, <1>2, <1>3, <1>4, <1>9 DEF HeldBy, OwnPcs, LkPcs, FreePcs, DeepPcs
  <2>3. noff[c] = 2
    BY <1>1, <1>2, <1>3, <1>4, <1>9 DEF HeldBy, OwnPcs, LkPcs, FreePcs, DeepPcs
  <2>4. Cardinality(HeldBy(c)) = 2 /\ Cardinality(Spinning(c)) = 0
    <3>1. Cardinality({p, Lk}) = 2
      BY <1>1, Sizes
    <3>2. QED
      BY <2>1, <2>2, <3>1, Sizes
  <2>5. QED
    BY SMTT(60), <2>2, <2>3, <2>4 DEF Counted
<1>10. CASE pc[p] \in {"c_test", "p_wake"}
  <2>1. HeldBy(c) = {Lk}
    BY <1>1, <1>2, <1>3, <1>4, <1>10 DEF HeldBy, OwnPcs, LkPcs, FreePcs, DeepPcs
  <2>2. Spinning(c) = {}
    BY <1>1, <1>2, <1>3, <1>4, <1>10 DEF HeldBy, OwnPcs, LkPcs, FreePcs, DeepPcs
  <2>3. noff[c] = 1
    BY <1>1, <1>2, <1>3, <1>4, <1>10 DEF HeldBy, OwnPcs, LkPcs, FreePcs, DeepPcs
  <2>4. Cardinality(HeldBy(c)) = 1 /\ Cardinality(Spinning(c)) = 0
    BY <2>1, <2>2, Sizes
  <2>5. QED
    BY SMTT(60), <2>2, <2>3, <2>4 DEF Counted
<1>11. CASE pc[p] \in OwnPcs \ {"s_drop"}
  <2>1. HeldBy(c) = {p}
    BY <1>1, <1>2, <1>3, <1>4, <1>11 DEF HeldBy, OwnPcs, LkPcs, FreePcs, DeepPcs
  <2>2. Spinning(c) = {}
    BY <1>1, <1>2, <1>3, <1>4, <1>11 DEF HeldBy, OwnPcs, LkPcs, FreePcs, DeepPcs
  <2>3. noff[c] = 1
    BY <1>1, <1>2, <1>3, <1>4, <1>11 DEF HeldBy, OwnPcs, LkPcs, FreePcs, DeepPcs
  <2>4. Cardinality(HeldBy(c)) = 1 /\ Cardinality(Spinning(c)) = 0
    BY <2>1, <2>2, Sizes
  <2>5. QED
    BY SMTT(60), <2>2, <2>3, <2>4 DEF Counted
<1>12. CASE pc[p] \in FreePcs
  <2>1. HeldBy(c) = {}
    BY <1>1, <1>2, <1>3, <1>4, <1>12 DEF HeldBy, OwnPcs, LkPcs, FreePcs, DeepPcs
  <2>2. Spinning(c) = {}
    BY <1>1, <1>2, <1>3, <1>4, <1>12 DEF HeldBy, OwnPcs, LkPcs, FreePcs, DeepPcs
  <2>3. noff[c] = 0
    BY <1>1, <1>2, <1>3, <1>4, <1>12 DEF HeldBy, OwnPcs, LkPcs, FreePcs, DeepPcs
  <2>4. Cardinality(HeldBy(c)) = 0 /\ Cardinality(Spinning(c)) = 0
    BY <2>1, <2>2, Sizes
  <2>5. QED
    BY SMTT(60), <2>2, <2>3, <2>4 DEF Counted
<1>13. QED
  BY <1>1, <1>5, <1>6, <1>7, <1>8, <1>9, <1>10, <1>11, <1>12
     DEF Pcs, CallPcs, YieldPcs, FreePcs, OwnPcs

(* The conditions that sched, acquire, release and pop_off test hold       *)
(* wherever they are called.                                               *)
LEMMA SInvNoPanic == SInv => NoSchedPanic
<1> SUFFICES ASSUME SInv, NEW c \in CPUs
             PROVE  /\ Counted(c)
                    /\ noff[c] > 0 => ~intr[c]
                    /\ on[c] # None /\ pc[on[c]] \in {"s_sched", "y_sched"} => held[on[c]] = c /\ noff[c] = 1
                    /\ on[c] = None /\ spc[c] = "back" => held[cursor[c]] = c /\ noff[c] = 1
                    /\ on[c] # None /\ irq[c] = "none" /\ noff[c] = 0 /\ pc[on[c]] # "userret" =>
                         (intr[c] <=> pc[on[c]] \notin {"trap", "trapret"})
  BY DEF NoSchedPanic, Counted, HeldBy
<1>1. /\ Cpu(c) /\ on[c] \in Procs \cup {None} /\ cursor[c] \in Procs
      /\ irq[c] # "none" => Open(c)
  BY DEF SInv, CpuInv, Cpu, TypeOK
<1>2. Counted(c)
  BY <1>1, HandlerCounted, IdleCounted, ThreadCounted
<1>3. noff[c] > 0 => ~intr[c]
  BY <1>1 DEF Cpu
<1>4. ASSUME on[c] # None, pc[on[c]] \in {"s_sched", "y_sched"} PROVE held[on[c]] = c /\ noff[c] = 1
  <2>1. irq[c] = "none" /\ on[c] \in Locks
    BY <1>1, <1>4 DEF Cpu, Open, Locks
  <2>2. BaseDepth(c) = 1 /\ IrqDepth(c) = 0
    BY <1>4, <2>1 DEF BaseDepth, IrqDepth, FreePcs, DeepPcs
  <2>3. noff[c] = 1
    BY SMTT(60), <1>1, <2>2 DEF Cpu
  <2>4. held[on[c]] = c
    BY <1>4, <2>1 DEF SInv, HeldInv, Holds, OwnPcs
  <2>5. QED
    BY <2>3, <2>4
<1>5. ASSUME on[c] = None, spc[c] = "back" PROVE held[cursor[c]] = c /\ noff[c] = 1
  <2>1. irq[c] = "none" /\ cursor[c] \in Locks
    BY <1>1, <1>5 DEF Cpu, Open, Locks
  <2>2. BaseDepth(c) = 1 /\ IrqDepth(c) = 0
    BY <1>5, <2>1 DEF BaseDepth, IrqDepth
  <2>3. noff[c] = 1
    BY SMTT(60), <1>1, <2>2 DEF Cpu
  <2>4. held[cursor[c]] = c
    BY <1>5, <2>1 DEF SInv, HeldInv, Holds
  <2>5. QED
    BY <2>3, <2>4
<1>6. ASSUME on[c] # None, irq[c] = "none", noff[c] = 0, pc[on[c]] # "userret"
      PROVE  intr[c] <=> pc[on[c]] \notin {"trap", "trapret"}
  <2>1. on[c] \in Procs /\ Running(on[c], c)
    BY <1>1, <1>6 DEF SInv, ThreadInv
  <2>2. IrqDepth(c) = 0 /\ BaseDepth(c) \in 0..2 /\ (BaseDepth(c) = 0 => pc[on[c]] \in FreePcs)
    BY SMTT(60), <1>6 DEF BaseDepth, IrqDepth
  <2>3. pc[on[c]] \in FreePcs
    BY SMTT(60), <1>1, <1>6, <2>2 DEF Cpu
  <2>4. QED
    BY <1>6, <2>1, <2>3 DEF FreePcs, Running
<1>7. QED
  BY <1>2, <1>3, <1>4, <1>5, <1>6

(* sched, acquire, release and pop_off never panic, and interrupts are on  *)
(* again whenever a thread runs without a lock outside a trap: sched saves *)
(* and restores intena across the switch to another CPU.                   *)
THEOREM SchedNoPanic == Spec => []NoSchedPanic
<1>1. QED
  BY SInvNoPanic, SchedInvariant, PTL
=============================================================================
