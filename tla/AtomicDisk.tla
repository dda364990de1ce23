----------------------------- MODULE AtomicDisk -----------------------------
(* What the logging layer (kernel/log.c) promises its callers.             *)
(*                                                                         *)
(* Operations bracketed by begin_op()/end_op() change blocks in memory.    *)
(* The memory image becomes stable in one indivisible step, and only while *)
(* no operation is in progress, so the stable image always holds whole     *)
(* operations.  A crash throws the memory image away and comes back with   *)
(* the stable one.                                                         *)
CONSTANTS Threads, Blocks, Values

VARIABLES mem,      \* the block contents that bread() returns
          stable,   \* the block contents that a crash now would leave
          active    \* the threads between begin_op() and end_op()

vars == <<mem, stable, active>>

Init == /\ stable \in [Blocks -> Values]
        /\ mem = stable
        /\ active = {}

Begin(t) == /\ t \notin active
            /\ active' = active \cup {t}
            /\ UNCHANGED <<mem, stable>>

Write(t, b, v) == /\ t \in active
                  /\ mem' = [mem EXCEPT ![b] = v]
                  /\ UNCHANGED <<stable, active>>

End(t) == /\ t \in active
          /\ active' = active \ {t}
          /\ UNCHANGED <<mem, stable>>

Commit == /\ active = {}
          /\ stable' = mem
          /\ UNCHANGED <<mem, active>>

Crash == /\ mem' = stable
         /\ active' = {}
         /\ UNCHANGED stable

Next == \/ \E t \in Threads : Begin(t) \/ End(t)
        \/ \E t \in Threads, b \in Blocks, v \in Values : Write(t, b, v)
        \/ Commit
        \/ Crash

Spec == Init /\ [][Next]_vars
=============================================================================
