\* Two threads on two CPUs.
CONSTANTS
  NPROC = 2
  CPUs = {c1, c2}
  MaxItems = 1
SPECIFICATION FairSpec
INVARIANTS StackExclusive NoSchedPanic NoLostWakeup
PROPERTY RunnableRuns
