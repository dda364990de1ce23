\* Four slots: the slot of an exited parent is reused by a grandchild.
CONSTANT NPROC = 4
SPECIFICATION Spec
INVARIANT NoLockCycle
CHECK_DEADLOCK FALSE
