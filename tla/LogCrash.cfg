\* Two-block operations by two threads, crashes anywhere.
CONSTANTS
  Threads = {t1, t2}
  Blocks = {b1, b2, b3}
  Values = {v1, v2}
  NoBuf = NoBuf
  MAXOPBLOCKS = 4
  LOGSIZE = 8
  Nlog = 8
  OpBlocks = 2
SPECIFICATION Spec
INVARIANTS DurableAfterCommit
PROPERTY ImplementsAtomicDisk
SYMMETRY LogSymmetry
