\* Three threads, a log that is often full: admission, wakeups, progress.
CONSTANTS
  Threads = {t1, t2, t3}
  Blocks = {b1, b2, b3, b4}
  Values = {v1}
  NoBuf = NoBuf
  MAXOPBLOCKS = 3
  LOGSIZE = 7
  Nlog = 7
  OpBlocks = 1
SPECIFICATION FairSpec
INVARIANTS NoPanic CommitExcludesOps
PROPERTY SleeperWakes
