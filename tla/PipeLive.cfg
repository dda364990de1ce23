\* Two writers; the counters wrap after two rounds of the buffer.
CONSTANTS
  Writers = {w1, w2}
  Readers = {r1}
  Bytes = {a, b}
  PIPESIZE = 2
  UintMod = 4
  MaxN = 2
SPECIFICATION FairSpec
INVARIANT SleepJustified
PROPERTIES ImplementsStream KilledLeaves
CHECK_DEADLOCK FALSE
