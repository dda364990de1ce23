\* Bio: two buffers for three blocks: every miss recycles, and bget may run out.
\* VirtioDisk: two requests fit in the table, the third thread waits; the ring indices wrap.
CONSTANTS
  Threads = {t1, t2}
  Nested = {t1}
  NBLOCK = 3
  Values = {v0, v1}
  NBUF = 2
  MaxPins = 1
  Requesters = {r1, r2, r3}
  Contents = {c0, c1}
  NUM = 8
  IdxMod = 16
SPECIFICATION Spec
INVARIANTS CacheExact OwnershipExact NoSleeperForgotten
PROPERTIES Coherent TransferRight
SYMMETRY DriverSymmetry
