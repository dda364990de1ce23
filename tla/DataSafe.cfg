SPECIFICATION Spec
CONSTANTS
  Procs = {p1, p2}
  First = p1
  PGSIZE = 2
  PX = 2
  NPAGES = 19
  MaxSz = 12
  Deltas <- MCDeltas
  Programs <- MCPrograms
  MaxArgs = 2
  BSIZE = 3
  NDIRECT = 1
  FSSIZE = 8
  nmeta = 1
  UINT = 16
  NINODES = 3
  Bytes = {7, 8}
  Writes <- MCWrites
  MaxOps = 3
  HEADER = 2
  MINCORE = 4
  MaxHeap = 9
  Sizes = {0, 2, 5}
  Gaps = {1}
  MAXARGS = 3
  Alphabet <- MCAlphabet
  MaxLine = 5
INVARIANTS SpaceExact PagesExact CopyExact  BitmapExact HeapExact ParseRight
CHECK_DEADLOCK FALSE
