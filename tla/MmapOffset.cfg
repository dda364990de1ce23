\* Unmapping from the start: which page of the file is where.
CONSTANTS
  Users = {p1, p2}
  Mappers = {p1}
  First = p1
  Files = {f1, f2}
  Writable = {f1}
  Old = Old
  New = New
  FilePages = 1
  MAXFILE = 2
  MAXMMAPITEM = 2
  MaxPages = 3
  Nil = Nil
  Pieces = TRUE
  AnyOrder = FALSE
SPECIFICATION MmapSpec
INVARIANT PageFromRightPlace
CHECK_DEADLOCK FALSE
