\* Fs: a directory and a file, or two files: one inode more than the root and one directory.
\* Mmap: a parent and a child, a file opened O_RDWR and one opened O_RDONLY.
SPECIFICATION Spec
CONSTANTS
  maker = maker
  remover = remover
  Procs = {maker, remover}
  Openers = {maker}
  sub = sub
  leaf = leaf
  Names = {sub, leaf}
  DotDot = dotdot
  Calls <- SafeCalls
  MaxLinks = 2
  NINODES = 3
  NBLOCKS = 3
  Users = {p1, p2}
  Mappers = {p1}
  First = p1
  Files = {f1, f2}
  Writable = {f1}
  Old = Old
  New = New
  FilePages = 1
  MAXFILE = 2
  MAXMMAPITEM = 2
  MaxPages = 3
  Nil = Nil
  Pieces = TRUE
  AnyOrder = FALSE
INVARIANTS RefExact CacheCoherent DiskConsistent NoStuck RefsExact
PROPERTY PrivateStaysPrivate
CHECK_DEADLOCK FALSE
