CONSTANTS
  p1 = p1
  p2 = p2
  Procs = {p1, p2}
  Zero = p1
  Names <- MCNames
  NFD = 2
  NFILE = 2
  NINODE = 2
  NINUM = 4
  DirMax = 3
  MaxLeak = 1
SPECIFICATION Spec
CHECK_DEADLOCK FALSE
INVARIANTS
  TypeOK
  FileRefsExact
  InodeRefsExact
  OpenFileKeepsInode
  InodeLockExact
  LinksExact
