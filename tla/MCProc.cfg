SPECIFICATION Spec
CONSTANTS
  NPROC = 4
  NCPU = 4
  TIME_SLICE = 2
  MaxPid = 4
  MaxSleep = 1
INVARIANTS
  TypeOK
  LiveParents
  NoLostExit
  BoundedBypass
CHECK_DEADLOCK FALSE
