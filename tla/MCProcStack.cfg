SPECIFICATION Spec
CONSTANTS
  NPROC = 3
  NCPU = 2
  TIME_SLICE = 2
  MaxPid = 3
  MaxSleep = 1
INVARIANT
  StackMapped
CHECK_DEADLOCK FALSE
