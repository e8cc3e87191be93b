SPECIFICATION FairSpec
CONSTANTS
  NPROC = 3
  NCPU = 3
  TIME_SLICE = 1
  MaxPid = 4
  MaxSleep = 1
PROPERTIES
  NoStarvation
  CallsReturn
CHECK_DEADLOCK FALSE
