CONSTANTS
  Procs <- MCProcs
  b1 = b1
  b2 = b2
  b3 = b3
  p1 = p1
  p2 = p2
  v1 = v1
  v2 = v2
  Bufs <- MCBufs
  Blocks <- MCBlocks
  Values <- MCValues
  Wide = 8
  DiskSize = 2
  None = None
SPECIFICATION Spec
CHECK_DEADLOCK FALSE
INVARIANTS TypeOK OneBufPerBlock RefCountsUsers ExhaustedOnlyWhenFull
PROPERTY StoreSpec
