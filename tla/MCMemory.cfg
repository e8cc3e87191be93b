CONSTANTS
  NPROC = 3
  PGSIZE = 2
  NKern = 21
  NUser = 6
  KernPages <- MCKernPages
  UserPages <- MCUserPages
  Tops = {1, 5, 9}
  MaxBrk = 9
  LEN = 16
  MaxCopy = 4
  None = 0
SPECIFICATION Spec
INVARIANTS TypeOK NoPageShared NoPageLost CopyExact
CHECK_DEADLOCK FALSE
