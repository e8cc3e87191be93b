CONSTANTS
  NPROC = 3
  PGSIZE = 2
  NKern = 21
  NUser = 6
  KernPages <- MCKernPages
  UserPages <- MCUserPages
  LEN = 16
  MaxCopy = 4
  Tops = {1, 5, 9}
  MaxBrk = 9
  None = 0
SPECIFICATION Spec
INVARIANT EveryProcessHasStack
CHECK_DEADLOCK FALSE
