SPECIFICATION Spec
CONSTANTS
  vdisk_lock = vdisk_lock
  proc_lk = proc_lk
  inode_slk = inode_slk
  buf_slk = buf_slk
  Harts <- TwoHarts
  Locks = {vdisk_lock, proc_lk, inode_slk, buf_slk}
  LockOrder <- KernelOrder
  Kept = {inode_slk, buf_slk}
  ProcHart = 0
INVARIANTS
  TypeOK
  MutualExclusion
  InterruptsOffWhileHolding
  NoffCountsLocks
  InterruptsRestored
  NoWaitCycle
PROPERTY
  PanicOnlyOnKeptOrFirstUse
CHECK_DEADLOCK FALSE
