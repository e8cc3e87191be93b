------------------------------ MODULE MCSpinlock ------------------------------
(***************************************************************************)
(* The instance of Spinlock for TLC: two harts (NCPU), of which hart 0     *)
(* runs the processes; the disk lock taken before a process lock           *)
(* (proc_wakeup() inside virtio_disk_intr()); and the two kinds of lock    *)
(* that a process keeps while it waits for the disk.                       *)
(***************************************************************************)
EXTENDS Spinlock

CONSTANTS vdisk_lock, proc_lk, inode_slk, buf_slk

TwoHarts == {0, 1}
KernelOrder == {<<vdisk_lock, proc_lk>>}
=============================================================================
