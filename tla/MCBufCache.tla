------------------------------ MODULE MCBufCache ------------------------------
(***************************************************************************)
(* BufCache with a uint32 of three bits and a disk of two blocks, numbered *)
(* 0 and 1.  Number 4 is disk block 0 again, 2 is off the disk and 7 is    *)
(* BLOCK_NUM_UNUSED.  There are more numbers than buffers, so that the     *)
(* cache runs out of them and reuses them.                                 *)
(***************************************************************************)
EXTENDS BufCache

CONSTANTS b1, b2, b3, p1, p2, v1, v2

MCBufs == {b1, b2, b3}
MCProcs == {p1, p2}
MCValues == {v1, v2}
MCBlocks == {0, 1, 2, 4}

ASSUME MoreBlocks == Cardinality(MCBlocks) > Cardinality(MCBufs)
ASSUME Aliases == DiskBlock(0) = DiskBlock(4) /\ DiskBlock(2) \notin OnDisk
=============================================================================
