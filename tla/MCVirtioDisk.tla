----------------------------- MODULE MCVirtioDisk -----------------------------
(***************************************************************************)
(* Instances of VirtioDisk for TLC.  The scan of alloc_desc() orders the   *)
(* descriptors; processes are interchangeable.                             *)
(***************************************************************************)
EXTENDS VirtioDisk, TLC

CONSTANTS p1, p2, p3

ProcSymmetry == Permutations(Procs)
=============================================================================
