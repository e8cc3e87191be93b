--------------------------------- MODULE MCProc ---------------------------------
(***************************************************************************)
(* Instances of Proc for TLC.  Slots are numbered as in procs[]; scans and *)
(* proczero tell them apart, so they are not a symmetry set.               *)
(***************************************************************************)
EXTENDS Proc
=============================================================================
