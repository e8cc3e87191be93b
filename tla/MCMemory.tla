------------------------------- MODULE MCMemory -------------------------------
(***************************************************************************)
(* Memory with enough kernel pages for a first process and two or three    *)
(* forks, so that forks fail at each of the places where they can.         *)
(***************************************************************************)
EXTENDS Memory

CONSTANTS NKern, NUser    \* pages of the two regions

MCKernPages == 1 .. NKern
MCUserPages == NKern + 1 .. NKern + NUser
=============================================================================
