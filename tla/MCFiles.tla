------------------------------- MODULE MCFiles -------------------------------
(***************************************************************************)
(* Files with every table smaller than its demand: descriptors, file       *)
(* entries, inode slots (the root and one more), inodes and directory      *)
(* entries all run out.                                                    *)
(***************************************************************************)
EXTENDS Files

CONSTANTS p1, p2

MCNames == {"d.txt", "b.txt", "x", "y"}
=============================================================================
