------------------------------ MODULE BlockStore ------------------------------
(***************************************************************************)
(* What the buffer cache promises its callers: a disk block has a value; a *)
(* process takes the block with some number for itself, works on a private *)
(* copy of the value it had at that moment, may write the copy back any    *)
(* number of times, and drops it.  A number has at most one owner at a     *)
(* time.  A disk block that has two numbers may have two owners, and then  *)
(* each keeps its copy while the other one writes.                         *)
(***************************************************************************)
CONSTANTS Procs, Values,
  Blocks,   \* block numbers
  OnDisk,   \* the blocks of the disk
  Home,     \* the disk block of each number, on the disk or not
  Nobody,   \* not a process
  NoValue   \* not a value

VARIABLES
  content,  \* the value of each block on the disk
  owner,    \* for each number, the process that has taken it, or Nobody
  copy      \* the owner's copy

Init ==
  /\ content \in [OnDisk -> Values]
  /\ owner = [k \in Blocks |-> Nobody]
  /\ copy = [k \in Blocks |-> NoValue]

\* p takes the block with number k and sees what the disk holds.
Take(p, k) ==
  /\ Home[k] \in OnDisk
  /\ owner[k] = Nobody
  /\ owner' = [owner EXCEPT ![k] = p]
  /\ copy' = [copy EXCEPT ![k] = content[Home[k]]]
  /\ UNCHANGED content

\* The owner of k changes its copy.
Modify(p, k, v) ==
  /\ owner[k] = p
  /\ copy' = [copy EXCEPT ![k] = v]
  /\ UNCHANGED <<content, owner>>

\* The copy of k reaches the disk, unchanged since it was written.
Commit(p, k) ==
  /\ owner[k] = p
  /\ content' = [content EXCEPT ![Home[k]] = copy[k]]
  /\ UNCHANGED <<owner, copy>>

\* The owner drops k; a copy that was not committed is gone.
Drop(p, k) ==
  /\ owner[k] = p
  /\ owner' = [owner EXCEPT ![k] = Nobody]
  /\ copy' = [copy EXCEPT ![k] = NoValue]
  /\ UNCHANGED content

Next ==
  \E p \in Procs, k \in Blocks :
    Take(p, k) \/ Commit(p, k) \/ Drop(p, k) \/ \E v \in Values : Modify(p, k, v)

Spec == Init /\ [][Next]_<<content, owner, copy>>
=============================================================================
