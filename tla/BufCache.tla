------------------------------- MODULE BufCache -------------------------------
(***************************************************************************)
(* kernel/fs/buf.c and the three system calls on top of it (sys_read_block,*)
(* sys_write_block, sys_release_block in sysfile.c).                       *)
(*                                                                         *)
(* All callers run on hart 0 and give it up only inside virtio_disk_rw(),  *)
(* so a step runs from one disk wait to the next.  The lock in a buffer is *)
(* a spinlock kept across these waits, and spinlock_holding() compares     *)
(* harts: for every process on hart 0, "held by this hart" is "locked".    *)
(*                                                                         *)
(* A block number is whatever 32 bits sys_read_block() is given: nothing   *)
(* checks it.  virtio_disk_rw() turns it into a sector in 32 bits, so two  *)
(* numbers may be one disk block, and a number may be off the disk or be   *)
(* BLOCK_NUM_UNUSED itself.                                                *)
(***************************************************************************)
EXTENDS Integers, Sequences, FiniteSets, SequencesExt

CONSTANTS
  Procs,       \* processes
  Bufs,        \* the buffers of buf_cache[]
  Wide,        \* the values of a uint32, 2^32
  DiskSize,    \* the size of the disk in blocks
  Blocks,      \* the block numbers that are asked for, but for UNUSED
  Values,      \* contents of a block
  None         \* no buffer

\* BLOCK_NUM_UNUSED, all bits set.
UNUSED == Wide - 1

\* virtio_disk_rw(): block_num * (BLOCK_SIZE / 512), in 32 bits.
Sector(n) == (n * 2) % Wide

\* The disk block that starts at that sector.
DiskBlock(n) == Sector(n) \div 2

OnDisk == 0 .. DiskSize - 1

ASSUME BufsAssumption == IsFiniteSet(Bufs) /\ Bufs # {}
ASSUME NumbersAssumption ==
  /\ Wide \in Nat /\ DiskSize \in Nat
  /\ Blocks \subseteq 0 .. Wide - 2
  /\ DiskBlock(UNUSED) \notin OnDisk
ASSUME NamesAssumption == None \notin Bufs \cup Procs \cup Values

VARIABLES
  list,       \* the ring from head_buf.next to head_buf.prev
  block_num,  \* buf->block_num
  buf_ref,    \* buf->buf_ref
  slk,        \* buf->slk is locked (by hart 0)
  data,       \* buf->data
  disk,       \* the blocks of the disk
  pc,         \* the disk wait a process is in
  op,         \* the buffer and the block number of that wait
  hold,       \* the handles a process has got and not released
  panicked    \* why the kernel stopped, "no" while it runs

vars == <<list, block_num, buf_ref, slk, data, disk, pc, op, hold, panicked>>

TypeOK ==
  /\ list \in Seq(Bufs) /\ Len(list) = Cardinality(Bufs) /\ ToSet(list) = Bufs
  /\ block_num \in [Bufs -> Blocks \cup {UNUSED}]
  /\ buf_ref \in [Bufs -> Nat]
  /\ slk \in [Bufs -> BOOLEAN]
  /\ data \in [Bufs -> Values]
  /\ disk \in [OnDisk -> Values]
  /\ pc \in [Procs -> {"run", "read", "write"}]
  /\ op \in [Procs -> (Bufs \X (Blocks \cup {UNUSED})) \cup {None}]
  /\ hold \in [Procs -> SUBSET Bufs]
  /\ panicked \in {"no", "acquire", "referenced", "not locked", "status"}

\* buf_init(): each buffer is inserted before head_buf, so the ring is in order.
Init ==
  /\ list = SetToSeq(Bufs)
  /\ block_num = [b \in Bufs |-> UNUSED]
  /\ buf_ref = [b \in Bufs |-> 0]
  /\ slk = [b \in Bufs |-> FALSE]
  /\ \E v \in Values : data = [b \in Bufs |-> v]
  /\ disk \in [OnDisk -> Values]
  /\ pc = [p \in Procs |-> "run"]
  /\ op = [p \in Procs |-> None]
  /\ hold = [p \in Procs |-> {}]
  /\ panicked = "no"

-----------------------------------------------------------------------------
\* insert_head() takes the node out of the ring ...
Unlinked(l, b) == RemoveAt(l, CHOOSE i \in DOMAIN l : l[i] = b)

\* Mutant: insert_head() leaves the node linked at its old place too.
ToFrontLinkedTwice(l, b) == <<b>> \o l

\* ... and with head_next puts it at head_buf.next, where the scan starts ...
ToFront(l, b) == <<b>> \o Unlinked(l, b)

\* Mutant: a freed buffer goes to the same end as a used one.
ToBackAtFront(l, b) == ToFront(l, b)

\* ... without, at head_buf.prev, where free buffers are taken.
ToBack(l, b) == Unlinked(l, b) \o <<b>>

\* The kernel runs and p is not inside a disk wait.
CanCall(p) == panicked = "no" /\ pc[p] = "run"

\* Mutant: the scan skips a buffer that is locked.
CachedUnlocked(k) == {b \in Bufs : block_num[b] = k /\ ~slk[b]}

\* The buffers the scan would stop at: for UNUSED, those not assigned.
Cached(k) == {b \in Bufs : block_num[b] = k}

\* The first of them from head_buf.next.
Hit(k) ==
  list[CHOOSE i \in DOMAIN list :
         /\ list[i] \in Cached(k)
         /\ \A j \in DOMAIN list : list[j] \in Cached(k) => i <= j]

Panic(why) ==
  /\ panicked' = why
  /\ UNCHANGED <<list, block_num, slk, data, disk, pc, op, hold>>

\* buf_read(k) finds the number in the ring, and returns the buffer as it is.
ReadHit(p, k) ==
  /\ CanCall(p)
  /\ Cached(k) # {}
  /\ LET b == Hit(k) IN
     /\ buf_ref' = [buf_ref EXCEPT ![b] = @ + 1]
     /\ IF slk[b]
        THEN Panic("acquire")
        ELSE /\ slk' = [slk EXCEPT ![b] = TRUE]
             /\ hold' = [hold EXCEPT ![p] = @ \cup {b}]
             /\ UNCHANGED <<list, block_num, data, disk, pc, op, panicked>>

\* Mutant: a buffer taken for a new block is not yet referenced.
ReadMissUnreferenced(p, k) ==
  /\ CanCall(p)
  /\ Cached(k) = {}
  /\ LET b == Last(list) IN
     IF buf_ref[b] # 0
     THEN Panic("referenced") /\ UNCHANGED buf_ref
     ELSE /\ UNCHANGED buf_ref
          /\ block_num' = [block_num EXCEPT ![b] = k]
          /\ list' = ToFront(list, b)
          /\ IF slk[b]
             THEN panicked' = "acquire" /\ UNCHANGED <<slk, pc, op>>
             ELSE /\ slk' = [slk EXCEPT ![b] = TRUE]
                  /\ pc' = [pc EXCEPT ![p] = "read"]
                  /\ op' = [op EXCEPT ![p] = <<b, k>>]
                  /\ UNCHANGED panicked
          /\ UNCHANGED <<data, disk, hold>>

\* buf_read(k) takes the buffer at head_buf.prev and starts the disk read.
ReadMiss(p, k) ==
  /\ CanCall(p)
  /\ Cached(k) = {}
  /\ LET b == Last(list) IN
     IF buf_ref[b] # 0
     THEN Panic("referenced") /\ UNCHANGED buf_ref
     ELSE /\ buf_ref' = [buf_ref EXCEPT ![b] = 1]
          /\ block_num' = [block_num EXCEPT ![b] = k]
          /\ list' = ToFront(list, b)
          /\ IF slk[b]
             THEN panicked' = "acquire" /\ UNCHANGED <<slk, pc, op>>
             ELSE /\ slk' = [slk EXCEPT ![b] = TRUE]
                  /\ pc' = [pc EXCEPT ![p] = "read"]
                  /\ op' = [op EXCEPT ![p] = <<b, k>>]
                  /\ UNCHANGED panicked
          /\ UNCHANGED <<data, disk, hold>>

\* virtio_disk_intr() finds that p's transfer failed: its sector is off the
\* disk.
Failed(p) == DiskBlock(op[p][2]) \notin OnDisk

\* Mutant: buf_read() returns what the buffer held before.
ReadDoneStale(p) ==
  /\ panicked = "no"
  /\ pc[p] = "read"
  /\ IF Failed(p)
     THEN Panic("status")
     ELSE /\ hold' = [hold EXCEPT ![p] = @ \cup {op[p][1]}]
          /\ pc' = [pc EXCEPT ![p] = "run"]
          /\ op' = [op EXCEPT ![p] = None]
          /\ UNCHANGED <<list, block_num, slk, data, disk, panicked>>
  /\ UNCHANGED buf_ref

\* virtio_disk_rw(b, false) has filled the buffer; buf_read() returns it.
ReadDone(p) ==
  /\ panicked = "no"
  /\ pc[p] = "read"
  /\ IF Failed(p)
     THEN Panic("status")
     ELSE /\ data' = [data EXCEPT ![op[p][1]] = disk[DiskBlock(op[p][2])]]
          /\ hold' = [hold EXCEPT ![p] = @ \cup {op[p][1]}]
          /\ pc' = [pc EXCEPT ![p] = "run"]
          /\ op' = [op EXCEPT ![p] = None]
          /\ UNCHANGED <<list, block_num, slk, disk, panicked>>
  /\ UNCHANGED buf_ref

\* A process passes only handles that it has got from sys_read_block and has
\* not released.
Handles(p) == hold[p]

\* sys_write_block: copyin, then buf_write() up to its disk wait.
WriteStart(p, b, v) ==
  /\ CanCall(p)
  /\ b \in Handles(p)
  /\ data' = [data EXCEPT ![b] = v]
  /\ IF ~slk[b]
     THEN panicked' = "not locked" /\ UNCHANGED <<pc, op>>
     ELSE /\ pc' = [pc EXCEPT ![p] = "write"]
          /\ op' = [op EXCEPT ![p] = <<b, block_num[b]>>]
          /\ UNCHANGED panicked
  /\ UNCHANGED <<list, block_num, buf_ref, slk, disk, hold>>

\* The disk has taken the data; virtio_disk_rw(b, true) returns.
WriteDone(p) ==
  /\ panicked = "no"
  /\ pc[p] = "write"
  /\ IF Failed(p)
     THEN Panic("status")
     ELSE /\ disk' = [disk EXCEPT ![DiskBlock(op[p][2])] = data[op[p][1]]]
          /\ pc' = [pc EXCEPT ![p] = "run"]
          /\ op' = [op EXCEPT ![p] = None]
          /\ UNCHANGED <<list, block_num, slk, data, hold, panicked>>
  /\ UNCHANGED buf_ref

\* sys_release_block: buf_release(b).
Release(p, b) ==
  /\ CanCall(p)
  /\ b \in Handles(p)
  /\ IF ~slk[b]
     THEN Panic("not locked") /\ UNCHANGED buf_ref
     ELSE /\ slk' = [slk EXCEPT ![b] = FALSE]
          /\ buf_ref' = [buf_ref EXCEPT ![b] = @ - 1]
          /\ IF buf_ref[b] = 1
             THEN /\ block_num' = [block_num EXCEPT ![b] = UNUSED]
                  /\ list' = ToBack(list, b)
             ELSE UNCHANGED <<block_num, list>>
          /\ hold' = [hold EXCEPT ![p] = @ \ {b}]
          /\ UNCHANGED <<data, disk, pc, op, panicked>>

Next ==
  \E p \in Procs :
    \/ \E k \in Blocks \cup {UNUSED} : ReadHit(p, k) \/ ReadMiss(p, k)
    \/ ReadDone(p) \/ WriteDone(p)
    \/ \E b \in Bufs : Release(p, b) \/ \E v \in Values : WriteStart(p, b, v)

Spec == Init /\ [][Next]_vars

-----------------------------------------------------------------------------
\* buf_read() keeps one buffer for a block number: no two are ever assigned to
\* the same number, whatever reads are in flight.
OneBufPerBlock ==
  \A b, c \in Bufs : block_num[b] = block_num[c] /\ block_num[b] # UNUSED => b = c

\* buf_ref counts the processes that use the buffer: those that have got it
\* from buf_read() and those whose buf_read() is still waiting for the disk.
RefCountsUsers ==
  panicked = "no" =>
    \A b \in Bufs :
      buf_ref[b] = Cardinality({p \in Procs :
                     b \in hold[p] \/ (pc[p] = "read" /\ op[p][1] = b)})

\* buf_read() gives up with "buffer still referenced" only when every buffer
\* is in use: the free ones are always at the head_buf.prev end of the ring.
ExhaustedOnlyWhenFull ==
  panicked = "referenced" => \A b \in Bufs : buf_ref[b] > 0

\* The numbers and buffers as the callers see them.
UserOf(k) == {p \in Procs : \E b \in hold[p] : block_num[b] = k}

Store == INSTANCE BlockStore WITH
  content <- disk,
  owner <- [k \in Blocks |-> IF UserOf(k) = {} THEN None
                             ELSE CHOOSE p \in UserOf(k) : TRUE],
  copy <- [k \in Blocks |-> IF UserOf(k) = {} THEN None
                            ELSE data[CHOOSE b \in Bufs : block_num[b] = k]],
  Home <- [k \in Blocks |-> DiskBlock(k)], Nobody <- None, NoValue <- None

\* buf.c implements the block store: a process that gets the block of a number
\* sees the last value written to that disk block, its writes reach that disk
\* block and no other, and no number has two owners.
StoreSpec == Store!Spec
=============================================================================
