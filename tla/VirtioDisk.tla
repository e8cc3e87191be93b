------------------------------ MODULE VirtioDisk ------------------------------
(***************************************************************************)
(* kernel/dev/virtio.c with proc_sleep()/proc_wakeup() of proc.c and the   *)
(* virtio block device: processes on hart 0 put requests on the available  *)
(* ring and sleep; the device completes them in any order; the interrupt   *)
(* handler, on hart 0 or on hart 1 (plic_inithart() enables the disk on    *)
(* both), takes them off the used ring and wakes the sleepers.             *)
(*                                                                         *)
(* Code of a process between acquiring vdisk_lock and releasing it is one  *)
(* step, as is each stretch of virtio_disk_intr() in which the device can  *)
(* make no difference.  Ring entries and links that nobody will read again *)
(* are blanked, where the code leaves old values behind.                   *)
(***************************************************************************)
EXTENDS Integers, FiniteSets

CONSTANTS
  Procs,      \* processes doing block I/O, each on a buffer of its own
  NUM,        \* descriptors, and slots of the two rings
  IntrHarts   \* the harts whose PLIC context takes the disk interrupt

ASSUME NUMAssumption == NUM \in Nat /\ NUM >= 3
ASSUME IntrHartsAssumption == IntrHarts \subseteq {0, 1} /\ IntrHarts # {}

Descs == 0 .. NUM - 1
None == -1
free0 == -2      \* the channel &disk.free[0]

ASSUME ProcsAssumption == None \notin Procs /\ free0 \notin Procs

VARIABLES
  free,       \* disk.free[]
  next,       \* disk.desc[].next, None where flags lack VRING_DESC_F_NEXT
  addr,       \* the buffer a data descriptor points to
  info,       \* disk.info[].b
  avail,      \* disk.avail[2...]
  availIdx,   \* disk.avail[1] % NUM
  used,       \* disk.used->elems[]
  usedId,     \* disk.used->id % NUM, written by the device
  used_idx,   \* disk.used_idx
  bdisk,      \* b->disk of each process's buffer
  idx,        \* idx[0], the head of the chain of the request in progress
  state,      \* procs[].state
  chan,       \* procs[].sleep_space, or the channel about to be slept on
  pc,         \* where in virtio_disk_rw() the process is
  cur,        \* the process on hart 0
  handler,    \* where virtio_disk_intr() is
  hart,       \* the hart the handler runs on
  seen,       \* device: how far it has looked in avail
  flight,     \* device: heads of the chains it works on
  raise,      \* device: a completion is published, its interrupt not yet raised
  irq,        \* device: VIRTIO_MMIO_INTERRUPT_STATUS
  served,     \* ghost: processes whose current request the device has completed
  races       \* ghost: the races with the handler that have happened

rings == <<avail, availIdx, used, usedId>>
driver == <<free, next, addr, info, used_idx, bdisk, idx>>
sched == <<state, chan, pc, cur>>
device == <<seen, flight, raise, irq>>
ghosts == <<served, races>>
vars == <<driver, rings, sched, handler, hart, device, ghosts>>

TypeOK ==
  /\ free \in [Descs -> BOOLEAN]
  /\ next \in [Descs -> Descs \cup {None}]
  /\ addr \in [Descs -> Procs \cup {None}]
  /\ info \in [Descs -> Procs \cup {None}]
  /\ avail \in [Descs -> Descs \cup {None}]
  /\ used \in [Descs -> Descs \cup {None}]
  /\ {availIdx, usedId, used_idx, seen} \subseteq Descs
  /\ bdisk \in [Procs -> BOOLEAN]
  /\ idx \in [Procs -> Descs \cup {None}]
  /\ state \in [Procs -> {"RUNNABLE", "RUNNING", "SLEEPING"}]
  /\ chan \in [Procs -> Procs \cup {None, free0}]
  /\ pc \in [Procs -> {"user", "alloc", "nodesc", "sleep", "wait"}]
  /\ cur \in Procs \cup {None}
  /\ handler \in {"idle", "loop", "ack"}
  /\ hart \in {0, 1}
  /\ flight \subseteq Descs
  /\ raise \in BOOLEAN /\ irq \in BOOLEAN
  /\ served \subseteq Procs /\ races \subseteq {"ack", "sleep"}

\* virtio_disk_init(), with every process in user mode.
Init ==
  /\ free = [d \in Descs |-> TRUE]
  /\ next = [d \in Descs |-> None]
  /\ addr = [d \in Descs |-> None]
  /\ info = [d \in Descs |-> None]
  /\ avail = [d \in Descs |-> None]
  /\ used = [d \in Descs |-> None]
  /\ availIdx = 0 /\ usedId = 0 /\ used_idx = 0 /\ seen = 0
  /\ bdisk = [p \in Procs |-> FALSE]
  /\ idx = [p \in Procs |-> None]
  /\ state = [p \in Procs |-> "RUNNABLE"]
  /\ chan = [p \in Procs |-> None]
  /\ pc = [p \in Procs |-> "user"]
  /\ cur = None
  /\ handler = "idle" /\ hart = 0
  /\ flight = {} /\ raise = FALSE /\ irq = FALSE
  /\ served = {} /\ races = {}

-----------------------------------------------------------------------------
\* Hart 0 is running processes or the scheduler, not the handler.
Hart0 == handler = "idle" \/ hart = 1

\* vdisk_lock is free: processes hold it only within a step.
LockFree == handler = "idle"

\* The state after proc_wakeup(c).
Wakeup(st, c) ==
  [p \in Procs |-> IF p # cur /\ st[p] = "SLEEPING" /\ chan[p] = c
                   THEN "RUNNABLE" ELSE st[p]]

\* The scheduler switches to p.
Dispatch(p) ==
  /\ Hart0
  /\ cur = None
  /\ state[p] = "RUNNABLE"
  /\ state' = [state EXCEPT ![p] = "RUNNING"]
  /\ cur' = p
  /\ UNCHANGED <<driver, rings, chan, pc, handler, hart, device, ghosts>>

\* p gives up the hart in user mode (its slice is used up, or it waits).
Preempt(p) ==
  /\ Hart0
  /\ cur = p
  /\ pc[p] = "user"
  /\ state' = [state EXCEPT ![p] = "RUNNABLE"]
  /\ cur' = None
  /\ UNCHANGED <<driver, rings, chan, pc, handler, hart, device, ghosts>>

\* A system call of p reaches virtio_disk_rw().
Call(p) ==
  /\ Hart0
  /\ cur = p
  /\ pc[p] = "user"
  /\ pc' = [pc EXCEPT ![p] = "alloc"]
  /\ served' = served \ {p}
  /\ UNCHANGED <<driver, rings, state, chan, cur, handler, hart, device, races>>
-----------------------------------------------------------------------------
FreeDescs == {d \in Descs : free[d]}
First(S) == CHOOSE d \in S : \A e \in S : d <= e
Second(S) == First(S \ {First(S)})
Third(S) == Second(S \ {First(S)})

\* The descriptors of the chain that starts at d.
Chain(d) == {d, next[d], next[next[d]]}

\* Mutant: avail[1] used as a ring position without % NUM.
AllocRequestNoWrap(p) ==
  /\ Hart0 /\ LockFree
  /\ cur = p
  /\ pc[p] = "alloc"
  /\ Cardinality(FreeDescs) >= 3
  /\ LET a == First(FreeDescs) b == Second(FreeDescs) c == Third(FreeDescs) IN
     /\ free' = [free EXCEPT ![a] = FALSE, ![b] = FALSE, ![c] = FALSE]
     /\ next' = [next EXCEPT ![a] = b, ![b] = c, ![c] = None]
     /\ addr' = [addr EXCEPT ![a] = None, ![b] = p, ![c] = None]
     /\ info' = [info EXCEPT ![a] = p]
     /\ avail' = [avail EXCEPT ![availIdx] = a]
     /\ idx' = [idx EXCEPT ![p] = a]
  /\ availIdx' = availIdx + 1
  /\ bdisk' = [bdisk EXCEPT ![p] = TRUE]
  /\ chan' = [chan EXCEPT ![p] = None]
  /\ pc' = [pc EXCEPT ![p] = "sleep"]
  /\ UNCHANGED <<used, usedId, used_idx, state, cur, handler, hart, device, ghosts>>

\* Mutant: disk.info indexed by the last descriptor of the chain.
AllocRequestInfoAtTail(p) ==
  /\ Hart0 /\ LockFree
  /\ cur = p
  /\ pc[p] = "alloc"
  /\ Cardinality(FreeDescs) >= 3
  /\ LET a == First(FreeDescs) b == Second(FreeDescs) c == Third(FreeDescs) IN
     /\ free' = [free EXCEPT ![a] = FALSE, ![b] = FALSE, ![c] = FALSE]
     /\ next' = [next EXCEPT ![a] = b, ![b] = c, ![c] = None]
     /\ addr' = [addr EXCEPT ![a] = None, ![b] = p, ![c] = None]
     /\ info' = [info EXCEPT ![c] = p]
     /\ avail' = [avail EXCEPT ![availIdx] = a]
     /\ idx' = [idx EXCEPT ![p] = a]
  /\ availIdx' = (availIdx + 1) % NUM
  /\ bdisk' = [bdisk EXCEPT ![p] = TRUE]
  /\ chan' = [chan EXCEPT ![p] = None]
  /\ pc' = [pc EXCEPT ![p] = "sleep"]
  /\ UNCHANGED <<used, usedId, used_idx, state, cur, handler, hart, device, ghosts>>

\* alloc3_desc() takes the three lowest free descriptors; the request is
\* formatted, put on the available ring, the device notified; then the loop
\* on b->disk calls proc_sleep(b, &vdisk_lock), which drops the lock.
AllocRequest(p) ==
  /\ Hart0 /\ LockFree
  /\ cur = p
  /\ pc[p] = "alloc"
  /\ Cardinality(FreeDescs) >= 3
  /\ LET a == First(FreeDescs) b == Second(FreeDescs) c == Third(FreeDescs) IN
     /\ free' = [free EXCEPT ![a] = FALSE, ![b] = FALSE, ![c] = FALSE]
     /\ next' = [next EXCEPT ![a] = b, ![b] = c, ![c] = None]
     /\ addr' = [addr EXCEPT ![a] = None, ![b] = p, ![c] = None]
     /\ info' = [info EXCEPT ![a] = p]
     /\ avail' = [avail EXCEPT ![availIdx] = a]
     /\ idx' = [idx EXCEPT ![p] = a]
  /\ availIdx' = (availIdx + 1) % NUM
  /\ bdisk' = [bdisk EXCEPT ![p] = TRUE]
  /\ chan' = [chan EXCEPT ![p] = None]
  /\ pc' = [pc EXCEPT ![p] = "sleep"]
  /\ UNCHANGED <<used, usedId, used_idx, state, cur, handler, hart, device, ghosts>>

\* Mutant: alloc3_desc() that keeps what it got when it fails.
AllocFailsKeeps(p) ==
  /\ Hart0 /\ LockFree
  /\ cur = p
  /\ pc[p] = "alloc"
  /\ Cardinality(FreeDescs) < 3
  /\ free' = [d \in Descs |-> FALSE]
  /\ chan' = [chan EXCEPT ![p] = None]
  /\ pc' = [pc EXCEPT ![p] = "nodesc"]
  /\ UNCHANGED <<next, addr, info, used_idx, bdisk, idx, rings, state, cur, handler, hart,
                 device, ghosts>>

\* alloc3_desc() fails: the descriptors it took are freed again, which wakes
\* the other processes waiting for one, and p goes to sleep on &disk.free[0].
AllocFails(p) ==
  /\ Hart0 /\ LockFree
  /\ cur = p
  /\ pc[p] = "alloc"
  /\ Cardinality(FreeDescs) < 3
  /\ addr' = [d \in Descs |-> IF free[d] THEN None ELSE addr[d]]
  /\ state' = IF FreeDescs # {} THEN Wakeup(state, free0) ELSE state
  /\ chan' = [chan EXCEPT ![p] = None]
  /\ pc' = [pc EXCEPT ![p] = "nodesc"]
  /\ UNCHANGED <<free, next, info, used_idx, bdisk, idx, rings, cur, handler, hart,
                 device, ghosts>>

\* proc_sleep() after spinlock_release(x): p->lk is taken, the state set, even
\* if hart 1 has finished the request in between.
CommitSleep(p) ==
  /\ Hart0
  /\ cur = p
  /\ pc[p] \in {"sleep", "nodesc"}
  /\ chan' = [chan EXCEPT ![p] = IF pc[p] = "sleep" THEN p ELSE free0]
  /\ state' = [state EXCEPT ![p] = "SLEEPING"]
  /\ pc' = [pc EXCEPT ![p] = IF pc[p] = "sleep" THEN "wait" ELSE "alloc"]
  /\ cur' = None
  /\ races' = IF pc[p] = "sleep" /\ ~bdisk[p] THEN races \cup {"sleep"} ELSE races
  /\ UNCHANGED <<driver, rings, handler, hart, device, served>>

\* Mutant: free_desc() without its proc_wakeup().
FinishQuietly(p) ==
  /\ Hart0 /\ LockFree
  /\ cur = p
  /\ pc[p] = "wait"
  /\ ~bdisk[p]
  /\ chan' = [chan EXCEPT ![p] = None]
  /\ info' = [info EXCEPT ![idx[p]] = None]
  /\ free' = [d \in Descs |-> free[d] \/ d \in Chain(idx[p])]
  /\ pc' = [pc EXCEPT ![p] = "user"]
  /\ idx' = [idx EXCEPT ![p] = None]
  /\ UNCHANGED <<state, addr, next, used_idx, bdisk, rings, cur, handler, hart, device, ghosts>>

\* Awake again with vdisk_lock.  While the disk still owns the buffer p sleeps
\* once more; otherwise free_chain(idx[0]) and the return.
Finish(p) ==
  /\ Hart0 /\ LockFree
  /\ cur = p
  /\ pc[p] = "wait"
  /\ chan' = [chan EXCEPT ![p] = None]
  /\ IF bdisk[p]
     THEN /\ pc' = [pc EXCEPT ![p] = "sleep"]
          /\ UNCHANGED <<info, free, addr, next, state, idx>>
     ELSE /\ info' = [info EXCEPT ![idx[p]] = None]
          /\ free' = [d \in Descs |-> free[d] \/ d \in Chain(idx[p])]
          /\ addr' = [d \in Descs |-> IF d \in Chain(idx[p]) THEN None ELSE addr[d]]
          /\ next' = [d \in Descs |-> IF d \in Chain(idx[p]) THEN None ELSE next[d]]
          /\ state' = Wakeup(state, free0)
          /\ pc' = [pc EXCEPT ![p] = "user"]
          /\ idx' = [idx EXCEPT ![p] = None]
  /\ UNCHANGED <<used_idx, bdisk, rings, cur, handler, hart, device, ghosts>>

-----------------------------------------------------------------------------
\* external_interrupt_handler(): plic_claim() gives the interrupt to one hart;
\* hart 0 takes it in user mode or in the scheduler, hart 1 at any time.
TakeIrq(h) ==
  /\ irq
  /\ handler = "idle"
  /\ h = 0 /\ cur # None => pc[cur] = "user"
  /\ handler' = "loop"
  /\ hart' = h
  /\ UNCHANGED <<driver, rings, sched, device, ghosts>>

\* Mutant: virtio_disk_intr() that declares every buffer done.
HandleAll ==
  /\ handler = "loop"
  /\ used_idx # usedId
  /\ bdisk' = [p \in Procs |-> FALSE]
  /\ state' = [p \in Procs |-> IF state[p] = "SLEEPING" /\ chan[p] = p
                               THEN "RUNNABLE" ELSE state[p]]
  /\ used_idx' = (used_idx + 1) % NUM
  /\ used' = [used EXCEPT ![used_idx] = None]
  /\ UNCHANGED <<free, next, addr, info, idx, avail, availIdx, usedId, chan, pc, cur,
                 handler, hart, device, ghosts>>

\* Mutant: an if where virtio_disk_intr() has its while.
HandleOne ==
  /\ handler = "loop"
  /\ used_idx # usedId
  /\ LET p == info[used[used_idx]] IN
     /\ p # None
     /\ bdisk' = [bdisk EXCEPT ![p] = FALSE]
     /\ state' = Wakeup(state, p)
  /\ used_idx' = (used_idx + 1) % NUM
  /\ used' = [used EXCEPT ![used_idx] = None]
  /\ handler' = "ack"
  /\ UNCHANGED <<free, next, addr, info, idx, avail, availIdx, usedId, chan, pc, cur,
                 hart, device, ghosts>>

\* One turn of the loop of virtio_disk_intr().  Requests here are for sectors that the
\* disk has, and their status is 0; BufCache has those that panic with another status.
HandleUsed ==
  /\ handler = "loop"
  /\ used_idx # usedId
  /\ LET p == info[used[used_idx]] IN
     /\ p # None
     /\ bdisk' = [bdisk EXCEPT ![p] = FALSE]
     /\ state' = Wakeup(state, p)
  /\ used_idx' = (used_idx + 1) % NUM
  /\ used' = [used EXCEPT ![used_idx] = None]
  /\ UNCHANGED <<free, next, addr, info, idx, avail, availIdx, usedId, chan, pc, cur,
                 handler, hart, device, ghosts>>

\* The loop finds nothing more to do.
LeaveLoop ==
  /\ handler = "loop"
  /\ used_idx = usedId
  /\ handler' = "ack"
  /\ UNCHANGED <<driver, rings, sched, hart, device, ghosts>>

\* The write to VIRTIO_MMIO_INTERRUPT_ACK, the release and plic_complete().
Ack ==
  /\ handler = "ack"
  /\ irq' = FALSE
  /\ handler' = "idle"
  /\ hart' = 0
  /\ UNCHANGED <<driver, rings, sched, seen, flight, raise, ghosts>>

-----------------------------------------------------------------------------
\* The device: it takes chains from the available ring in order ...
Fetch ==
  /\ seen # availIdx
  /\ flight' = flight \cup {avail[seen]}
  /\ seen' = (seen + 1) % NUM
  /\ avail' = [avail EXCEPT ![seen] = None]
  /\ UNCHANGED <<driver, availIdx, used, usedId, sched, handler, hart, raise, irq, ghosts>>

\* ... completes them in any order, publishing each on the used ring ...
Complete(d) ==
  /\ d \in flight
  /\ flight' = flight \ {d}
  /\ used' = [used EXCEPT ![usedId] = d]
  /\ usedId' = (usedId + 1) % NUM
  /\ raise' = TRUE
  /\ served' = served \cup {addr[next[d]]}
  /\ UNCHANGED <<driver, avail, availIdx, sched, handler, hart, seen, irq, races>>

\* ... and then raises its interrupt, which the handler clears unseen if it has
\* left its loop.
Raise ==
  /\ raise
  /\ raise' = FALSE
  /\ irq' = TRUE
  /\ races' = IF handler = "ack" THEN races \cup {"ack"} ELSE races
  /\ UNCHANGED <<driver, rings, sched, handler, hart, seen, flight, served>>

\* virtio_disk_rw() under way, and virtio_disk_intr() under way.
Kernel(p) ==
  AllocRequest(p) \/ AllocFails(p) \/ CommitSleep(p) \/ Finish(p)
Handle == HandleUsed \/ LeaveLoop \/ Ack

Next ==
  \/ \E p \in Procs : Dispatch(p) \/ Preempt(p) \/ Call(p) \/ Kernel(p)
  \/ \E h \in IntrHarts : TakeIrq(h)
  \/ Handle
  \/ Fetch \/ (\E d \in Descs : Complete(d)) \/ Raise

Spec == Init /\ [][Next]_vars

\* Kernel code goes on; the scheduler starves nobody; interrupts stay pending
\* until they can be taken; the device completes what it was given.
Fairness ==
  /\ \A p \in Procs : /\ SF_vars(Dispatch(p)) /\ SF_vars(Preempt(p))
                      /\ WF_vars(Kernel(p))
                      /\ SF_vars(\E d \in Descs : info[d] = p /\ Complete(d))
  /\ SF_vars(\E h \in IntrHarts : TakeIrq(h))
  /\ WF_vars(Handle)
  /\ WF_vars(Fetch) /\ SF_vars(Raise)

FairSpec == Spec /\ Fairness

-----------------------------------------------------------------------------
\* Processes with a request in progress.
Busy == {p \in Procs : idx[p] # None}

\* Descriptors are conserved: the ones not free are exactly those of the chains
\* of the requests in progress, three each and none shared, whatever mix of
\* failed and successful allocations led there.
DescsConserved ==
  /\ \A p, q \in Busy : p # q => Chain(idx[p]) \cap Chain(idx[q]) = {}
  /\ Descs \ FreeDescs = UNION {Chain(idx[p]) : p \in Busy}
  /\ \A p \in Busy : Cardinality(Chain(idx[p])) = 3

\* The used entries the handler has not taken off the ring yet.
Unconsumed == {used[(used_idx + i) % NUM] : i \in 0 .. ((usedId - used_idx + NUM) % NUM) - 1}

\* Whatever the device still has to report belongs to a process that waits for
\* it: virtio_disk_intr() never follows a null or a stale disk.info[id].b.
CompletionsHaveOwner ==
  \A d \in flight \cup Unconsumed :
    \E p \in Busy : idx[p] = d /\ info[d] = p /\ bdisk[p] /\ addr[next[d]] = p

\* virtio_disk_rw() never returns to its caller before the device is done with
\* the buffer: b->disk is cleared for that request only after it was served.
ServedBeforeReturn ==
  \A p \in Procs : pc[p] = "wait" /\ ~bdisk[p] => p \in served

\* A process sleeps on &disk.free[0] only while three descriptors are not
\* available: the wakeup of free_desc() is never lost.
NoLostFreeWakeup ==
  \A p \in Procs : state[p] = "SLEEPING" /\ chan[p] = free0 => Cardinality(FreeDescs) < 3

\* The available entries the device has not fetched yet.
Unfetched == {avail[(seen + i) % NUM] : i \in 0 .. ((availIdx - seen + NUM) % NUM) - 1}

\* Nobody waits in vain: the request of a process asleep on its buffer is still
\* with the device, or completed with an interrupt to come or a handler about to
\* look.  Only two races can break this: an interrupt raised between the last
\* test of virtio_disk_intr() and its acknowledgement, and a completion handled
\* on hart 1 before proc_sleep() has set the state.
NoStrandedRequest ==
  races = {} =>
    \A p \in Procs : state[p] = "SLEEPING" /\ pc[p] = "wait" =>
      /\ bdisk[p]
      /\ \/ idx[p] \in Unfetched \cup flight
         \/ idx[p] \in Unconsumed /\ (raise \/ handler = "loop" \/ (irq /\ handler = "idle"))

\* "Wait for virtio_disk_intr() to say request has finished": a process that
\* has put its request on the ring gets it back and returns.
RequestsReturn == \A p \in Procs : pc[p] \in {"sleep", "wait"} ~> pc[p] = "user"
=============================================================================
