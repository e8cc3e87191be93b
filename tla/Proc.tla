---------------------------------- MODULE Proc ----------------------------------
(***************************************************************************)
(* kernel/proc/proc.c with the parts of trap_user.c, trap_kernel.c and     *)
(* sysfunc.c that drive it: the process table, the round-robin scheduler   *)
(* with time slices, fork, exit, wait, sleep and wakeup on hart 0, the     *)
(* only hart that runs proc_scheduler().                                   *)
(*                                                                         *)
(* trap_user_handler() never enables interrupts, so from a trap to the     *)
(* next proc_sched() or return to user mode the code of a process runs     *)
(* undisturbed by hart 0: that stretch is one step.  Interrupts reach hart *)
(* 0 in user mode and in the intr_on()/intr_off() window of the scheduler. *)
(* Hart 1, which idles, takes disk interrupts at any time, also inside the *)
(* one stretch of hart 0 where that makes a difference: between the        *)
(* release of the disk lock in proc_sleep() and p->state = SLEEPING.       *)
(***************************************************************************)
EXTENDS Integers, FiniteSets

CONSTANTS
  NPROC,       \* slots of procs[]
  NCPU,        \* kernel stacks kvm_init() maps
  TIME_SLICE,  \* ticks of a time slice
  MaxPid,      \* bound: fork is not called once this pid has been given out
  MaxSleep     \* bound: the longest sys_sleep()

ASSUME NPROCAssumption == NPROC \in Nat \ {0}
ASSUME NCPUAssumption == NCPU \in Nat \ {0}
ASSUME TimeSliceAssumption == TIME_SLICE \in Nat \ {0}
ASSUME BoundsAssumption == MaxPid \in Nat /\ MaxSleep \in Nat

Procs == 0 .. NPROC - 1
proczero == 0
None == -1                     \* NULL, for proc_t* and for sleep_space
BufOf(p) == NPROC + p          \* the address of the buffer p does I/O on

VARIABLES
  state,        \* procs[i].state
  pid,          \* procs[i].pid
  parent,       \* procs[i].parent
  sleep_space,  \* procs[i].sleep_space
  time_slice,   \* procs[i].time_slice
  global_pid,   \* the next pid of alloc_pid()
  proc,         \* mycpu()->proc of hart 0
  last,         \* last_scheduled of proc_scheduler()
  pc,           \* where the process is: user mode, or the proc_sched() it is in
  left,         \* proc_yield() calls a sys_sleep() still has to make
  disk,         \* b->disk of the buffer of each process
  skips         \* ghost: dispatches of others since the process became RUNNABLE

vars == <<state, pid, parent, sleep_space, time_slice, global_pid, proc, last,
          pc, left, disk, skips>>

table == <<pid, parent, global_pid>>

States == {"UNUSED", "RUNNABLE", "RUNNING", "SLEEPING", "ZOMBIE"}
PCs == {"none", "fork_return", "user", "tail", "expired", "yield", "wait", "disk",
        "fault"}

TypeOK ==
  /\ state \in [Procs -> States]
  /\ pid \in [Procs -> Nat]
  /\ parent \in [Procs -> Procs \cup {None}]
  /\ sleep_space \in [Procs -> Procs \cup {BufOf(p) : p \in Procs} \cup {None}]
  /\ time_slice \in [Procs -> 0 .. TIME_SLICE]
  /\ global_pid \in Nat
  /\ proc \in Procs \cup {None}
  /\ last \in Procs \cup {-1}
  /\ pc \in [Procs -> PCs]
  /\ left \in [Procs -> Nat]
  /\ disk \in [Procs -> BOOLEAN]
  /\ skips \in [Procs -> Nat]

-----------------------------------------------------------------------------
\* proc_init() and proc_make_first(), up to proc_scheduler()'s c->proc = NULL.
Init ==
  /\ state = [p \in Procs |-> IF p = proczero THEN "RUNNABLE" ELSE "UNUSED"]
  /\ pid = [p \in Procs |-> IF p = proczero THEN 1 ELSE 0]
  /\ parent = [p \in Procs |-> None]
  /\ sleep_space = [p \in Procs |-> None]
  /\ time_slice = [p \in Procs |-> TIME_SLICE]
  /\ global_pid = 2
  /\ proc = None
  /\ last = -1
  /\ pc = [p \in Procs |-> IF p = proczero THEN "fork_return" ELSE "none"]
  /\ left = [p \in Procs |-> 0]
  /\ disk = [p \in Procs |-> FALSE]
  /\ skips = [p \in Procs |-> 0]

\* The table st after proc_wakeup(chan): sleepers on chan become RUNNABLE.
Wakeup(st, chan) ==
  [p \in Procs |-> IF p # proc /\ st[p] = "SLEEPING" /\ sleep_space[p] = chan
                   THEN "RUNNABLE" ELSE st[p]]

\* skips is restarted for every process that becomes RUNNABLE.
SkipsAfter(st) ==
  [p \in Procs |-> IF st[p] = "RUNNABLE" /\ state[p] # "RUNNABLE" THEN 0 ELSE skips[p]]

-----------------------------------------------------------------------------
\* Mutant: the scan always starts at slot 0, last_scheduled is ignored.
ScanFromZero(i) == i

\* Slots the scan of proc_scheduler() looks at, from the one after last.
Scan(i) == (last + 1 + i) % NPROC

\* The slot the scan stops at: the first RUNNABLE one.
Picked == CHOOSE p \in Procs : \E i \in 0 .. NPROC - 1 :
            /\ p = Scan(i)
            /\ state[p] = "RUNNABLE"
            /\ \A j \in 0 .. i - 1 : state[Scan(j)] # "RUNNABLE"

\* Mutant: last_scheduled set to the next slot instead of this one.
ScheduleStoresNext ==
  /\ proc = None
  /\ \E p \in Procs : state[p] = "RUNNABLE"
  /\ LET p == Picked IN
     /\ state' = [state EXCEPT ![p] = "RUNNING"]
     /\ proc' = p
     /\ last' = p + 1
     /\ time_slice' = [time_slice EXCEPT ![p] = TIME_SLICE]
     /\ skips' = [q \in Procs |-> IF q # p /\ state[q] = "RUNNABLE"
                                  THEN skips[q] + 1 ELSE 0]
  /\ UNCHANGED <<table, sleep_space, pc, left, disk>>

\* One pass of proc_scheduler() that finds a process.  The code it switches to
\* runs on p->kstack, which kvm_init() has mapped for slots below NCPU only.
Schedule ==
  /\ proc = None
  /\ \E p \in Procs : state[p] = "RUNNABLE"
  /\ LET p == Picked IN
     /\ state' = [state EXCEPT ![p] = "RUNNING"]
     /\ proc' = p
     /\ last' = p
     /\ time_slice' = [time_slice EXCEPT ![p] = TIME_SLICE]
     /\ pc' = [pc EXCEPT ![p] = IF p < NCPU THEN @ ELSE "fault"]
     /\ skips' = [q \in Procs |-> IF q # p /\ state[q] = "RUNNABLE"
                                  THEN skips[q] + 1 ELSE 0]
  /\ UNCHANGED <<table, sleep_space, left, disk>>

\* proc_sched() of the running process p, its new state set by the caller.
Sched(p, st, where) ==
  /\ state' = st
  /\ skips' = SkipsAfter(st)
  /\ proc' = None
  /\ pc' = [pc EXCEPT ![p] = where]

\* Code of p in the kernel that goes on without giving up the hart.
Goto(p, where) ==
  /\ pc' = [pc EXCEPT ![p] = where]
  /\ UNCHANGED proc

InUser(p) == proc = p /\ pc[p] = "user"
-----------------------------------------------------------------------------
\* The slot the scan of proc_alloc() stops at.
FreeSlot == CHOOSE c \in Procs : /\ state[c] = "UNUSED"
                                /\ \A d \in 0 .. c - 1 : state[d] # "UNUSED"

\* proc_fork() when proc_alloc() finds no slot: -1.
SysForkFull(p) ==
  /\ InUser(p)
  /\ \A c \in Procs : state[c] # "UNUSED"
  /\ Goto(p, "tail")
  /\ UNCHANGED <<state, table, sleep_space, time_slice, last, left, disk, skips>>

\* proc_fork() when pmem_alloc() fails inside proc_alloc(): the pid is spent,
\* proc_free() gives the slot back.
SysForkNoMemory(p) ==
  /\ InUser(p)
  /\ global_pid <= MaxPid
  /\ \E c \in Procs : state[c] = "UNUSED"
  /\ global_pid' = global_pid + 1
  /\ Goto(p, "tail")
  /\ UNCHANGED <<state, pid, parent, sleep_space, time_slice, last, left, disk, skips>>

\* proc_fork() that succeeds.
SysFork(p) ==
  /\ InUser(p)
  /\ global_pid <= MaxPid
  /\ \E c \in Procs : state[c] = "UNUSED"
  /\ LET c == FreeSlot IN
     /\ pid' = [pid EXCEPT ![c] = global_pid]
     /\ global_pid' = global_pid + 1
     /\ state' = [state EXCEPT ![c] = "RUNNABLE"]
     /\ skips' = SkipsAfter(state')
     /\ time_slice' = [time_slice EXCEPT ![c] = TIME_SLICE]
     /\ parent' = [parent EXCEPT ![c] = p]
     /\ pc' = [pc EXCEPT ![c] = "fork_return", ![p] = "tail"]
  /\ UNCHANGED <<proc, sleep_space, last, left, disk>>

\* The processes whose parent field points to p.
Kids(p) == {c \in Procs : parent[c] = p}

\* Mutant: proc_exit() without proc_reparent().
NotReparented(p) == parent

\* Mutant: proc_reparent() without its proc_wakeup(proczero).
NoReparentWakeup(p) == state

\* proc_reparent(p): the parent fields, and the table after its proc_wakeup()s.
Reparented(p) == [c \in Procs |-> IF c \in Kids(p) THEN proczero ELSE parent[c]]
ReparentWakeup(p) == IF Kids(p) # {} THEN Wakeup(state, proczero) ELSE state

\* proc_exit() of any process but proczero, for which it panics.
SysExit(p) ==
  /\ InUser(p)
  /\ p # proczero
  /\ parent' = Reparented(p)
  /\ Sched(p, [Wakeup(ReparentWakeup(p), parent[p]) EXCEPT ![p] = "ZOMBIE"], "none")
  /\ UNCHANGED <<pid, global_pid, sleep_space, time_slice, last, left, disk>>

\* proc_free(c), called by p: c is the slot given back.
Free(p, c) ==
  /\ state' = [state EXCEPT ![c] = "UNUSED"]
  /\ pid' = [pid EXCEPT ![c] = 0]
  /\ parent' = [parent EXCEPT ![c] = None]
  /\ sleep_space' = [sleep_space EXCEPT ![c] = None, ![p] = None]
  /\ time_slice' = [time_slice EXCEPT ![c] = TIME_SLICE]

\* The dead child the scan of proc_wait() finds first.
DeadKids(p) == {c \in Kids(p) : state[c] = "ZOMBIE"}
FirstDead(p) == CHOOSE c \in DeadKids(p) : \A d \in DeadKids(p) : c <= d

\* Mutant: proc_wait() that looks no further than its first child.
WaitLoopFirstKid(p) ==
  \/ /\ DeadKids(p) # {}
     /\ \A c \in Kids(p) : FirstDead(p) <= c
     /\ Free(p, FirstDead(p))
     /\ Goto(p, "tail")
     /\ UNCHANGED <<global_pid, skips>>
  \/ /\ Kids(p) = {}
     /\ Goto(p, "tail")
     /\ sleep_space' = [sleep_space EXCEPT ![p] = None]
     /\ UNCHANGED <<state, table, time_slice, skips>>
  \/ /\ \E c \in Kids(p) \ DeadKids(p) : \A d \in Kids(p) : c <= d
     /\ sleep_space' = [sleep_space EXCEPT ![p] = p]
     /\ Sched(p, [state EXCEPT ![p] = "SLEEPING"], "wait")
     /\ UNCHANGED <<table, time_slice>>

\* One turn of the loop of proc_wait(): reap a child, return -1 without
\* children, or proc_sleep(curr, NULL).
WaitLoop(p) ==
  \/ /\ DeadKids(p) # {}
     /\ Free(p, FirstDead(p))
     /\ Goto(p, "tail")
     /\ UNCHANGED <<global_pid, skips>>
  \/ /\ Kids(p) = {}
     /\ Goto(p, "tail")
     /\ sleep_space' = [sleep_space EXCEPT ![p] = None]
     /\ UNCHANGED <<state, table, time_slice, skips>>
  \/ /\ Kids(p) # {}
     /\ DeadKids(p) = {}
     /\ sleep_space' = [sleep_space EXCEPT ![p] = p]
     /\ Sched(p, [state EXCEPT ![p] = "SLEEPING"], "wait")
     /\ UNCHANGED <<table, time_slice>>

\* sys_wait()
SysWait(p) ==
  /\ InUser(p)
  /\ WaitLoop(p)
  /\ UNCHANGED <<last, left, disk>>

\* The return from proc_sleep() inside proc_wait(), and the next turn.
ResumeWait(p) ==
  /\ proc = p
  /\ pc[p] = "wait"
  /\ WaitLoop(p)
  /\ UNCHANGED <<last, left, disk>>

-----------------------------------------------------------------------------
\* proc_yield() inside sys_sleep(), with n more to make after it.
Yield(p, n) ==
  /\ left' = [left EXCEPT ![p] = n]
  /\ Sched(p, [state EXCEPT ![p] = "RUNNABLE"], "yield")
  /\ UNCHANGED <<table, sleep_space, time_slice, last, disk>>

\* sys_sleep(n)
SysSleep(p) ==
  /\ InUser(p)
  /\ \/ \E n \in 1 .. MaxSleep : Yield(p, n - 1)
     \/ /\ Goto(p, "tail")
        /\ UNCHANGED <<state, table, sleep_space, time_slice, last, left, disk, skips>>

\* The return from proc_yield(): once more round the loop, or done.
ResumeYield(p) ==
  /\ proc = p
  /\ pc[p] = "yield"
  /\ \/ left[p] > 0 /\ Yield(p, left[p] - 1)
     \/ /\ left[p] = 0
        /\ Goto(p, "tail")
        /\ UNCHANGED <<state, table, sleep_space, time_slice, last, left, disk, skips>>

\* proc_sleep(b, &disk.vdisk_lock) of p.  Once it has released the disk lock,
\* hart 1 may handle the completion (early): b->disk is cleared, but
\* proc_wakeup() finds p still RUNNING and wakes nobody.
DiskSleep(p) ==
  \E early \in BOOLEAN :
    /\ disk' = [disk EXCEPT ![p] = ~early]
    /\ sleep_space' = [sleep_space EXCEPT ![p] = BufOf(p)]
    /\ Sched(p, [state EXCEPT ![p] = "SLEEPING"], "disk")

\* A system call that starts a block transfer (virtio_disk_rw) and sleeps on
\* its buffer until an interrupt has cleared b->disk.
SysDisk(p) ==
  /\ InUser(p)
  /\ DiskSleep(p)
  /\ UNCHANGED <<table, time_slice, last, left>>

\* The return from that proc_sleep(): while (b->disk == true).
ResumeDisk(p) ==
  /\ proc = p
  /\ pc[p] = "disk"
  /\ \/ /\ disk[p]
        /\ DiskSleep(p)
     \/ /\ ~disk[p]
        /\ sleep_space' = [sleep_space EXCEPT ![p] = None]
        /\ Goto(p, "tail")
        /\ UNCHANGED <<state, skips, disk>>
  /\ UNCHANGED <<table, time_slice, last, left>>

\* virtio_disk_intr() for the buffer of p: on hart 0 in user mode (followed by
\* the tail of trap_user_handler) or in the window of the scheduler; on hart 1
\* at any time.
DiskIntr(p) ==
  /\ disk[p]
  /\ disk' = [disk EXCEPT ![p] = FALSE]
  /\ state' = Wakeup(state, BufOf(p))
  /\ skips' = SkipsAfter(state')
  /\ \/ UNCHANGED <<proc, pc>>
     \/ proc # None /\ InUser(proc) /\ Goto(proc, "tail")
  /\ UNCHANGED <<table, sleep_space, time_slice, last, left>>

\* timer_interrupt_handler() in user mode.
Tick(p) ==
  /\ InUser(p)
  /\ time_slice' = IF time_slice[p] > 0 THEN [time_slice EXCEPT ![p] = @ - 1] ELSE time_slice
  /\ Goto(p, "tail")
  /\ UNCHANGED <<state, table, sleep_space, last, left, disk, skips>>

\* Mutant: trap_user_handler() without the slice check.
TailKeepsRunning(p) ==
  /\ proc = p
  /\ pc[p] = "tail"
  /\ Goto(p, "user")
  /\ UNCHANGED <<state, table, sleep_space, time_slice, last, left, disk, skips>>

\* The end of trap_user_handler(): give up the hart when the slice is used up.
Tail(p) ==
  /\ proc = p
  /\ pc[p] = "tail"
  /\ \/ /\ time_slice[p] = 0
        /\ time_slice' = [time_slice EXCEPT ![p] = TIME_SLICE]
        /\ Sched(p, [state EXCEPT ![p] = "RUNNABLE"], "expired")
     \/ /\ time_slice[p] # 0
        /\ Goto(p, "user")
        /\ UNCHANGED <<state, time_slice, skips>>
  /\ UNCHANGED <<table, sleep_space, last, left, disk>>

\* fork_return() of a new process, and the return of an expired one: both end in
\* trap_user_return().
ResumeUser(p) ==
  /\ proc = p
  /\ pc[p] \in {"fork_return", "expired"}
  /\ Goto(p, "user")
  /\ UNCHANGED <<state, table, sleep_space, time_slice, last, left, disk, skips>>

Resume(p) == ResumeUser(p) \/ ResumeWait(p) \/ ResumeYield(p) \/ ResumeDisk(p) \/ Tail(p)

Syscall(p) ==
  \/ SysForkFull(p) \/ SysForkNoMemory(p) \/ SysFork(p)
  \/ SysExit(p) \/ SysWait(p) \/ SysSleep(p) \/ SysDisk(p)

Next ==
  \/ Schedule
  \/ \E p \in Procs : Syscall(p) \/ Resume(p) \/ Tick(p) \/ DiskIntr(p)

\* The scheduler and kernel code always go on, and a pending timer interrupt stays
\* pending until hart 0 can take it, hence strong fairness.  Disk interrupts get
\* none: virtio_disk_intr() may acknowledge one that it has not looked at.
Fairness ==
  /\ WF_vars(Schedule)
  /\ \A p \in Procs : WF_vars(Resume(p)) /\ SF_vars(Tick(p))

Spec == Init /\ [][Next]_vars
FairSpec == Spec /\ Fairness
-----------------------------------------------------------------------------
InUse(p) == state[p] # "UNUSED"
InWait(p) == pc[p] = "wait"

\* proc_exit() leaves no orphan: the parent of every process in the table is
\* itself in the table and has not exited, so somebody can still wait for it.
LiveParents ==
  \A p \in Procs \ {proczero} : InUse(p) =>
    parent[p] \in Procs /\ state[parent[p]] \notin {"UNUSED", "ZOMBIE"}

\* No exit is lost: a process asleep in proc_wait() has a child, and none of its
\* children is already dead.  proc_exit() wakes the parent before the ZOMBIE
\* state is set, and an adopted dead child wakes proczero.
NoLostExit ==
  \A p \in Procs : state[p] = "SLEEPING" /\ InWait(p) => Kids(p) # {} /\ DeadKids(p) = {}

\* Round robin: a RUNNABLE process is passed over at most NPROC - 1 times.
BoundedBypass == \A p \in Procs : state[p] = "RUNNABLE" => skips[p] <= NPROC - 1

\* proc_scheduler() only switches to processes whose kernel stack is mapped.
StackMapped == \A p \in Procs : pc[p] # "fault"

\* Every RUNNABLE process is eventually dispatched, however the others behave.
NoStarvation == \A p \in Procs : state[p] = "RUNNABLE" ~> state[p] = "RUNNING"

\* A call that has what it waits for returns to user mode, whatever the disk and
\* the other processes do: sys_sleep() always, sys_wait() once a child is dead, a
\* disk call once virtio_disk_intr() has cleared b->disk and woken it.
CallsReturn ==
  \A p \in Procs :
    \/ pc[p] = "yield"
    \/ InWait(p) /\ DeadKids(p) # {}
    \/ pc[p] = "disk" /\ ~disk[p] /\ state[p] # "SLEEPING"
    ~> InUser(p)
=============================================================================
