------------------------------- MODULE Spinlock -------------------------------
(***************************************************************************)
(* kernel/lib/spinlock.c and the interrupt discipline it keeps on a hart.  *)
(*                                                                         *)
(* Every hart runs kernel code that takes and drops spinlocks; a device or *)
(* timer interrupt may suspend that code whenever sstatus.SIE is set and   *)
(* runs a handler (kernel_vector, trap_kernel_handler) that takes locks of *)
(* its own.  The steps of one hart are those between which another hart or *)
(* a handler on the same hart can see a difference: the loads and stores   *)
(* of lk->locked and lk->cpuid, and the reads and writes of SIE.           *)
(***************************************************************************)
EXTENDS Integers, FiniteSets

CONSTANTS
  Harts,      \* hart identifiers, what mycpuid() returns
  Locks,      \* the spinlocks
  LockOrder,  \* the pairs <<k, l>> such that code holding k may take l
  Kept,       \* the locks a process keeps while it sleeps: buf->slk, ip->slk
  ProcHart    \* the hart that runs processes; the others idle in main()

\* mycpuid() is r_tp(), a natural number; -1 is the cpuid of a free lock.
ASSUME HartsAssumption == Harts \subseteq Nat /\ Harts # {}
ASSUME LocksAssumption == IsFiniteSet(Locks) /\ Locks # {}
ASSUME LockOrderAssumption == LockOrder \subseteq Locks \X Locks

ASSUME KeptAssumption == Kept \subseteq Locks /\ ProcHart \in Harts

\* Locks have levels and are taken from higher to lower ones: no cycle.
ASSUME LockOrderAcyclic ==
  \E level \in [Locks -> 0 .. Cardinality(Locks)] :
    \A x \in LockOrder : level[x[1]] > level[x[2]]

VARIABLES
  locked,     \* lk->locked, per lock
  cpuid,      \* lk->cpuid, per lock
  noff,       \* mycpu()->noff, per hart
  origin,     \* mycpu()->origin, per hart
  intr,       \* sstatus.SIE, per hart
  pc,         \* where the code running on the hart is
  want,       \* the lock argument of the call in progress
  old,        \* push_off's local variable
  saved,      \* the registers kernel_vector saves on a trap
  inHandler,  \* the hart runs an interrupt handler
  held,       \* ghost: the locks acquired on the hart and not yet released
  released,   \* ghost: the locks that have been released at least once
  wish        \* ghost: the last intr_on()/intr_off() made with no lock held

vars == <<locked, cpuid, noff, origin, intr, pc, want, old, saved,
          inHandler, held, released, wish>>

lockVars == <<locked, cpuid>>
ghosts   == <<held, released, wish>>
trapVars == <<saved, inHandler>>

\* "window" is where SIE is set while no code that knows of a lock runs: between
\* the intr_on() and the intr_off() of proc_scheduler(), and user mode.
PCs == {"run", "off", "uartoff", "test", "testcpu", "spin", "mark", "clear", "pop",
        "window", "panic"}

\* What an argument, a local variable and a saved frame are when nothing will
\* read them again.
NoLock  == CHOOSE l \in Locks : TRUE
NoFrame == [pc |-> "run", want |-> NoLock, old |-> FALSE, held |-> {}]

Frames == [pc : PCs, want : Locks, old : BOOLEAN, held : SUBSET Locks]

TypeOK ==
  /\ locked \in [Locks -> BOOLEAN]
  /\ cpuid \in [Locks -> Harts \cup {-1, 0}]
  /\ noff \in [Harts -> Nat]
  /\ origin \in [Harts -> BOOLEAN]
  /\ intr \in [Harts -> BOOLEAN]
  /\ pc \in [Harts -> PCs]
  /\ want \in [Harts -> Locks]
  /\ old \in [Harts -> BOOLEAN]
  /\ saved \in [Harts -> Frames]
  /\ inHandler \in [Harts -> BOOLEAN]
  /\ held \in [Harts -> SUBSET Locks]
  /\ released \in SUBSET Locks
  /\ wish \in [Harts -> BOOLEAN]

-----------------------------------------------------------------------------
\* spinlock_init() of every lock, and each hart at the top of main() with
\* interrupts still off.
Init ==
  /\ locked = [l \in Locks |-> FALSE]
  /\ cpuid = [l \in Locks |-> 0]
  /\ noff = [h \in Harts |-> 0]
  /\ origin = [h \in Harts |-> FALSE]
  /\ intr = [h \in Harts |-> FALSE]
  /\ pc = [h \in Harts |-> "run"]
  /\ want = [h \in Harts |-> NoLock]
  /\ old = [h \in Harts |-> FALSE]
  /\ saved = [h \in Harts |-> NoFrame]
  /\ inHandler = [h \in Harts |-> FALSE]
  /\ held = [h \in Harts |-> {}]
  /\ released = {}
  /\ wish = [h \in Harts |-> FALSE]

\* The locks the code now running on h has taken itself: a handler does not
\* know what the code it suspended holds.
Own(h) == IF inHandler[h] THEN held[h] \ saved[h].held ELSE held[h]

\* spinlock_holding(lk)
Holding(h, l) == locked[l] /\ cpuid[l] = h

\* spinlock_acquire(l), up to the first line of push_off(): old = intr_get().
\* Plain locks are taken in order.  A lock kept across proc_sleep() is taken by
\* processes only, and whatever other processes of the hart keep meanwhile: it
\* may be one that the hart owns already (buf.c:82, inode.c:187).
Acquire(h, l) ==
  /\ pc[h] = "run"
  /\ \A k \in Own(h) \ Kept : <<k, l>> \in LockOrder
  /\ l \in Kept => h = ProcHart /\ ~inHandler[h]
  /\ pc' = [pc EXCEPT ![h] = "off"]
  /\ want' = [want EXCEPT ![h] = l]
  /\ old' = [old EXCEPT ![h] = intr[h]]
  /\ UNCHANGED <<lockVars, noff, origin, intr, trapVars, ghosts>>

\* uart_putc_sync(), which turns interrupts off around one character: the first
\* line of its push_off().
UartPutc(h) ==
  /\ pc[h] = "run"
  /\ pc' = [pc EXCEPT ![h] = "uartoff"]
  /\ old' = [old EXCEPT ![h] = intr[h]]
  /\ UNCHANGED <<lockVars, noff, origin, intr, want, trapVars, ghosts>>

\* Where the caller of push_off() goes on: spinlock_acquire() with its test,
\* uart_putc_sync() with the character and its pop_off().
AfterPushOff(h) == IF pc[h] = "off" THEN "test" ELSE "pop"

\* Mutant: push_off() without its intr_off().
PushOffWithoutIntrOff(h) ==
  /\ pc[h] \in {"off", "uartoff"}
  /\ origin' = IF noff[h] = 0 THEN [origin EXCEPT ![h] = old[h]] ELSE origin
  /\ noff' = [noff EXCEPT ![h] = @ + 1]
  /\ old' = [old EXCEPT ![h] = FALSE]
  /\ pc' = [pc EXCEPT ![h] = AfterPushOff(h)]
  /\ UNCHANGED <<lockVars, intr, want, trapVars, ghosts>>

\* Mutant: push_off() overwriting origin at every level.
PushOffEveryOrigin(h) ==
  /\ pc[h] \in {"off", "uartoff"}
  /\ intr' = [intr EXCEPT ![h] = FALSE]
  /\ origin' = [origin EXCEPT ![h] = old[h]]
  /\ noff' = [noff EXCEPT ![h] = @ + 1]
  /\ old' = [old EXCEPT ![h] = FALSE]
  /\ pc' = [pc EXCEPT ![h] = AfterPushOff(h)]
  /\ UNCHANGED <<lockVars, want, trapVars, ghosts>>

\* Mutant: push_off() that counts only the outermost level.
PushOffOutermost(h) ==
  /\ pc[h] \in {"off", "uartoff"}
  /\ intr' = [intr EXCEPT ![h] = FALSE]
  /\ origin' = IF noff[h] = 0 THEN [origin EXCEPT ![h] = old[h]] ELSE origin
  /\ noff' = [noff EXCEPT ![h] = 1]
  /\ old' = [old EXCEPT ![h] = FALSE]
  /\ pc' = [pc EXCEPT ![h] = AfterPushOff(h)]
  /\ UNCHANGED <<lockVars, want, trapVars, ghosts>>

\* The rest of push_off(): once SIE is clear nothing interleaves on this hart.
PushOff(h) ==
  /\ pc[h] \in {"off", "uartoff"}
  /\ intr' = [intr EXCEPT ![h] = FALSE]
  /\ origin' = IF noff[h] = 0 THEN [origin EXCEPT ![h] = old[h]] ELSE origin
  /\ noff' = [noff EXCEPT ![h] = @ + 1]
  /\ old' = [old EXCEPT ![h] = FALSE]
  /\ pc' = [pc EXCEPT ![h] = AfterPushOff(h)]
  /\ UNCHANGED <<lockVars, want, trapVars, ghosts>>

\* if (spinlock_holding(lk)) panic("acquire"): the load of lk->locked ...
TestLocked(h) ==
  /\ pc[h] = "test"
  /\ pc' = [pc EXCEPT ![h] = IF locked[want[h]] THEN "testcpu" ELSE "spin"]
  /\ UNCHANGED <<lockVars, noff, origin, intr, want, old, trapVars, ghosts>>

\* ... and the load of lk->cpuid.
TestCpuid(h) ==
  /\ pc[h] = "testcpu"
  /\ pc' = [pc EXCEPT ![h] = IF cpuid[want[h]] = h THEN "panic" ELSE "spin"]
  /\ UNCHANGED <<lockVars, noff, origin, intr, want, old, trapVars, ghosts>>

\* Mutant: the loop around the test-and-set taken only once.
SetOnce(h) ==
  /\ pc[h] = "spin"
  /\ locked' = [locked EXCEPT ![want[h]] = TRUE]
  /\ held' = [held EXCEPT ![h] = @ \cup {want[h]}]
  /\ pc' = [pc EXCEPT ![h] = "mark"]
  /\ UNCHANGED <<cpuid, noff, origin, intr, want, old, trapVars, released, wish>>

\* The __sync_lock_test_and_set that returns 0; one that returns 1 changes nothing.
TestAndSet(h) ==
  /\ pc[h] = "spin"
  /\ ~locked[want[h]]
  /\ locked' = [locked EXCEPT ![want[h]] = TRUE]
  /\ held' = [held EXCEPT ![h] = @ \cup {want[h]}]
  /\ pc' = [pc EXCEPT ![h] = "mark"]
  /\ UNCHANGED <<cpuid, noff, origin, intr, want, old, trapVars, released, wish>>

\* lk->cpuid = mycpuid()
Mark(h) ==
  /\ pc[h] = "mark"
  /\ cpuid' = [cpuid EXCEPT ![want[h]] = h]
  /\ pc' = [pc EXCEPT ![h] = "run"]
  /\ want' = [want EXCEPT ![h] = NoLock]
  /\ UNCHANGED <<locked, noff, origin, intr, old, trapVars, ghosts>>

\* Mutant: spinlock_release() that leaves lk->cpuid as it is.
ReleaseKeepsCpuid(h, l) ==
  /\ pc[h] = "run"
  /\ l \in Own(h)
  /\ want' = [want EXCEPT ![h] = l]
  /\ pc' = [pc EXCEPT ![h] = IF Holding(h, l) THEN "clear" ELSE "panic"]
  /\ UNCHANGED <<lockVars, noff, origin, intr, old, trapVars, ghosts>>

\* spinlock_release(l) up to lk->cpuid = -1
Release(h, l) ==
  /\ pc[h] = "run"
  /\ l \in Own(h)
  /\ want' = [want EXCEPT ![h] = l]
  /\ IF Holding(h, l)
     THEN /\ cpuid' = [cpuid EXCEPT ![l] = -1]
          /\ pc' = [pc EXCEPT ![h] = "clear"]
     ELSE /\ pc' = [pc EXCEPT ![h] = "panic"]
          /\ cpuid' = cpuid
  /\ UNCHANGED <<locked, noff, origin, intr, old, trapVars, ghosts>>

\* __sync_lock_release(&lk->locked)
Clear(h) ==
  /\ pc[h] = "clear"
  /\ locked' = [locked EXCEPT ![want[h]] = FALSE]
  /\ held' = [held EXCEPT ![h] = @ \ {want[h]}]
  /\ released' = released \cup {want[h]}
  /\ pc' = [pc EXCEPT ![h] = "pop"]
  /\ want' = [want EXCEPT ![h] = NoLock]
  /\ UNCHANGED <<cpuid, noff, origin, intr, old, trapVars, wish>>

\* Mutant: a second pop_off() on the way out of spinlock_release().
PopOffTwice(h) ==
  /\ pc[h] = "pop"
  /\ noff' = [noff EXCEPT ![h] = @ - 2]
  /\ pc' = [pc EXCEPT ![h] = "run"]
  /\ UNCHANGED <<lockVars, intr, origin, want, old, trapVars, ghosts>>

\* pop_off(): its two panics, then the decrement and the conditional intr_on().
PopOff(h) ==
  /\ pc[h] = "pop"
  /\ IF intr[h] \/ noff[h] < 1
     THEN /\ pc' = [pc EXCEPT ![h] = "panic"]
          /\ UNCHANGED <<noff, intr>>
     ELSE /\ noff' = [noff EXCEPT ![h] = @ - 1]
          /\ intr' = IF noff[h] = 1 /\ origin[h] THEN [intr EXCEPT ![h] = TRUE] ELSE intr
          /\ pc' = [pc EXCEPT ![h] = "run"]
  /\ UNCHANGED <<lockVars, origin, want, old, trapVars, ghosts>>

\* An interrupt: the hart clears SIE and kernel_vector saves the registers.
Trap(h) ==
  /\ intr[h]
  /\ ~inHandler[h]
  /\ pc[h] # "panic"
  /\ inHandler' = [inHandler EXCEPT ![h] = TRUE]
  /\ saved' = [saved EXCEPT ![h] = [pc |-> pc[h], want |-> want[h],
                                    old |-> old[h], held |-> held[h]]]
  /\ intr' = [intr EXCEPT ![h] = FALSE]
  /\ pc' = [pc EXCEPT ![h] = "run"]
  /\ want' = [want EXCEPT ![h] = NoLock]
  /\ old' = [old EXCEPT ![h] = FALSE]
  /\ UNCHANGED <<lockVars, noff, origin, ghosts>>

\* The end of trap_kernel_handler and sret, which sets SIE from SPIE again.
TrapReturn(h) ==
  /\ inHandler[h]
  /\ pc[h] = "run"
  /\ Own(h) = {}
  /\ inHandler' = [inHandler EXCEPT ![h] = FALSE]
  /\ intr' = [intr EXCEPT ![h] = TRUE]
  /\ pc' = [pc EXCEPT ![h] = saved[h].pc]
  /\ want' = [want EXCEPT ![h] = saved[h].want]
  /\ old' = [old EXCEPT ![h] = saved[h].old]
  /\ saved' = [saved EXCEPT ![h] = NoFrame]
  /\ UNCHANGED <<lockVars, noff, origin, ghosts>>

\* intr_on() of main(), before any process runs: code that takes locks goes on
\* with SIE set (the idle loop of the other harts; proc_make_first()).
IntrOn(h) ==
  /\ pc[h] = "run"
  /\ ~inHandler[h]
  /\ held[h] = {}
  /\ intr' = [intr EXCEPT ![h] = TRUE]
  /\ wish' = [wish EXCEPT ![h] = TRUE]
  /\ UNCHANGED <<lockVars, noff, origin, pc, want, old, trapVars, held, released>>

\* Mutant: a process that goes to sleep with a lock of its own not released.
OpenWindowUnderLock(h) ==
  /\ h = ProcHart
  /\ pc[h] = "run"
  /\ ~inHandler[h]
  /\ intr' = [intr EXCEPT ![h] = TRUE]
  /\ pc' = [pc EXCEPT ![h] = "window"]
  /\ UNCHANGED <<lockVars, noff, origin, want, old, trapVars, ghosts>>

\* intr_on() at the top of proc_scheduler()'s loop, which swtch() reaches with
\* the locks a sleeping process keeps (proc_sched() no longer looks at noff), and
\* the sret of a process that returns to user mode meanwhile.
OpenWindow(h) ==
  /\ h = ProcHart
  /\ pc[h] = "run"
  /\ ~inHandler[h]
  /\ held[h] \subseteq Kept
  /\ intr' = [intr EXCEPT ![h] = TRUE]
  /\ pc' = [pc EXCEPT ![h] = "window"]
  /\ UNCHANGED <<lockVars, noff, origin, want, old, trapVars, ghosts>>

\* The intr_off() that follows in proc_scheduler(), and the trap out of user mode.
CloseWindow(h) ==
  /\ pc[h] = "window"
  /\ intr' = [intr EXCEPT ![h] = FALSE]
  /\ wish' = IF held[h] = {} THEN [wish EXCEPT ![h] = FALSE] ELSE wish
  /\ pc' = [pc EXCEPT ![h] = "run"]
  /\ UNCHANGED <<lockVars, noff, origin, want, old, trapVars, held, released>>

Step(h) ==
  \/ PushOff(h) \/ TestLocked(h) \/ TestCpuid(h) \/ TestAndSet(h) \/ Mark(h)
  \/ Clear(h) \/ PopOff(h)

Next ==
  \E h \in Harts :
    \/ Step(h)
    \/ \E l \in Locks : Acquire(h, l) \/ Release(h, l)
    \/ UartPutc(h)
    \/ Trap(h)
    \/ TrapReturn(h)
    \/ IntrOn(h)
    \/ OpenWindow(h)
    \/ CloseWindow(h)

Spec == Init /\ [][Next]_vars

-----------------------------------------------------------------------------
Panicked(h) == pc[h] = "panic"

\* A hart between push_off() and the moment noff and held agree again.
Pending(h) == pc[h] \in {"test", "testcpu", "spin", "pop"}

\* Two harts never both think they own the same lock, at any point between the
\* test-and-set of spinlock_acquire() and the store of spinlock_release().
MutualExclusion ==
  \A h, g \in Harts : h # g => held[h] \cap held[g] = {}

\* Interrupts are on under a lock only in the window of proc_scheduler() or in
\* user mode, and then the locks are those that sleeping processes keep: no
\* handler ever runs on top of a critical section of its own hart, and the locks
\* it finds taken on its hart are none that a handler takes.
InterruptsOffWhileHolding ==
  \A h \in Harts :
    /\ intr[h] /\ held[h] # {} => pc[h] = "window" /\ held[h] \subseteq Kept
    /\ inHandler[h] /\ saved[h].held # {} =>
         saved[h].pc = "window" /\ saved[h].held \subseteq Kept

\* mycpu()->noff is the number of locks the hart owns, those of its sleeping
\* processes included, plus the one push_off()/pop_off() that is under way: never
\* one more (the hart would stay uninterruptible) and never one less (pop_off()
\* would panic).
NoffCountsLocks ==
  \A h \in Harts : ~Panicked(h) =>
    noff[h] = Cardinality(held[h]) + (IF Pending(h) THEN 1 ELSE 0)

\* Once a hart has dropped all its locks SIE is what its code last asked for
\* without one, however the critical sections, the handlers and the windows of
\* the scheduler in between were nested.
InterruptsRestored ==
  \A h \in Harts :
    ~inHandler[h] /\ pc[h] \in {"run", "off", "uartoff"} /\ held[h] = {}
      => intr[h] = wish[h]

\* h spins on a lock that was taken on g.
WaitsFor(h, g) == pc[h] = "spin" /\ want[h] \in held[g]

\* No group of harts spins on locks of one another: neither across harts, nor
\* through a handler that suspended other code, nor a hart on a lock it owns
\* itself (taking a kept lock twice panics, it never spins).
NoWaitCycle ==
  \A S \in (SUBSET Harts) \ {{}} : \E h \in S : \A g \in S : ~WaitsFor(h, g)

\* The panics of spinlock.c are reached in spinlock_acquire() alone: on a lock that
\* another process of the hart keeps while it sleeps, or on a lock nobody has
\* released yet, whose cpuid is still the 0 of spinlock_init().
PanicOnlyOnKeptOrFirstUse ==
  [][\A h \in Harts : ~Panicked(h) /\ Panicked(h)' =>
       /\ pc[h] = "testcpu"
       /\ want[h] \in Kept \cap held[h] \/ want[h] \notin released]_vars
=============================================================================
