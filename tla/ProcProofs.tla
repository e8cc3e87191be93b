----------------------------- MODULE ProcProofs -----------------------------
(***************************************************************************)
(* Proofs about Proc, for any size of the process table, any number of     *)
(* mapped kernel stacks and any time slice.                                *)
(***************************************************************************)
EXTENDS Proc, NaturalsInduction, WellFoundedInduction, TLAPS

\* Hart 0 runs the process that mycpu()->proc names, and no other is RUNNING.
CurrentRuns == \A p \in Procs : state[p] = "RUNNING" <=> proc = p

\* proczero is there for ever to adopt orphans, and has no parent itself.
ZeroLives == state[proczero] \notin {"UNUSED", "ZOMBIE"} /\ parent[proczero] = None

\* A slot that proc_free() has given back is nobody's child.
FreeHasNoParent == \A p \in Procs : state[p] = "UNUSED" => parent[p] = None

\* A sleeper is in proc_wait(), on its own address, or in a disk wait.
SleepersWait ==
  \A p \in Procs : state[p] = "SLEEPING" =>
    pc[p] \in {"wait", "disk"} /\ (pc[p] = "wait" => sleep_space[p] = p)

\* The slots the scan of proc_scheduler() looks at before it comes to p.
Dist(p) == IF p > last THEN p - last - 1 ELSE p - last - 1 + NPROC

\* Each time p is passed over, the scan's starting point comes closer to it.
BypassBudget ==
  \A p \in Procs : state[p] = "RUNNABLE" => skips[p] + Dist(p) <= NPROC - 1

\* The inductive invariant.
IInv ==
  /\ TypeOK
  /\ CurrentRuns
  /\ ZeroLives
  /\ FreeHasNoParent
  /\ SleepersWait
  /\ LiveParents
  /\ NoLostExit
  /\ BypassBudget

-----------------------------------------------------------------------------
(* The operators of Proc.                                                  *)

\* A scan of the table for the lowest slot with some property finds one.
LEMMA Lowest ==
  ASSUME NEW S \in SUBSET Nat, S # {}
  PROVE  \E n \in S : \A m \in S : n <= m
<1>1. PICK n \in S : \A m \in S : ~(<<m, n>> \in OpToRel(<, Nat))
  BY NatLessThanWellFounded, WFMin
<1>2. \A m \in S : <<m, n>> \in Nat \X Nat /\ (m < n => <<m, n>> \in OpToRel(<, Nat))
  BY DEF OpToRel
<1>3. \A m \in S : ~(m < n)
  BY <1>1, <1>2, Zenon
<1> QED
  BY <1>3

\* proc_alloc() finds an UNUSED slot if there is one.
LEMMA FreeSlotFound ==
  ASSUME TypeOK, \E c \in Procs : state[c] = "UNUSED"
  PROVE  FreeSlot \in Procs /\ state[FreeSlot] = "UNUSED"
<1> DEFINE S == {c \in Procs : state[c] = "UNUSED"}
<1>1. S \in SUBSET Nat /\ S # {}
  BY NPROCAssumption DEF Procs
<1>2. PICK c \in S : \A d \in S : c <= d
  BY <1>1, Lowest
<1>3. \A d \in 0 .. c - 1 : state[d] # "UNUSED"
  BY <1>2, NPROCAssumption DEF Procs
<1> QED
  BY <1>2, <1>3 DEF FreeSlot

\* proc_wait() finds a dead child if there is one.
LEMMA FirstDeadFound ==
  ASSUME NEW p \in Procs, DeadKids(p) # {}
  PROVE  FirstDead(p) \in DeadKids(p)
<1>1. DeadKids(p) \in SUBSET Nat
  BY NPROCAssumption DEF DeadKids, Kids, Procs
<1>2. PICK c \in DeadKids(p) : \A d \in DeadKids(p) : c <= d
  BY <1>1, Lowest
<1> QED
  BY <1>2 DEF FirstDead

\* The ring order of the scan: without the modulus ...
LEMMA RingMod ==
  ASSUME NEW a \in 0 .. 2 * NPROC - 1
  PROVE  a % NPROC = IF a < NPROC THEN a ELSE a - NPROC
  BY NPROCAssumption

\* ... p is the slot looked at after Dist(p) others, and only then.
LEMMA ScanReaches ==
  ASSUME TypeOK
  PROVE  /\ last \in -1 .. NPROC - 1
         /\ \A p \in Procs : Dist(p) \in 0 .. NPROC - 1 /\ Scan(Dist(p)) = p
         /\ \A i \in 0 .. NPROC - 1 : Scan(i) \in Procs /\ Dist(Scan(i)) = i
<1>1. last \in -1 .. NPROC - 1
  BY NPROCAssumption DEF TypeOK, Procs
<1>2. ASSUME NEW i \in 0 .. NPROC - 1
      PROVE  Scan(i) = IF last + 1 + i < NPROC THEN last + 1 + i ELSE last + 1 + i - NPROC
  BY <1>1, RingMod, NPROCAssumption DEF Scan
<1> QED
  BY <1>1, <1>2, NPROCAssumption DEF Dist, Procs

\* proc_scheduler() picks the RUNNABLE process closest after the last one.
LEMMA PickedFirst ==
  ASSUME TypeOK, \E p \in Procs : state[p] = "RUNNABLE"
  PROVE  /\ Picked \in Procs
         /\ state[Picked] = "RUNNABLE"
         /\ \A q \in Procs : state[q] = "RUNNABLE" => Dist(Picked) <= Dist(q)
<1> DEFINE D == {Dist(q) : q \in {r \in Procs : state[r] = "RUNNABLE"}}
           First(p, i) == /\ p = Scan(i)
                          /\ state[p] = "RUNNABLE"
                          /\ \A j \in 0 .. i - 1 : state[Scan(j)] # "RUNNABLE"
<1>1. D \in SUBSET Nat /\ D # {}
  BY ScanReaches, NPROCAssumption
<1>2. PICK p \in Procs : state[p] = "RUNNABLE" /\ \A d \in D : Dist(p) <= d
  BY <1>1, Lowest
<1>3. \A j \in 0 .. Dist(p) - 1 : state[Scan(j)] # "RUNNABLE"
  <2> SUFFICES ASSUME NEW j \in 0 .. Dist(p) - 1, state[Scan(j)] = "RUNNABLE" PROVE FALSE
    OBVIOUS
  <2>1. j \in 0 .. NPROC - 1 /\ Dist(p) \in Int
    BY ScanReaches, NPROCAssumption
  <2>2. Scan(j) \in Procs /\ Dist(Scan(j)) = j
    BY <2>1, ScanReaches
  <2> QED
    BY <1>2, <2>1, <2>2
<1>4. \E x \in Procs : \E i \in 0 .. NPROC - 1 : First(x, i)
  BY <1>2, <1>3, ScanReaches
<1>5. PICK i \in 0 .. NPROC - 1 : First(Picked, i)
  BY <1>4 DEF Picked
<1>6. Picked \in Procs /\ Dist(Picked) = i
  BY <1>5, ScanReaches
<1>7. ASSUME NEW q \in Procs, state[q] = "RUNNABLE" PROVE i <= Dist(q)
  <2>1. Dist(q) \in 0 .. NPROC - 1 /\ Scan(Dist(q)) = q
    BY ScanReaches
  <2> QED
    BY <1>5, <1>7, <2>1, NPROCAssumption
<1> QED
  BY <1>5, <1>6, <1>7
-----------------------------------------------------------------------------
\* The type invariant holds after proc_init() and proc_make_first().
LEMMA TypeInit == Init => TypeOK
  BY NPROCAssumption, TimeSliceAssumption
  DEF Init, TypeOK, Procs, States, PCs, None, proczero

\* Each step of proc.c keeps it.
LEMMA TypeNext == TypeOK /\ [Next]_vars => TypeOK'
<1> SUFFICES ASSUME TypeOK, [Next]_vars PROVE TypeOK'
  OBVIOUS
<1> USE NPROCAssumption, TimeSliceAssumption DEF TypeOK, States, PCs, table
<1>1. ASSUME Schedule PROVE TypeOK'
  BY <1>1, PickedFirst DEF Schedule
<1>2. ASSUME NEW p \in Procs, SysForkFull(p) PROVE TypeOK'
  BY <1>2 DEF SysForkFull, Goto
<1>3. ASSUME NEW p \in Procs, SysForkNoMemory(p) PROVE TypeOK'
  BY <1>3 DEF SysForkNoMemory, Goto
<1>4. ASSUME NEW p \in Procs, SysFork(p) PROVE TypeOK'
  BY <1>4, FreeSlotFound DEF SysFork, SkipsAfter
<1>5. ASSUME NEW p \in Procs, SysExit(p) PROVE TypeOK'
  <2>1. ReparentWakeup(p) \in [Procs -> States]
    BY DEF ReparentWakeup, Wakeup
  <2>2. Wakeup(ReparentWakeup(p), parent[p]) \in [Procs -> States]
    BY <2>1 DEF Wakeup
  <2>3. state' \in [Procs -> States] /\ skips' \in [Procs -> Nat]
    BY <1>5, <2>2 DEF SysExit, Sched, SkipsAfter
  <2>4. parent' \in [Procs -> Procs \cup {None}]
    BY <1>5 DEF SysExit, Reparented, proczero, Procs
  <2> QED
    BY <1>5, <2>3, <2>4 DEF SysExit, Sched
<1>6. ASSUME NEW p \in Procs, WaitLoop(p), UNCHANGED <<last, left, disk>> PROVE TypeOK'
  BY <1>6, FirstDeadFound DEF WaitLoop, Free, Goto, Sched, SkipsAfter, DeadKids, Kids
<1>7. ASSUME NEW p \in Procs, NEW n \in Nat, Yield(p, n) PROVE TypeOK'
  BY <1>7 DEF Yield, Sched, SkipsAfter
<1>8. ASSUME NEW p \in Procs, SysSleep(p) PROVE TypeOK'
  <2>1. \A n \in 1 .. MaxSleep : n - 1 \in Nat
    BY BoundsAssumption
  <2> QED
    BY <1>7, <1>8, <2>1 DEF SysSleep, Goto
<1>9. ASSUME NEW p \in Procs, ResumeYield(p) PROVE TypeOK'
  BY <1>7, <1>9 DEF ResumeYield, Goto
<1>10. ASSUME NEW p \in Procs, SysDisk(p) PROVE TypeOK'
  BY <1>10 DEF SysDisk, DiskSleep, Sched, SkipsAfter
<1>11. ASSUME NEW p \in Procs, ResumeDisk(p) PROVE TypeOK'
  <2>1. CASE DiskSleep(p)
    BY <1>11, <2>1 DEF ResumeDisk, DiskSleep, Sched, SkipsAfter
  <2>2. CASE ~DiskSleep(p)
    BY <1>11, <2>2 DEF ResumeDisk, Goto
  <2> QED
    BY <2>1, <2>2
<1>12. ASSUME NEW p \in Procs, DiskIntr(p) PROVE TypeOK'
  BY <1>12 DEF DiskIntr, Wakeup, SkipsAfter, Goto
<1>13. ASSUME NEW p \in Procs, Tick(p) PROVE TypeOK'
  BY <1>13 DEF Tick, Goto
<1>14. ASSUME NEW p \in Procs, Tail(p) PROVE TypeOK'
  BY <1>14 DEF Tail, Sched, SkipsAfter, Goto
<1>15. ASSUME NEW p \in Procs, ResumeUser(p) PROVE TypeOK'
  BY <1>15 DEF ResumeUser, Goto
<1>16. CASE UNCHANGED vars
  BY <1>16 DEF vars
<1> QED
  BY <1>1, <1>2, <1>3, <1>4, <1>5, <1>6, <1>8, <1>9, <1>10, <1>11, <1>12, <1>13,
     <1>14, <1>15, <1>16 DEF Next, Syscall, Resume, SysWait, ResumeWait

\* Every variable of proc.c keeps its type: in particular proc, parent and the
\* slots that the scans of the table stop at are slots of the table.
THEOREM TypeCorrect == Spec => []TypeOK
  BY TypeInit, TypeNext, PTL DEF Spec
-----------------------------------------------------------------------------
(* The process tree.                                                       *)

\* Slots are numbers from 0 on, so NULL is none of them.
LEMMA ZeroInTable == proczero \in Procs /\ None \notin Procs
  BY NPROCAssumption DEF proczero, Procs, None

\* mycpu()->proc and the RUNNING state change together.
LEMMA CurrentNext == TypeOK /\ CurrentRuns /\ [Next]_vars => CurrentRuns'
<1> SUFFICES ASSUME TypeOK, CurrentRuns, [Next]_vars PROVE CurrentRuns'
  OBVIOUS
<1> USE ZeroInTable DEF TypeOK, CurrentRuns, table, InUser
<1>1. ASSUME Schedule PROVE CurrentRuns'
  BY <1>1, PickedFirst DEF Schedule
<1>2. ASSUME NEW p \in Procs, SysForkFull(p) PROVE CurrentRuns'
  BY <1>2 DEF SysForkFull, Goto
<1>3. ASSUME NEW p \in Procs, SysForkNoMemory(p) PROVE CurrentRuns'
  BY <1>3 DEF SysForkNoMemory, Goto
<1>4. ASSUME NEW p \in Procs, SysFork(p) PROVE CurrentRuns'
  BY <1>4, FreeSlotFound DEF SysFork
<1>5. ASSUME NEW p \in Procs, SysExit(p) PROVE CurrentRuns'
  BY <1>5 DEF SysExit, Sched, Reparented, Kids, ReparentWakeup, Wakeup
<1>6. ASSUME NEW p \in Procs, proc = p, WaitLoop(p) PROVE CurrentRuns'
  BY <1>6, FirstDeadFound DEF WaitLoop, Free, Goto, Sched, DeadKids, Kids
<1>7. ASSUME NEW p \in Procs, SysSleep(p) PROVE CurrentRuns'
  BY <1>7 DEF SysSleep, Yield, Sched, Goto
<1>8. ASSUME NEW p \in Procs, ResumeYield(p) PROVE CurrentRuns'
  BY <1>8 DEF ResumeYield, Yield, Sched, Goto
<1>9. ASSUME NEW p \in Procs, SysDisk(p) PROVE CurrentRuns'
  BY <1>9 DEF SysDisk, DiskSleep, Sched
<1>10. ASSUME NEW p \in Procs, ResumeDisk(p) PROVE CurrentRuns'
  BY <1>10 DEF ResumeDisk, DiskSleep, Sched, Goto
<1>11. ASSUME NEW p \in Procs, DiskIntr(p) PROVE CurrentRuns'
  BY <1>11 DEF DiskIntr, Wakeup, Goto
<1>12. ASSUME NEW p \in Procs, Tick(p) PROVE CurrentRuns'
  BY <1>12 DEF Tick, Goto
<1>13. ASSUME NEW p \in Procs, Tail(p) PROVE CurrentRuns'
  BY <1>13 DEF Tail, Sched, Goto
<1>14. ASSUME NEW p \in Procs, ResumeUser(p) PROVE CurrentRuns'
  BY <1>14 DEF ResumeUser, Goto
<1>15. CASE UNCHANGED vars
  BY <1>15 DEF vars
<1> QED
  BY <1>1, <1>2, <1>3, <1>4, <1>5, <1>6, <1>7, <1>8, <1>9, <1>10, <1>11, <1>12, <1>13, <1>14, <1>15
  DEF Next, Syscall, Resume, SysWait, ResumeWait, InUser

\* The process tree as proc_wait() needs it.
Family == ZeroLives /\ FreeHasNoParent /\ LiveParents

\* fork, exit, wait and all other steps keep the tree.
LEMMA FamilyNext == TypeOK /\ CurrentRuns /\ Family /\ [Next]_vars => Family'
<1> SUFFICES ASSUME TypeOK, CurrentRuns, Family, [Next]_vars PROVE Family'
  OBVIOUS
<1> USE ZeroInTable DEF TypeOK, CurrentRuns, table, InUser, Family, ZeroLives, FreeHasNoParent,
             LiveParents, InUse
<1>1. ASSUME Schedule PROVE Family'
  BY <1>1, PickedFirst DEF Schedule
<1>2. ASSUME NEW p \in Procs, SysForkFull(p) PROVE Family'
  BY <1>2 DEF SysForkFull, Goto
<1>3. ASSUME NEW p \in Procs, SysForkNoMemory(p) PROVE Family'
  BY <1>3 DEF SysForkNoMemory, Goto
<1>4. ASSUME NEW p \in Procs, SysFork(p) PROVE Family'
  BY <1>4, FreeSlotFound DEF SysFork
<1>5. ASSUME NEW p \in Procs, SysExit(p) PROVE Family'
  BY <1>5 DEF SysExit, Sched, Reparented, Kids, ReparentWakeup, Wakeup
<1>6. ASSUME NEW p \in Procs, proc = p, WaitLoop(p) PROVE Family'
  BY <1>6, FirstDeadFound DEF WaitLoop, Free, Goto, Sched, DeadKids, Kids
<1>7. ASSUME NEW p \in Procs, SysSleep(p) PROVE Family'
  BY <1>7 DEF SysSleep, Yield, Sched, Goto
<1>8. ASSUME NEW p \in Procs, ResumeYield(p) PROVE Family'
  BY <1>8 DEF ResumeYield, Yield, Sched, Goto
<1>9. ASSUME NEW p \in Procs, SysDisk(p) PROVE Family'
  BY <1>9 DEF SysDisk, DiskSleep, Sched
<1>10. ASSUME NEW p \in Procs, ResumeDisk(p) PROVE Family'
  BY <1>10 DEF ResumeDisk, DiskSleep, Sched, Goto
<1>11. ASSUME NEW p \in Procs, DiskIntr(p) PROVE Family'
  BY <1>11 DEF DiskIntr, Wakeup, Goto
<1>12. ASSUME NEW p \in Procs, Tick(p) PROVE Family'
  BY <1>12 DEF Tick, Goto
<1>13. ASSUME NEW p \in Procs, Tail(p) PROVE Family'
  BY <1>13 DEF Tail, Sched, Goto
<1>14. ASSUME NEW p \in Procs, ResumeUser(p) PROVE Family'
  BY <1>14 DEF ResumeUser, Goto
<1>15. CASE UNCHANGED vars
  BY <1>15 DEF vars
<1> QED
  BY <1>1, <1>2, <1>3, <1>4, <1>5, <1>6, <1>7, <1>8, <1>9, <1>10, <1>11, <1>12, <1>13, <1>14, <1>15
  DEF Next, Syscall, Resume, SysWait, ResumeWait, InUser

-----------------------------------------------------------------------------
(* Exits and waits.                                                        *)

\* What proc_wait() relies on: a sleeper can be woken, and no exit of a child
\* has passed it by.
Waits == SleepersWait /\ NoLostExit

\* No step loses an exit: SysExit wakes whoever sleeps in proc_wait() and gets a
\* dead child by it, and proc_wait() sleeps only without one.
LEMMA WaitsNext == TypeOK /\ CurrentRuns /\ Family /\ Waits /\ [Next]_vars => Waits'
<1> SUFFICES ASSUME TypeOK, CurrentRuns, Family, Waits, [Next]_vars PROVE Waits'
  OBVIOUS
<1> USE ZeroInTable DEF TypeOK, CurrentRuns, table, InUser, Waits, SleepersWait, NoLostExit,
             InWait, DeadKids, Kids
<1>1. ASSUME Schedule PROVE Waits'
  BY <1>1, PickedFirst DEF Schedule
<1>2. ASSUME NEW p \in Procs, SysForkFull(p) PROVE Waits'
  BY <1>2 DEF SysForkFull, Goto
<1>3. ASSUME NEW p \in Procs, SysForkNoMemory(p) PROVE Waits'
  BY <1>3 DEF SysForkNoMemory, Goto
<1>4. ASSUME NEW p \in Procs, SysFork(p) PROVE Waits'
  BY <1>4, FreeSlotFound DEF SysFork, Family, FreeHasNoParent
<1>5. ASSUME NEW p \in Procs, SysExit(p) PROVE Waits'
  BY <1>5 DEF SysExit, Sched, Reparented, Kids, ReparentWakeup, Wakeup
<1>6. ASSUME NEW p \in Procs, proc = p, WaitLoop(p) PROVE Waits'
  BY <1>6, FirstDeadFound DEF WaitLoop, Free, Goto, Sched
<1>7. ASSUME NEW p \in Procs, SysSleep(p) PROVE Waits'
  BY <1>7 DEF SysSleep, Yield, Sched, Goto
<1>8. ASSUME NEW p \in Procs, ResumeYield(p) PROVE Waits'
  BY <1>8 DEF ResumeYield, Yield, Sched, Goto
<1>9. ASSUME NEW p \in Procs, SysDisk(p) PROVE Waits'
  BY <1>9 DEF SysDisk, DiskSleep, Sched
<1>10. ASSUME NEW p \in Procs, ResumeDisk(p) PROVE Waits'
  BY <1>10 DEF ResumeDisk, DiskSleep, Sched, Goto
<1>11. ASSUME NEW p \in Procs, DiskIntr(p) PROVE Waits'
  BY <1>11 DEF DiskIntr, Wakeup, Goto
<1>12. ASSUME NEW p \in Procs, Tick(p) PROVE Waits'
  BY <1>12 DEF Tick, Goto
<1>13. ASSUME NEW p \in Procs, Tail(p) PROVE Waits'
  BY <1>13 DEF Tail, Sched, Goto
<1>14. ASSUME NEW p \in Procs, ResumeUser(p) PROVE Waits'
  BY <1>14 DEF ResumeUser, Goto
<1>15. CASE UNCHANGED vars
  BY <1>15 DEF vars
<1> QED
  BY <1>1, <1>2, <1>3, <1>4, <1>5, <1>6, <1>7, <1>8, <1>9, <1>10, <1>11, <1>12, <1>13, <1>14, <1>15
  DEF Next, Syscall, Resume, SysWait, ResumeWait, InUser

-----------------------------------------------------------------------------
(* Round robin.                                                            *)

\* A step other than a dispatch: the scan's start stays, and skips is restarted
\* or kept for whoever is RUNNABLE afterwards.
NoDispatch ==
  /\ last' = last
  /\ \A q \in Procs : state'[q] = "RUNNABLE" =>
       skips'[q] = 0 \/ (state[q] = "RUNNABLE" /\ skips'[q] = skips[q])

\* Every step but Schedule is one.
LEMMA OthersDoNotDispatch ==
  TypeOK /\ CurrentRuns /\ [Next]_vars => Schedule \/ NoDispatch
<1> SUFFICES ASSUME TypeOK, CurrentRuns, [Next]_vars, ~Schedule PROVE NoDispatch
  OBVIOUS
<1> USE ZeroInTable DEF TypeOK, CurrentRuns, table, InUser, NoDispatch, SkipsAfter
<1>1. ASSUME NEW p \in Procs, SysForkFull(p) PROVE NoDispatch
  BY <1>1 DEF SysForkFull, Goto
<1>2. ASSUME NEW p \in Procs, SysForkNoMemory(p) PROVE NoDispatch
  BY <1>2 DEF SysForkNoMemory, Goto
<1>3. ASSUME NEW p \in Procs, SysFork(p) PROVE NoDispatch
  BY <1>3, FreeSlotFound DEF SysFork
<1>4. ASSUME NEW p \in Procs, SysExit(p) PROVE NoDispatch
  BY <1>4 DEF SysExit, Sched, Reparented, Kids, ReparentWakeup, Wakeup
<1>5. ASSUME NEW p \in Procs, proc = p, WaitLoop(p), last' = last PROVE NoDispatch
  BY <1>5, FirstDeadFound DEF WaitLoop, Free, Goto, Sched, DeadKids, Kids
<1>6. ASSUME NEW p \in Procs, SysSleep(p) PROVE NoDispatch
  BY <1>6 DEF SysSleep, Yield, Sched, Goto
<1>7. ASSUME NEW p \in Procs, ResumeYield(p) PROVE NoDispatch
  BY <1>7 DEF ResumeYield, Yield, Sched, Goto
<1>8. ASSUME NEW p \in Procs, SysDisk(p) PROVE NoDispatch
  BY <1>8 DEF SysDisk, DiskSleep, Sched
<1>9. ASSUME NEW p \in Procs, ResumeDisk(p) PROVE NoDispatch
  BY <1>9 DEF ResumeDisk, DiskSleep, Sched, Goto
<1>10. ASSUME NEW p \in Procs, DiskIntr(p) PROVE NoDispatch
  BY <1>10 DEF DiskIntr, Wakeup, Goto
<1>11. ASSUME NEW p \in Procs, Tick(p) PROVE NoDispatch
  BY <1>11 DEF Tick, Goto
<1>12. ASSUME NEW p \in Procs, Tail(p) PROVE NoDispatch
  BY <1>12 DEF Tail, Sched, Goto
<1>13. ASSUME NEW p \in Procs, ResumeUser(p) PROVE NoDispatch
  BY <1>13 DEF ResumeUser, Goto
<1>14. CASE UNCHANGED vars
  BY <1>14 DEF vars
<1> QED
  BY <1>1, <1>2, <1>3, <1>4, <1>5, <1>6, <1>7, <1>8, <1>9, <1>10, <1>11, <1>12, <1>13, <1>14
  DEF Next, Syscall, Resume, SysWait, ResumeWait

\* A dispatch of another process costs p one of its budget and brings the scan
\* at least one slot closer to it.
LEMMA BypassNext == TypeOK /\ CurrentRuns /\ BypassBudget /\ [Next]_vars => BypassBudget'
<1> SUFFICES ASSUME TypeOK, TypeOK', CurrentRuns, BypassBudget, Schedule \/ NoDispatch,
                    NEW q \in Procs, state'[q] = "RUNNABLE"
             PROVE  skips'[q] + Dist(q)' <= NPROC - 1
  BY TypeNext, OthersDoNotDispatch DEF BypassBudget
<1> USE NPROCAssumption
<1>1. CASE NoDispatch
  <2>1. Dist(q)' = Dist(q) /\ Dist(q) \in 0 .. NPROC - 1
    BY <1>1, ScanReaches DEF NoDispatch, Dist
  <2> QED
    BY <1>1, <2>1 DEF NoDispatch, BypassBudget, TypeOK
<1>2. CASE Schedule
  <2> DEFINE p == Picked
  <2>1. /\ p \in Procs /\ p # q /\ state[q] = "RUNNABLE"
        /\ Dist(p) <= Dist(q)
        /\ last' = p /\ skips'[q] = skips[q] + 1
    BY <1>2, PickedFirst DEF Schedule, TypeOK
  <2>2. skips[q] \in Nat /\ skips[q] + Dist(q) <= NPROC - 1
    BY <2>1 DEF BypassBudget, TypeOK
  <2>3. Dist(q)' <= Dist(q) - 1
    <3> HIDE DEF p
    <3>1. last \in -1 .. NPROC - 1
      BY ScanReaches
    <3>2. Dist(q)' = IF q > p THEN q - p - 1 ELSE q - p - 1 + NPROC
      BY <2>1 DEF Dist
    <3> QED
      BY <2>1, <3>1, <3>2 DEF Dist, Procs
  <2>4. Dist(q) \in Int /\ Dist(q)' \in Int
    BY ScanReaches, <2>1, <2>3 DEF Dist, TypeOK, Procs
  <2> QED
    BY <2>1, <2>2, <2>3, <2>4
<1> QED
  BY <1>1, <1>2

-----------------------------------------------------------------------------
(* The results.                                                            *)

\* proc_init() and proc_make_first() establish the invariant.
LEMMA IInvInit == Init => IInv
<1> SUFFICES ASSUME Init PROVE IInv
  OBVIOUS
<1>1. CurrentRuns /\ ZeroLives /\ FreeHasNoParent /\ SleepersWait /\ LiveParents /\ NoLostExit
  BY ZeroInTable DEF Init, CurrentRuns, ZeroLives, FreeHasNoParent, SleepersWait, LiveParents,
                     NoLostExit, InUse
<1>2. BypassBudget
  BY NPROCAssumption DEF Init, BypassBudget, Dist, Procs
<1> QED
  BY <1>1, <1>2, TypeInit DEF IInv

\* IInv is an inductive invariant of Spec.
THEOREM Inductive == Spec => []IInv
<1>1. IInv /\ [Next]_vars => IInv'
  BY TypeNext, CurrentNext, FamilyNext, WaitsNext, BypassNext DEF IInv, Family, Waits
<1> QED
  BY <1>1, IInvInit, PTL DEF Spec

\* proc_exit() leaves no orphan, for any number of processes: the parent of a
\* process in the table is in the table and has not exited.
THEOREM ParentsLive == Spec => []LiveParents
<1>1. IInv => LiveParents
  BY DEF IInv
<1> QED
  BY <1>1, Inductive, PTL

\* No exit is lost: whoever sleeps in proc_wait() has a child, and no dead one.
THEOREM ExitsNotLost == Spec => []NoLostExit
<1>1. IInv => NoLostExit
  BY DEF IInv
<1> QED
  BY <1>1, Inductive, PTL

\* proc_scheduler() passes a RUNNABLE process over at most NPROC - 1 times.
THEOREM BypassBounded == Spec => []BoundedBypass
<1>1. IInv => BoundedBypass
  <2> SUFFICES ASSUME IInv, NEW p \in Procs, state[p] = "RUNNABLE" PROVE skips[p] <= NPROC - 1
    BY DEF BoundedBypass
  <2>1. Dist(p) \in 0 .. NPROC - 1
    BY ScanReaches DEF IInv
  <2> QED
    BY <2>1, NPROCAssumption DEF IInv, BypassBudget, TypeOK
<1> QED
  BY <1>1, Inductive, PTL
=============================================================================
