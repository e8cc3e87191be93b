---------------------------- MODULE SpinlockProofs ----------------------------
(***************************************************************************)
(* Proofs about Spinlock, for any set of harts, locks and lock order.      *)
(***************************************************************************)
EXTENDS Spinlock, FiniteSetTheorems, NaturalsInduction, WellFoundedInduction, TLAPS

\* A lock is marked locked exactly while some hart owns it.
LockedIffHeld == \A l \in Locks : locked[l] <=> \E h \in Harts : l \in held[h]

\* Where the code of a hart is tells what it owns ...
OwnsWant == \A h \in Harts : pc[h] \in {"mark", "clear"} => want[h] \in held[h]

\* ... and, with the handler, when interrupts are off.
IntrOff ==
  \A h \in Harts :
    /\ inHandler[h] \/ Pending(h) \/ pc[h] \in {"mark", "clear"} => ~intr[h]
    /\ held[h] # {} /\ pc[h] # "window" => ~intr[h]
    /\ pc[h] = "window" => held[h] \subseteq Kept /\ ~inHandler[h]
    /\ inHandler[h] =>
         /\ saved[h].pc \in {"run", "off", "uartoff", "window"}
         /\ saved[h].held \subseteq held[h] \cap Kept
         /\ saved[h].held # {} => saved[h].pc = "window"
         /\ pc[h] \in {"mark", "clear"} => want[h] \notin saved[h].held

\* What push_off() remembered is what the code asked for; a handler can only
\* remember "off", and under locks that a process keeps it remembers nothing.
RemembersAt(h) ==
  /\ inHandler[h] =>
       /\ noff[h] > 0 /\ saved[h].held = {} => origin[h] = FALSE
       /\ saved[h].held # {} => origin[h] = wish[h]
       /\ pc[h] \in {"off", "uartoff"} => old[h] = FALSE
       /\ saved[h].pc # "window" => wish[h] = TRUE
       /\ saved[h].pc \in {"off", "uartoff"} => saved[h].old = TRUE
  /\ ~inHandler[h] =>
       /\ noff[h] > 0 => origin[h] = wish[h]
       /\ pc[h] \in {"off", "uartoff"} /\ held[h] = {} => old[h] = wish[h]

Remembers == \A h \in Harts : ~Panicked(h) => RemembersAt(h)

\* The inductive invariant.
IInv ==
  /\ TypeOK
  /\ MutualExclusion
  /\ LockedIffHeld
  /\ OwnsWant
  /\ IntrOff
  /\ NoffCountsLocks
  /\ Remembers
  /\ InterruptsRestored

-----------------------------------------------------------------------------
\* The state space of the model: every step of spinlock.c and of the trap path
\* keeps each variable in its type (noff, in particular, never goes below 0).
THEOREM TypeCorrect == Spec => []TypeOK
<1> USE HartsAssumption, LocksAssumption DEF TypeOK, PCs, Frames, NoFrame, AfterPushOff
<1>a. NoLock \in Locks
  BY DEF NoLock
<1> USE <1>a
<1>1. Init => TypeOK
  BY DEF Init
<1>2. TypeOK /\ [Next]_vars => TypeOK'
  <2> SUFFICES ASSUME TypeOK, [Next]_vars PROVE TypeOK'
    OBVIOUS
  <2> USE DEF lockVars, ghosts, trapVars
  <2>1. ASSUME NEW h \in Harts, PushOff(h) PROVE TypeOK'
    BY <2>1 DEF PushOff
  <2>2. ASSUME NEW h \in Harts, TestLocked(h) PROVE TypeOK'
    BY <2>2 DEF TestLocked
  <2>3. ASSUME NEW h \in Harts, TestCpuid(h) PROVE TypeOK'
    BY <2>3 DEF TestCpuid
  <2>4. ASSUME NEW h \in Harts, TestAndSet(h) PROVE TypeOK'
    BY <2>4 DEF TestAndSet
  <2>5. ASSUME NEW h \in Harts, Mark(h) PROVE TypeOK'
    BY <2>5 DEF Mark
  <2>6. ASSUME NEW h \in Harts, Clear(h) PROVE TypeOK'
    BY <2>6 DEF Clear
  <2>7. ASSUME NEW h \in Harts, PopOff(h) PROVE TypeOK'
    <3>1. CASE intr[h] \/ noff[h] < 1
      BY <2>7, <3>1 DEF PopOff
    <3>2. CASE ~intr[h] /\ noff[h] >= 1
      <4>1. noff[h] \in Nat /\ noff[h] - 1 \in Nat
        BY <3>2
      <4>2. noff' = [noff EXCEPT ![h] = @ - 1] /\ noff' \in [Harts -> Nat]
        BY <2>7, <3>2, <4>1 DEF PopOff
      <4>3. intr' \in [Harts -> BOOLEAN] /\ pc' \in [Harts -> PCs]
        BY <2>7, <3>2, <4>1 DEF PopOff
      <4> QED
        BY <2>7, <4>2, <4>3 DEF PopOff
    <3> QED
      BY <3>1, <3>2
  <2>8. ASSUME NEW h \in Harts, NEW l \in Locks, Acquire(h, l) PROVE TypeOK'
    BY <2>8 DEF Acquire
  <2>9. ASSUME NEW h \in Harts, NEW l \in Locks, Release(h, l) PROVE TypeOK'
    BY <2>9 DEF Release
  <2>10. ASSUME NEW h \in Harts, Trap(h) PROVE TypeOK'
    BY <2>10 DEF Trap
  <2>11. ASSUME NEW h \in Harts, TrapReturn(h) PROVE TypeOK'
    BY <2>11 DEF TrapReturn
  <2>12. ASSUME NEW h \in Harts, IntrOn(h) PROVE TypeOK'
    BY <2>12 DEF IntrOn
  <2>13. ASSUME NEW h \in Harts, OpenWindow(h) PROVE TypeOK'
    BY <2>13 DEF OpenWindow
  <2>14. ASSUME NEW h \in Harts, CloseWindow(h) PROVE TypeOK'
    BY <2>14 DEF CloseWindow
  <2>15. ASSUME NEW h \in Harts, UartPutc(h) PROVE TypeOK'
    BY <2>15 DEF UartPutc
  <2>16. CASE UNCHANGED vars
    BY <2>16 DEF vars
  <2> QED
    BY <2>1, <2>2, <2>3, <2>4, <2>5, <2>6, <2>7, <2>8, <2>9, <2>10, <2>11, <2>12,
       <2>13, <2>14, <2>15, <2>16 DEF Next, Step
<1> QED
  BY <1>1, <1>2, PTL DEF Spec
-----------------------------------------------------------------------------
\* What the two ghost updates of a lock's life do to the number of locks held.
LEMMA HeldCounts ==
  ASSUME NEW S \in SUBSET Locks, NEW l \in Locks
  PROVE  /\ IsFiniteSet(S) /\ Cardinality(S) \in Nat
         /\ Cardinality(S) = 0 <=> S = {}
         /\ l \notin S => Cardinality(S \cup {l}) = Cardinality(S) + 1
         /\ l \in S => Cardinality(S \ {l}) = Cardinality(S) - 1
<1>1. IsFiniteSet(S)
  BY LocksAssumption, FS_Subset
<1> QED
  BY <1>1, FS_CardinalityType, FS_EmptySet, FS_AddElement, FS_RemoveElement

\* The harts start with no lock held and their interrupts off.
LEMMA IInvInit == Init => IInv
<1> SUFFICES ASSUME Init PROVE IInv
  OBVIOUS
<1> USE DEF Init
<1>a. NoLock \in Locks
  BY LocksAssumption DEF NoLock
<1>1. TypeOK
  BY <1>a, HartsAssumption DEF TypeOK, PCs, Frames, NoFrame
<1>2. MutualExclusion /\ LockedIffHeld /\ OwnsWant
  BY DEF MutualExclusion, LockedIffHeld, OwnsWant
<1>3. IntrOff
  BY DEF IntrOff, Pending
<1>4. NoffCountsLocks
  BY FS_EmptySet DEF NoffCountsLocks, Pending
<1>5. Remembers /\ InterruptsRestored
  BY DEF Remembers, RemembersAt, InterruptsRestored
<1> QED
  BY <1>1, <1>2, <1>3, <1>4, <1>5 DEF IInv

\* Exclusion: a lock changes hands only through a test-and-set that found it
\* free, or a store by the hart that owns it.
LEMMA ExclusionStep ==
  ASSUME IInv, [Next]_vars, TypeOK'
  PROVE  MutualExclusion' /\ LockedIffHeld' /\ OwnsWant'
<1> USE DEF TypeOK, lockVars, ghosts, trapVars
<1> DEFINE Goal == MutualExclusion /\ LockedIffHeld /\ OwnsWant
<1> SUFFICES Goal'
  OBVIOUS
<1>a. TypeOK /\ Goal
  BY DEF IInv
<1> USE DEF MutualExclusion, LockedIffHeld, OwnsWant
<1>1. ASSUME NEW h \in Harts, PushOff(h) PROVE Goal'
  BY <1>1, <1>a DEF PushOff, AfterPushOff
<1>2. ASSUME NEW h \in Harts, TestLocked(h) PROVE Goal'
  BY <1>2, <1>a DEF TestLocked
<1>3. ASSUME NEW h \in Harts, TestCpuid(h) PROVE Goal'
  BY <1>3, <1>a DEF TestCpuid
<1>4. ASSUME NEW h \in Harts, TestAndSet(h) PROVE Goal'
  BY <1>4, <1>a DEF TestAndSet
<1>5. ASSUME NEW h \in Harts, Mark(h) PROVE Goal'
  BY <1>5, <1>a DEF Mark
<1>6. ASSUME NEW h \in Harts, Clear(h) PROVE Goal'
  BY <1>6, <1>a DEF Clear
<1>7. ASSUME NEW h \in Harts, PopOff(h) PROVE Goal'
  BY <1>7, <1>a DEF PopOff
<1>8. ASSUME NEW h \in Harts, NEW l \in Locks, Acquire(h, l) PROVE Goal'
  BY <1>8, <1>a DEF Acquire
<1>9. ASSUME NEW h \in Harts, NEW l \in Locks, Release(h, l) PROVE Goal'
  BY <1>9, <1>a DEF Release, Own
<1>10. ASSUME NEW h \in Harts, Trap(h) PROVE Goal'
  BY <1>10, <1>a DEF Trap
<1>11. ASSUME NEW h \in Harts, TrapReturn(h) PROVE Goal'
  BY <1>11, <1>a DEF TrapReturn, IInv, IntrOff
<1>12. ASSUME NEW h \in Harts, IntrOn(h) PROVE Goal'
  BY <1>12, <1>a DEF IntrOn
<1>13. ASSUME NEW h \in Harts, OpenWindow(h) PROVE Goal'
  BY <1>13, <1>a DEF OpenWindow
<1>14. ASSUME NEW h \in Harts, CloseWindow(h) PROVE Goal'
  BY <1>14, <1>a DEF CloseWindow
<1>15. ASSUME NEW h \in Harts, UartPutc(h) PROVE Goal'
  BY <1>15, <1>a DEF UartPutc
<1>16. CASE UNCHANGED vars
  BY <1>16, <1>a DEF vars
<1> QED
  BY <1>1, <1>2, <1>3, <1>4, <1>5, <1>6, <1>7, <1>8, <1>9, <1>10, <1>11, <1>12,
     <1>13, <1>14, <1>15, <1>16 DEF Next, Step
\* The depth counter: noff and the set of locks held move together.
LEMMA DepthStep ==
  ASSUME IInv, [Next]_vars, TypeOK'
  PROVE  NoffCountsLocks'
<1> USE DEF TypeOK, lockVars, ghosts, trapVars, Pending, Panicked
<1>a. TypeOK /\ NoffCountsLocks /\ OwnsWant /\ LockedIffHeld /\ IntrOff
  BY DEF IInv
<1>b. \A h \in Harts : /\ Cardinality(held[h]) \in Nat
                       /\ Cardinality(held[h]) = 0 <=> held[h] = {}
  BY <1>a, HeldCounts
<1>c. ASSUME NEW h \in Harts, want[h] \notin held[h]
      PROVE  Cardinality(held[h] \cup {want[h]}) = Cardinality(held[h]) + 1
  BY <1>a, <1>c, HeldCounts
<1>d. ASSUME NEW h \in Harts, want[h] \in held[h]
      PROVE  Cardinality(held[h] \ {want[h]}) = Cardinality(held[h]) - 1
  BY <1>a, <1>d, HeldCounts
<1> USE DEF NoffCountsLocks
<1>1. ASSUME NEW h \in Harts, PushOff(h) PROVE NoffCountsLocks'
  BY <1>1, <1>a, <1>b DEF PushOff, AfterPushOff
<1>2. ASSUME NEW h \in Harts, TestLocked(h) PROVE NoffCountsLocks'
  BY <1>2, <1>a, <1>b DEF TestLocked
<1>3. ASSUME NEW h \in Harts, TestCpuid(h) PROVE NoffCountsLocks'
  BY <1>3, <1>a, <1>b DEF TestCpuid
<1>4. ASSUME NEW h \in Harts, TestAndSet(h) PROVE NoffCountsLocks'
  <2>1. want[h] \notin held[h]
    BY <1>4, <1>a DEF TestAndSet, LockedIffHeld
  <2> QED
    BY <1>4, <1>a, <1>b, <1>c, <2>1 DEF TestAndSet
<1>5. ASSUME NEW h \in Harts, Mark(h) PROVE NoffCountsLocks'
  BY <1>5, <1>a, <1>b DEF Mark
<1>6. ASSUME NEW h \in Harts, Clear(h) PROVE NoffCountsLocks'
  <2>1. want[h] \in held[h]
    BY <1>6, <1>a DEF Clear, OwnsWant
  <2> QED
    BY <1>6, <1>a, <1>b, <1>d, <2>1 DEF Clear
<1>7. ASSUME NEW h \in Harts, PopOff(h) PROVE NoffCountsLocks'
  BY <1>7, <1>a, <1>b DEF PopOff
<1>8. ASSUME NEW h \in Harts, NEW l \in Locks, Acquire(h, l) PROVE NoffCountsLocks'
  BY <1>8, <1>a, <1>b DEF Acquire
<1>9. ASSUME NEW h \in Harts, NEW l \in Locks, Release(h, l) PROVE NoffCountsLocks'
  BY <1>9, <1>a, <1>b DEF Release
<1>10. ASSUME NEW h \in Harts, Trap(h) PROVE NoffCountsLocks'
  BY <1>10, <1>a, <1>b DEF Trap, IntrOff
<1>11. ASSUME NEW h \in Harts, TrapReturn(h) PROVE NoffCountsLocks'
  BY <1>11, <1>a, <1>b DEF TrapReturn, IntrOff
<1>12. ASSUME NEW h \in Harts, IntrOn(h) PROVE NoffCountsLocks'
  BY <1>12, <1>a, <1>b DEF IntrOn
<1>13. ASSUME NEW h \in Harts, OpenWindow(h) PROVE NoffCountsLocks'
  BY <1>13, <1>a, <1>b DEF OpenWindow
<1>14. ASSUME NEW h \in Harts, CloseWindow(h) PROVE NoffCountsLocks'
  BY <1>14, <1>a, <1>b DEF CloseWindow
<1>15. ASSUME NEW h \in Harts, UartPutc(h) PROVE NoffCountsLocks'
  BY <1>15, <1>a, <1>b DEF UartPutc
<1>16. CASE UNCHANGED vars
  BY <1>16, <1>a DEF vars
<1> QED
  BY <1>1, <1>2, <1>3, <1>4, <1>5, <1>6, <1>7, <1>8, <1>9, <1>10, <1>11, <1>12,
     <1>13, <1>14, <1>15, <1>16 DEF Next, Step

\* What a hart remembers is its own: a step of another hart leaves it alone.
LEMMA OthersRemember ==
  ASSUME NEW g \in Harts, Remembers,
         inHandler'[g] = inHandler[g], noff'[g] = noff[g], origin'[g] = origin[g],
         old'[g] = old[g], pc'[g] = pc[g], held'[g] = held[g], wish'[g] = wish[g],
         saved'[g] = saved[g]
  PROVE  ~Panicked(g)' => RemembersAt(g)'
<1>1. ~Panicked(g) => RemembersAt(g)
  BY DEF Remembers
<1> QED
  BY <1>1 DEF RemembersAt, Panicked

\* The interrupt flag: off under a lock, in a handler and inside the calls of
\* spinlock.c, and back to what the code asked for once the last lock is gone.
LEMMA InterruptStep ==
  ASSUME IInv, [Next]_vars, TypeOK'
  PROVE  IntrOff' /\ Remembers' /\ InterruptsRestored'
<1> USE DEF TypeOK, Frames, lockVars, ghosts, trapVars, Pending, Panicked
<1> DEFINE Goal == IntrOff /\ Remembers /\ InterruptsRestored
<1> SUFFICES Goal'
  OBVIOUS
<1>a. TypeOK /\ Goal /\ OwnsWant /\ LockedIffHeld
  BY DEF IInv
<1>b. ASSUME NEW h \in Harts, ~Panicked(h)
      PROVE  /\ held[h] = {} /\ ~Pending(h) => noff[h] = 0
             /\ held[h] # {} => noff[h] > 0
             /\ Pending(h) => (noff[h] = 1 <=> held[h] = {})
             /\ Pending(h) => noff[h] > 0
  <2>1. Cardinality(held[h]) \in Nat /\ (Cardinality(held[h]) = 0 <=> held[h] = {})
    BY <1>a, HeldCounts
  <2>2. noff[h] = Cardinality(held[h]) + (IF Pending(h) THEN 1 ELSE 0)
    BY <1>b DEF IInv, NoffCountsLocks
  <2>3. CASE Pending(h)
    <3>1. noff[h] = Cardinality(held[h]) + 1
      BY <2>2, <2>3
    <3>2. (noff[h] = 1 <=> Cardinality(held[h]) = 0) /\ noff[h] > 0
      BY <2>1, <3>1
    <3> QED
      BY <2>1, <2>3, <3>2
  <2>4. CASE ~Pending(h)
    <3>1. noff[h] = Cardinality(held[h])
      BY <2>1, <2>2, <2>4
    <3> QED
      BY <2>1, <2>4, <3>1
  <2> QED
    BY <2>3, <2>4
<1>d. \A h \in Harts : pc[h] # "panic" => RemembersAt(h)
  BY <1>a DEF Remembers
<1> USE DEF IntrOff, Remembers, RemembersAt, InterruptsRestored
<1>1. ASSUME NEW h \in Harts, PushOff(h) PROVE Goal'
  <2>1. IntrOff'
    BY <1>1, <1>a, <1>b DEF PushOff, AfterPushOff
  <2>2. Remembers'
    <3>1. /\ noff[h] \in Nat /\ ~Panicked(h)
          /\ held[h] # {} => noff[h] > 0
          /\ noff[h] > 0 => held[h] # {}
      BY <1>1, <1>a, <1>b DEF PushOff
    <3>2. /\ origin' \in [Harts -> BOOLEAN] /\ origin'[h] = (IF noff[h] = 0 THEN old[h] ELSE origin[h])
          /\ \A g \in Harts : g # h => origin'[g] = origin[g] /\ noff'[g] = noff[g] /\ pc'[g] = pc[g]
                                        /\ old'[g] = old[g]
          /\ pc'[h] \notin {"off", "uartoff"} /\ noff'[h] = noff[h] + 1
          /\ UNCHANGED <<held, wish, inHandler, saved>>
      BY <1>1, <1>a, <3>1 DEF PushOff, AfterPushOff
    <3>3. inHandler[h] => /\ saved[h].held = {} => ~origin'[h]
                          /\ saved[h].held # {} => origin'[h] = wish[h]
      BY <1>1, <1>a, <3>1, <3>2 DEF PushOff
    <3>4. ~inHandler[h] => origin'[h] = wish[h]
      BY <1>1, <1>a, <3>1, <3>2 DEF PushOff
    <3>5. RemembersAt(h)'
      <4>0. RemembersAt(h)
        BY <1>d, <3>1
      <4>1. inHandler[h] /\ saved[h].pc # "window" => wish[h] = TRUE
        BY <4>0
      <4>2. inHandler[h] /\ saved[h].pc \in {"off", "uartoff"} => saved[h].old = TRUE
        BY <4>0
      <4> QED
        BY <3>2, <3>3, <3>4, <4>1, <4>2, <1>a
    <3>6. \A g \in Harts : g # h => (~Panicked(g)' => RemembersAt(g)')
      BY <1>a, <3>2, OthersRemember
    <3> HIDE DEF RemembersAt
    <3> QED
      BY <3>5, <3>6
  <2>3. InterruptsRestored'
    BY <1>1, <1>a, <1>b, ZenonT(60) DEF PushOff, AfterPushOff
  <2> QED
    BY <2>1, <2>2, <2>3
<1>2. ASSUME NEW h \in Harts, TestLocked(h) PROVE Goal'
  BY <1>2, <1>a, <1>b DEF TestLocked
<1>3. ASSUME NEW h \in Harts, TestCpuid(h) PROVE Goal'
  BY <1>3, <1>a, <1>b DEF TestCpuid
<1>4. ASSUME NEW h \in Harts, TestAndSet(h) PROVE Goal'
  BY <1>4, <1>a, <1>b DEF TestAndSet, LockedIffHeld
<1>5. ASSUME NEW h \in Harts, Mark(h) PROVE Goal'
  BY <1>5, <1>a, <1>b DEF Mark, OwnsWant
<1>6. ASSUME NEW h \in Harts, Clear(h) PROVE Goal'
  BY <1>6, <1>a, <1>b DEF Clear, OwnsWant
<1>7. ASSUME NEW h \in Harts, PopOff(h) PROVE Goal'
  <2>1. IntrOff'
    BY <1>7, <1>a, <1>b DEF PopOff
  <2>2. Remembers'
    BY <1>7, <1>a, <1>b DEF PopOff
  <2>3. InterruptsRestored'
    <3>1. CASE inHandler[h] \/ held[h] # {} \/ Panicked(h)'
      BY <1>7, <1>a, <3>1 DEF PopOff
    <3>2. CASE ~inHandler[h] /\ held[h] = {} /\ ~Panicked(h)'
      <4>1. noff[h] = 1 /\ origin[h] = wish[h] /\ intr[h] = FALSE
        BY <1>7, <1>a, <1>b, <3>2 DEF PopOff
      <4>2. intr'[h] = wish'[h]
        BY <1>7, <1>a, <3>2, <4>1 DEF PopOff
      <4> QED
        BY <1>7, <1>a, <4>2 DEF PopOff
    <3> QED
      BY <3>1, <3>2
  <2> QED
    BY <2>1, <2>2, <2>3
<1>8. ASSUME NEW h \in Harts, NEW l \in Locks, Acquire(h, l) PROVE Goal'
  BY <1>8, <1>a, <1>b DEF Acquire
<1>9. ASSUME NEW h \in Harts, NEW l \in Locks, Release(h, l) PROVE Goal'
  <2>1. IntrOff'
    BY <1>9, <1>a DEF Release, Own
  <2>2. Remembers'
    <3>1. /\ UNCHANGED <<inHandler, noff, origin, old, held, wish, saved>>
          /\ pc[h] = "run" /\ pc'[h] \in {"clear", "panic"}
          /\ \A g \in Harts : g # h => pc'[g] = pc[g]
      BY <1>9, <1>a DEF Release
    <3>2. RemembersAt(h)
      BY <1>a, <3>1 DEF Remembers
    <3>3. RemembersAt(h)'
      BY <3>1, <3>2
    <3>4. \A g \in Harts : g # h => (~Panicked(g)' => RemembersAt(g)')
      BY <1>a, <3>1, OthersRemember
    <3> HIDE DEF RemembersAt
    <3> QED
      BY <3>3, <3>4
  <2>3. InterruptsRestored'
    BY <1>9, <1>a DEF Release
  <2> QED
    BY <2>1, <2>2, <2>3
<1>10. ASSUME NEW h \in Harts, Trap(h) PROVE Goal'
  <2>a. /\ pc[h] \in {"run", "off", "uartoff", "window"} /\ intr[h] = TRUE
        /\ held[h] # {} => pc[h] = "window"
        /\ held[h] = {} => noff[h] = 0
        /\ pc[h] # "window" => wish[h] = TRUE
    BY <1>10, <1>a, <1>b DEF Trap, PCs
  <2>1. IntrOff'
    BY <1>10, <1>a, <2>a DEF Trap
  <2>2. Remembers'
    <3>1. held[h] # {} => origin[h] = wish[h]
      BY <1>10, <1>a, <1>b DEF Trap
    <3>2. pc[h] \in {"off", "uartoff"} => old[h] = TRUE
      BY <1>10, <1>a, <2>a DEF Trap
    <3> QED
      BY <1>10, <1>a, <2>a, <3>1, <3>2 DEF Trap
  <2>3. InterruptsRestored'
    BY <1>10, <1>a, <1>b, ZenonT(60) DEF Trap
  <2> QED
    BY <2>1, <2>2, <2>3
<1>11. ASSUME NEW h \in Harts, TrapReturn(h) PROVE Goal'
  <2>c. /\ inHandler[h] /\ ~Panicked(h) /\ ~Pending(h)
        /\ saved[h].pc \in {"run", "off", "uartoff", "window"}
        /\ saved[h].held # {} => saved[h].pc = "window"
    BY <1>11, <1>a DEF TrapReturn
  <2>d. held[h] = saved[h].held
    <3>1. held[h] \ saved[h].held = {}
      BY <1>11 DEF TrapReturn, Own
    <3>2. saved[h].held \subseteq held[h] \cap Kept
      BY <1>a, <2>c
    <3> QED
      BY <3>1, <3>2
  <2>a. /\ held[h] = saved[h].held /\ ~Panicked(h) /\ ~Pending(h)
        /\ saved[h].pc \in {"run", "off", "uartoff", "window"}
        /\ saved[h].held # {} => saved[h].pc = "window"
    BY <2>c, <2>d
  <2>b. saved[h].pc # "window" => wish[h] = TRUE
    BY <1>11, <1>a, <2>a DEF TrapReturn
  <2>1. IntrOff'
    BY <1>11, <1>a, <1>b DEF TrapReturn, Own
  <2>2. Remembers'
    <3>0. held[h] = {} => noff[h] = 0
      BY <1>b, <2>a
    <3>1. noff[h] > 0 => origin[h] = wish[h]
      BY <1>11, <1>a, <3>0, <2>a DEF TrapReturn
    <3>2. saved[h].pc \in {"off", "uartoff"} => saved[h].old = TRUE
      BY <1>11, <1>a, <2>a DEF TrapReturn
    <3> QED
      BY <1>11, <1>a, <2>a, <2>b, <3>0, <3>1, <3>2 DEF TrapReturn
  <2>3. InterruptsRestored'
    <3>1. intr'[h] = TRUE /\ wish'[h] = wish[h] /\ pc'[h] = saved[h].pc
      BY <1>11, <1>a DEF TrapReturn
    <3>2. \A g \in Harts : g # h => intr'[g] = intr[g] /\ wish'[g] = wish[g] /\ held'[g] = held[g]
                                    /\ pc'[g] = pc[g] /\ inHandler'[g] = inHandler[g]
      BY <1>11, <1>a DEF TrapReturn
    <3>3. held'[h] = {} /\ pc'[h] \in {"run", "off", "uartoff"} => intr'[h] = wish'[h]
      BY <2>a, <2>b, <3>1
    <3> QED
      BY <1>a, <3>2, <3>3
  <2> QED
    BY <2>1, <2>2, <2>3
<1>12. ASSUME NEW h \in Harts, IntrOn(h) PROVE Goal'
  <2>1. IntrOff'
    BY <1>12, <1>a, <1>b DEF IntrOn
  <2>2. Remembers'
    <3>1. noff[h] = 0
      BY <1>12, <1>a, <1>b DEF IntrOn
    <3>2. /\ UNCHANGED <<inHandler, noff, origin, old, held, saved, pc>>
          /\ pc[h] = "run" /\ ~inHandler[h]
          /\ \A g \in Harts : g # h => wish'[g] = wish[g]
      BY <1>12, <1>a DEF IntrOn
    <3>3. RemembersAt(h)'
      BY <3>1, <3>2
    <3>4. \A g \in Harts : g # h => (~Panicked(g)' => RemembersAt(g)')
      BY <1>a, <3>2, OthersRemember
    <3> HIDE DEF RemembersAt
    <3> QED
      BY <3>3, <3>4
  <2>3. InterruptsRestored'
    BY <1>12, <1>a, <1>b DEF IntrOn
  <2> QED
    BY <2>1, <2>2, <2>3
<1>13. ASSUME NEW h \in Harts, OpenWindow(h) PROVE Goal'
  <2>1. IntrOff'
    BY <1>13, <1>a, <1>b DEF OpenWindow
  <2>2. Remembers'
    BY <1>13, <1>a, <1>b DEF OpenWindow
  <2>3. InterruptsRestored'
    BY <1>13, <1>a, <1>b DEF OpenWindow
  <2> QED
    BY <2>1, <2>2, <2>3
<1>14. ASSUME NEW h \in Harts, CloseWindow(h) PROVE Goal'
  <2>1. IntrOff'
    BY <1>14, <1>a, <1>b DEF CloseWindow
  <2>2. Remembers'
    <3>1. held[h] = {} => noff[h] = 0
      BY <1>14, <1>a, <1>b DEF CloseWindow
    <3>2. /\ UNCHANGED <<inHandler, noff, origin, old, held, saved>>
          /\ pc[h] = "window" /\ pc'[h] = "run" /\ ~inHandler[h]
          /\ held[h] # {} => wish'[h] = wish[h]
          /\ \A g \in Harts : g # h => wish'[g] = wish[g] /\ pc'[g] = pc[g]
      BY <1>14, <1>a DEF CloseWindow
    <3>5. RemembersAt(h)
      BY <1>a, <3>2 DEF Remembers
    <3>3. RemembersAt(h)'
      BY <3>1, <3>2, <3>5
    <3>4. \A g \in Harts : g # h => (~Panicked(g)' => RemembersAt(g)')
      BY <1>a, <3>2, OthersRemember
    <3> HIDE DEF RemembersAt
    <3> QED
      BY <3>3, <3>4
  <2>3. InterruptsRestored'
    BY <1>14, <1>a, <1>b DEF CloseWindow
  <2> QED
    BY <2>1, <2>2, <2>3
<1>15. ASSUME NEW h \in Harts, UartPutc(h) PROVE Goal'
  <2>1. IntrOff'
    BY <1>15, <1>a, <1>b DEF UartPutc
  <2>2. Remembers'
    BY <1>15, <1>a, <1>b DEF UartPutc
  <2>3. InterruptsRestored'
    BY <1>15, <1>a, <1>b DEF UartPutc
  <2> QED
    BY <2>1, <2>2, <2>3
<1>16. CASE UNCHANGED vars
  BY <1>16, <1>a DEF vars
<1> QED
  BY <1>1, <1>2, <1>3, <1>4, <1>5, <1>6, <1>7, <1>8, <1>9, <1>10, <1>11, <1>12,
     <1>13, <1>14, <1>15, <1>16 DEF Next, Step

\* The invariant holds for ever.
LEMMA Inductive == Spec => []IInv
<1>1. IInv /\ TypeOK' /\ [Next]_vars => IInv'
  BY ExclusionStep, DepthStep, InterruptStep DEF IInv
<1> QED
  BY IInvInit, <1>1, TypeCorrect, PTL DEF Spec

\* For any number of harts and any locks, spinlock.c gives mutual exclusion.
THEOREM Exclusion == Spec => []MutualExclusion
<1>1. IInv => MutualExclusion
  BY DEF IInv
<1> QED
  BY Inductive, <1>1, PTL

\* No handler ever runs on top of a critical section of its own hart: the locks a
\* handler finds held there are those that sleeping processes keep.
THEOREM NoHandlerUnderLock == Spec => []InterruptsOffWhileHolding
<1>1. IInv => InterruptsOffWhileHolding
  BY DEF IInv, IntrOff, InterruptsOffWhileHolding
<1> QED
  BY Inductive, <1>1, PTL

\* noff counts exactly the locks held and the call in progress, at any depth.
THEOREM DepthExact == Spec => []NoffCountsLocks
<1>1. IInv => NoffCountsLocks
  BY DEF IInv
<1> QED
  BY Inductive, <1>1, PTL

\* The interrupt state a hart had before its outermost lock is restored.
THEOREM Restored == Spec => []InterruptsRestored
<1>1. IInv => InterruptsRestored
  BY DEF IInv
<1> QED
  BY Inductive, <1>1, PTL
-----------------------------------------------------------------------------
(* The order of locks and the owner that lk->cpuid names.                  *)

\* A lock that is being acquired comes after the plain ones the hart holds, and a
\* hart that spins does not own it.
Ordered ==
  \A h \in Harts :
    /\ pc[h] \in {"off", "test", "testcpu", "spin"} =>
         \A k \in held[h] \ Kept : <<k, want[h]>> \in LockOrder
    /\ pc[h] = "spin" => want[h] \notin held[h]

\* The locks a sleeping process keeps are taken on its hart, never in a handler.
KeptByProcesses ==
  \A h \in Harts :
    /\ held[h] \cap Kept # {} => h = ProcHart
    /\ pc[h] \in {"off", "test", "testcpu", "spin"} /\ want[h] \in Kept => h = ProcHart
    /\ inHandler[h] =>
         /\ held[h] \cap Kept \subseteq saved[h].held
         /\ pc[h] \in {"off", "test", "testcpu", "spin"} => want[h] \notin Kept
         /\ saved[h].pc = "off" /\ saved[h].want \in Kept => h = ProcHart

\* cpuid names the owner, except in the windows of spinlock_acquire() after the
\* test-and-set and of spinlock_release() before the lock is cleared.
Marked ==
  \A h \in Harts : \A l \in held[h] :
    cpuid[l] = h \/ (pc[h] \in {"mark", "clear"} /\ want[h] = l)

\* What spinlock_release() has stored stays until the lock is free ...
Erased == \A h \in Harts : pc[h] = "clear" => cpuid[want[h]] = -1

\* ... and from then on cpuid never names a hart that does not own the lock.
NotStale == \A l \in released : cpuid[l] = -1 \/ \E g \in Harts : cpuid[l] = g /\ l \in held[g]

\* The inductive invariant about owners, on top of IInv.
OInv == Ordered /\ KeptByProcesses /\ Marked /\ Erased /\ NotStale

\* Only the owner of a lock writes its cpuid, and nobody acquires against the
\* order.
LEMMA OwnerStep ==
  ASSUME IInv, OInv, [Next]_vars
  PROVE  OInv'
<1> USE DEF TypeOK, lockVars, ghosts, trapVars
<1>a. TypeOK /\ MutualExclusion /\ LockedIffHeld /\ OwnsWant /\ IntrOff
  BY DEF IInv
<1>b. Ordered /\ KeptByProcesses /\ Marked /\ Erased /\ NotStale
  BY DEF OInv
<1>c. \A h \in Harts : /\ Own(h) \subseteq held[h] /\ Own(h) \ Kept = held[h] \ Kept
                       /\ Own(h) = {} /\ inHandler[h] => held[h] = saved[h].held
  BY <1>a DEF IntrOff, Own
<1> USE DEF OInv, Ordered, KeptByProcesses, Marked, Erased, NotStale
<1>1. ASSUME NEW h \in Harts, PushOff(h) PROVE OInv'
  BY <1>1, <1>a, <1>b DEF PushOff, AfterPushOff
<1>2. ASSUME NEW h \in Harts, TestLocked(h) PROVE OInv'
  BY <1>2, <1>a, <1>b DEF TestLocked, LockedIffHeld
<1>3. ASSUME NEW h \in Harts, TestCpuid(h) PROVE OInv'
  BY <1>3, <1>a, <1>b DEF TestCpuid
<1>4. ASSUME NEW h \in Harts, TestAndSet(h) PROVE OInv'
  BY <1>4, <1>a, <1>b DEF TestAndSet, LockedIffHeld
<1>5. ASSUME NEW h \in Harts, Mark(h) PROVE OInv'
  BY <1>5, <1>a, <1>b DEF Mark, OwnsWant, MutualExclusion
<1>6. ASSUME NEW h \in Harts, Clear(h) PROVE OInv'
  BY <1>6, <1>a, <1>b DEF Clear, OwnsWant, MutualExclusion
<1>7. ASSUME NEW h \in Harts, PopOff(h) PROVE OInv'
  BY <1>7, <1>a, <1>b DEF PopOff
<1>8. ASSUME NEW h \in Harts, NEW l \in Locks, Acquire(h, l) PROVE OInv'
  BY <1>8, <1>a, <1>b, <1>c DEF Acquire
<1>9. ASSUME NEW h \in Harts, NEW l \in Locks, Release(h, l) PROVE OInv'
  BY <1>9, <1>a, <1>b, <1>c DEF Release, Holding, OwnsWant, MutualExclusion
<1>10. ASSUME NEW h \in Harts, Trap(h) PROVE OInv'
  BY <1>10, <1>a, <1>b DEF Trap, IntrOff
<1>11. ASSUME NEW h \in Harts, TrapReturn(h) PROVE OInv'
  BY <1>11, <1>a, <1>b, <1>c DEF TrapReturn, IntrOff
<1>12. ASSUME NEW h \in Harts, IntrOn(h) PROVE OInv'
  BY <1>12, <1>a, <1>b DEF IntrOn
<1>13. ASSUME NEW h \in Harts, OpenWindow(h) PROVE OInv'
  BY <1>13, <1>a, <1>b DEF OpenWindow
<1>14. ASSUME NEW h \in Harts, CloseWindow(h) PROVE OInv'
  BY <1>14, <1>a, <1>b DEF CloseWindow
<1>15. ASSUME NEW h \in Harts, UartPutc(h) PROVE OInv'
  BY <1>15, <1>a, <1>b DEF UartPutc
<1>16. CASE UNCHANGED vars
  BY <1>16, <1>a, <1>b DEF vars
<1> QED
  BY <1>1, <1>2, <1>3, <1>4, <1>5, <1>6, <1>7, <1>8, <1>9, <1>10, <1>11, <1>12,
     <1>13, <1>14, <1>15, <1>16 DEF Next, Step

\* The owner that cpuid names is right from the first release of a lock on.
LEMMA OwnersInductive == Spec => []OInv
<1>1. Init => OInv
  BY DEF Init, OInv, Ordered, KeptByProcesses, Marked, Erased, NotStale
<1>2. IInv /\ OInv /\ [Next]_vars => OInv'
  BY OwnerStep
<1> QED
  BY <1>1, <1>2, Inductive, PTL DEF Spec

\* NoWaitCycle: with an acyclic lock order no harts spin on one another, handlers
\* included.  Of any group the hart that spins on the lock of the lowest level
\* waits for nobody in it, since a hart that held that lock would spin on a
\* lower one; a kept lock is wanted and held on the same hart only, which panics
\* instead of spinning.
THEOREM NoCycle == Spec => []NoWaitCycle
<1>1. IInv /\ OInv => NoWaitCycle
  <2> SUFFICES ASSUME IInv, OInv, NEW S \in SUBSET Harts, S # {},
                      \A h \in S : \E g \in S : WaitsFor(h, g)
               PROVE  FALSE
    BY DEF NoWaitCycle
  <2>1. PICK level \in [Locks -> 0 .. Cardinality(Locks)] :
               \A x \in LockOrder : level[x[1]] > level[x[2]]
    BY LockOrderAcyclic
  <2>2. Cardinality(Locks) \in Nat
    BY LocksAssumption, FS_CardinalityType
  <2>3. \A h \in S : want[h] \in Locks /\ level[want[h]] \in Nat
    BY <2>1, <2>2 DEF IInv, TypeOK
  <2> DEFINE L == {level[want[h]] : h \in S}
  <2>4. L \in SUBSET Nat /\ L # {}
    BY <2>3
  <2> HIDE DEF L
  <2>5. PICK n \in L : \A m \in L : ~(<<m, n>> \in OpToRel(<, Nat))
    BY <2>4, NatLessThanWellFounded, WFMin
  <2>6. \A m \in L : <<m, n>> \in Nat \X Nat /\ (m < n => <<m, n>> \in OpToRel(<, Nat))
    BY <2>4 DEF OpToRel
  <2>7. \A m \in L : ~(m < n)
    BY <2>5, <2>6, Zenon
  <2>8. PICK h \in S : n = level[want[h]]
    BY DEF L
  <2>9. PICK g \in S : WaitsFor(h, g)
    OBVIOUS
  <2>10. pc[h] = "spin" /\ pc[g] = "spin" /\ want[h] \in held[g] /\ h \in Harts /\ g \in Harts
    BY <2>9 DEF WaitsFor
  <2>12. want[h] \notin Kept
    <3>1. ASSUME want[h] \in Kept PROVE h = ProcHart /\ g = ProcHart
      BY <2>10, <3>1 DEF OInv, KeptByProcesses
    <3> QED
      BY <2>10, <3>1 DEF OInv, Ordered
  <2>13. <<want[h], want[g]>> \in LockOrder
    BY <2>10, <2>12 DEF OInv, Ordered
  <2>11. level[want[g]] < n /\ level[want[g]] \in L
    BY <2>1, <2>3, <2>8, <2>13 DEF L
  <2> QED
    BY <2>7, <2>11
<1> QED
  BY <1>1, Inductive, OwnersInductive, PTL

\* PanicOnlyOnKeptOrFirstUse: the panics in spinlock_release() and pop_off() are
\* never reached, and the one in spinlock_acquire() only on a lock that another
\* process of the hart keeps, or on a lock that has not been released yet.
THEOREM PanicsOnlyOnKeptOrFirstUse == Spec => PanicOnlyOnKeptOrFirstUse
<1> DEFINE Allowed(h) == want[h] \in Kept \cap held[h] \/ want[h] \notin released
           A == \A h \in Harts : ~Panicked(h) /\ Panicked(h)' =>
                  /\ pc[h] = "testcpu"
                  /\ want[h] \in Kept \cap held[h] \/ want[h] \notin released
<1>1. IInv /\ OInv /\ [Next]_vars => [A]_vars
  <2> SUFFICES ASSUME IInv, OInv, Next, NEW g \in Harts, ~Panicked(g), Panicked(g)'
               PROVE  pc[g] = "testcpu" /\ Allowed(g)
    OBVIOUS
  <2>a. TypeOK /\ LockedIffHeld /\ IntrOff /\ NoffCountsLocks
    BY DEF IInv
  <2>b. Ordered /\ Marked /\ NotStale
    BY DEF OInv
  <2> USE DEF TypeOK, Panicked
  <2>1. ASSUME NEW h \in Harts,
               PushOff(h) \/ TestLocked(h) \/ TestAndSet(h) \/ Mark(h) \/ Clear(h) \/ Trap(h)
        PROVE  FALSE
    BY <2>a, <2>1 DEF PushOff, AfterPushOff, TestLocked, TestAndSet, Mark, Clear, Trap
  <2>2. ASSUME NEW h \in Harts, TrapReturn(h) PROVE FALSE
    BY <2>a, <2>2 DEF TrapReturn, IntrOff
  <2>7. ASSUME NEW h \in Harts,
               IntrOn(h) \/ OpenWindow(h) \/ CloseWindow(h) \/ UartPutc(h)
        PROVE  FALSE
    BY <2>a, <2>7 DEF IntrOn, OpenWindow, CloseWindow, UartPutc
  <2>3. ASSUME NEW h \in Harts, NEW l \in Locks, Acquire(h, l) PROVE FALSE
    BY <2>a, <2>3 DEF Acquire
  <2>4. ASSUME NEW h \in Harts, NEW l \in Locks, Release(h, l) PROVE FALSE
    <3>1. l \in held[h]
      BY <2>4 DEF Release, Own
    <3>2. Holding(h, l)
      BY <2>a, <2>b, <2>4, <3>1 DEF Release, Holding, LockedIffHeld, Marked
    <3> QED
      BY <2>a, <2>4, <3>2 DEF Release
  <2>5. ASSUME NEW h \in Harts, PopOff(h) PROVE FALSE
    <3>1. Cardinality(held[h]) \in Nat
      BY <2>a, LocksAssumption, FS_Subset, FS_CardinalityType
    <3>2. ~intr[h] /\ noff[h] >= 1
      BY <2>a, <2>5, <3>1 DEF PopOff, IntrOff, NoffCountsLocks, Pending
    <3> QED
      BY <2>a, <2>5, <3>2 DEF PopOff
  <2>6. ASSUME NEW h \in Harts, TestCpuid(h)
        PROVE  pc[g] = "testcpu" /\ Allowed(g)
    <3>1. h = g /\ pc[g] = "testcpu" /\ cpuid[want[g]] = g /\ want[g] \in Locks
      BY <2>a, <2>6 DEF TestCpuid
    <3>2. want[g] \in released => want[g] \in held[g]
      BY <2>b, <3>1, HartsAssumption DEF NotStale
    <3>3. PICK level \in [Locks -> 0 .. Cardinality(Locks)] :
                 \A x \in LockOrder : level[x[1]] > level[x[2]]
      BY LockOrderAcyclic
    <3>4. Cardinality(Locks) \in Nat
      BY LocksAssumption, FS_CardinalityType
    <3>5. level[want[g]] \in Nat
      BY <3>1, <3>3, <3>4
    <3>6. <<want[g], want[g]>> \notin LockOrder
      BY <3>3, <3>5
    <3>7. want[g] \in held[g] => want[g] \in Kept
      BY <2>b, <3>1, <3>6 DEF Ordered
    <3> QED
      BY <3>1, <3>2, <3>7
  <2> HIDE DEF Allowed
  <2> QED
    BY <2>1, <2>2, <2>3, <2>4, <2>5, <2>6, <2>7 DEF Next, Step
<1> QED
  BY <1>1, Inductive, OwnersInductive, PTL DEF Spec, PanicOnlyOnKeptOrFirstUse
=============================================================================
