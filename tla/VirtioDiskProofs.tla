--------------------------- MODULE VirtioDiskProofs ---------------------------
(***************************************************************************)
(* Proofs about VirtioDisk, for any processes and any number of            *)
(* descriptors.                                                            *)
(***************************************************************************)
EXTENDS VirtioDisk, FiniteSetTheorems, NaturalsInduction, WellFoundedInduction, TLAPS

\* The ring position k is one of those from lo up to hi.
Within(k, lo, hi) == IF lo <= hi THEN lo <= k /\ k < hi ELSE lo <= k \/ k < hi
Window(lo, hi) == {k \in Descs : Within(k, lo, hi)}

\* The chains on the way to the device, and on the way back.
Going == {avail[k] : k \in Window(seen, availIdx)}
Coming == {used[k] : k \in Window(used_idx, usedId)}

\* The descriptors that follow idx[p] in the chain of the request of p.
DataOf(p) == next[idx[p]]
StatusOf(p) == next[next[idx[p]]]

\* Where a process is, and what it sleeps on.
Control ==
  \A p \in Procs :
    /\ idx[p] # None <=> pc[p] \in {"sleep", "wait"}
    /\ pc[p] \in {"sleep", "nodesc"} => cur = p
    /\ state[p] = "RUNNING" <=> cur = p
    /\ chan[p] \in {p, None, free0}
    /\ state[p] = "SLEEPING" => \/ chan[p] = p /\ pc[p] = "wait"
                                \/ chan[p] = free0 /\ pc[p] = "alloc"

\* The request of each process has a chain of its own, and what is in no chain
\* is free.
Chains ==
  /\ \A p \in Busy :
       /\ DataOf(p) \in Descs /\ StatusOf(p) \in Descs
       /\ idx[p] # DataOf(p) /\ idx[p] # StatusOf(p) /\ DataOf(p) # StatusOf(p)
       /\ \A d \in Chain(idx[p]) : ~free[d]
       /\ info[idx[p]] = p /\ addr[DataOf(p)] = p
  /\ \A p, q \in Busy : p # q => Chain(idx[p]) \cap Chain(idx[q]) = {}
  /\ \A d \in Descs : ~free[d] => \E p \in Busy : d \in Chain(idx[p])

\* The chains of the requests that are not finished are in exactly one place:
\* on the available ring, with the device or on the used ring.
Places ==
  /\ \A j, k \in Window(seen, availIdx) : avail[j] = avail[k] => j = k
  /\ \A j, k \in Window(used_idx, usedId) : used[j] = used[k] => j = k
  /\ Going \cap flight = {} /\ Going \cap Coming = {} /\ flight \cap Coming = {}
  /\ \A d \in Going \cup flight \cup Coming : \E p \in Busy : idx[p] = d /\ bdisk[p]
  /\ \A p \in Busy : bdisk[p] => idx[p] \in Going \cup flight \cup Coming

\* A request is reported, and finished, only when it was served.
Served == \A p \in Busy : ~bdisk[p] \/ idx[p] \in Coming => p \in served

\* Who waits for descriptors, or is about to, waits for good reason.
Waiters ==
  \A p \in Procs :
    pc[p] = "nodesc" \/ (state[p] = "SLEEPING" /\ chan[p] = free0) => Cardinality(FreeDescs) < 3

\* What is on the used ring will be looked at.
Looked ==
  races = {} =>
    /\ used_idx # usedId => raise \/ handler = "loop" \/ (irq /\ handler = "idle")
    /\ \A p \in Procs : state[p] = "SLEEPING" /\ pc[p] = "wait" => bdisk[p]

\* The inductive invariant.
IInv == TypeOK /\ Control /\ Chains /\ Places /\ Served /\ Waiters /\ Looked
-----------------------------------------------------------------------------
(* Descriptors and ring positions.                                         *)

\* There are NUM descriptors, and None is not one of them.
LEMMA DescFacts ==
  /\ NUM \in Nat /\ NUM >= 3 /\ None \notin Descs /\ Descs \subseteq Nat /\ 0 \in Descs
  /\ IsFiniteSet(Descs) /\ Cardinality(Descs) = NUM
<1>1. NUM \in Nat /\ NUM >= 3
  BY NUMAssumption
<1>2. 0 \in Int /\ NUM - 1 \in Int /\ (IF 0 > NUM - 1 THEN 0 ELSE NUM - 1 - 0 + 1) = NUM
  BY <1>1
<1>3. IsFiniteSet(0 .. NUM - 1) /\ Cardinality(0 .. NUM - 1) = NUM
  BY <1>2, FS_Interval
<1> QED
  BY <1>1, <1>3 DEF Descs, None

\* The positions that the model's Unfetched and Unconsumed go through.
LEMMA WindowIs ==
  ASSUME NEW lo \in Descs, NEW hi \in Descs
  PROVE  {(lo + i) % NUM : i \in 0 .. ((hi - lo + NUM) % NUM) - 1} = Window(lo, hi)
<1> DEFINE n == (hi - lo + NUM) % NUM
<1>1. n = IF lo <= hi THEN hi - lo ELSE hi - lo + NUM
  BY DescFacts DEF Descs
<1>2. \A i \in 0 .. NUM - 1 : (lo + i) % NUM = IF lo + i < NUM THEN lo + i ELSE lo + i - NUM
  BY DescFacts DEF Descs
<1>3. n \in 0 .. NUM - 1
  BY <1>1, DescFacts DEF Descs
<1> HIDE DEF n
<1>4. ASSUME NEW i \in 0 .. n - 1 PROVE (lo + i) % NUM \in Window(lo, hi)
  BY <1>1, <1>2, <1>3, DescFacts DEF Window, Within, Descs
<1>5. ASSUME NEW k \in Window(lo, hi) PROVE \E i \in 0 .. n - 1 : k = (lo + i) % NUM
  <2> DEFINE i == IF lo <= k THEN k - lo ELSE k - lo + NUM
  <2>1. i \in 0 .. n - 1 /\ i \in 0 .. NUM - 1
    BY <1>1, DescFacts DEF Window, Within, Descs
  <2>2. k = (lo + i) % NUM
    BY <1>2, <2>1, DescFacts DEF Window, Within, Descs
  <2> QED
    BY <2>1, <2>2
<1> QED
  BY <1>4, <1>5 DEF n

\* An entry is added at hi, when there is room ...
LEMMA WindowPush ==
  ASSUME NEW lo \in Descs, NEW hi \in Descs, (hi + 1) % NUM # lo
  PROVE  /\ (hi + 1) % NUM \in Descs
         /\ Window(lo, (hi + 1) % NUM) = Window(lo, hi) \cup {hi}
         /\ hi \notin Window(lo, hi)
<1>1. (hi + 1) % NUM = IF hi = NUM - 1 THEN 0 ELSE hi + 1
  BY DescFacts DEF Descs
<1> QED
  BY <1>1, DescFacts DEF Descs, Window, Within

\* ... and taken off at lo, when there is one.
LEMMA WindowPop ==
  ASSUME NEW lo \in Descs, NEW hi \in Descs, lo # hi
  PROVE  /\ (lo + 1) % NUM \in Descs
         /\ Window((lo + 1) % NUM, hi) = Window(lo, hi) \ {lo}
         /\ lo \in Window(lo, hi)
<1>1. (lo + 1) % NUM = IF lo = NUM - 1 THEN 0 ELSE lo + 1
  BY DescFacts DEF Descs
<1> QED
  BY <1>1, DescFacts DEF Descs, Window, Within

\* There is room while the entries are different descriptors and two others
\* exist.
LEMMA WindowRoom ==
  ASSUME NEW lo \in Descs, NEW hi \in Descs, NEW f,
         \A j, k \in Window(lo, hi) : f[j] = f[k] => j = k,
         NEW x \in Descs, NEW y \in Descs, x # y,
         \A k \in Window(lo, hi) : f[k] \in Descs /\ f[k] # x /\ f[k] # y
  PROVE  (hi + 1) % NUM # lo
<1> SUFFICES ASSUME (hi + 1) % NUM = lo PROVE FALSE
  OBVIOUS
<1>1. Window(lo, hi) = Descs \ {hi}
  <2>1. (hi + 1) % NUM = IF hi = NUM - 1 THEN 0 ELSE hi + 1
    BY DescFacts DEF Descs
  <2> QED
    BY <2>1, DescFacts DEF Descs, Window, Within
<1>2. IsFiniteSet(Descs \ {hi}) /\ Cardinality(Descs \ {hi}) = NUM - 1
  BY DescFacts, FS_RemoveElement
<1>3. IsFiniteSet(Descs \ {x}) /\ Cardinality(Descs \ {x}) = NUM - 1
  BY DescFacts, FS_RemoveElement
<1> DEFINE S == Descs \ {x}
           T == S \ {y}
           g == [k \in Window(lo, hi) |-> f[k]]
<1>4. IsFiniteSet(T) /\ Cardinality(T) = NUM - 2
  <2>1. y \in S
    OBVIOUS
  <2> HIDE DEF S
  <2>2. IsFiniteSet(T) /\ Cardinality(T) = (NUM - 1) - 1
    BY <1>3, <2>1, FS_RemoveElement DEF S
  <2> QED
    BY <2>2, DescFacts
<1>5. g \in [Window(lo, hi) -> T]
  OBVIOUS
<1>6. g \in Injection(Window(lo, hi), T)
  BY <1>5 DEF Injection, IsInjective
<1> HIDE DEF g, T
<1>7. Cardinality(Window(lo, hi)) <= Cardinality(T)
  BY <1>4, <1>6, FS_Injection
<1> QED
  BY <1>1, <1>2, <1>4, <1>7, DescFacts

\* alloc_desc() finds the lowest of the free descriptors.
LEMMA FirstFound ==
  ASSUME NEW S \in SUBSET Descs, S # {}
  PROVE  First(S) \in S
<1>1. S \in SUBSET Nat
  BY DescFacts
<1>2. PICK n \in S : \A m \in S : ~(<<m, n>> \in OpToRel(<, Nat))
  BY <1>1, NatLessThanWellFounded, WFMin
<1>3. \A m \in S : <<m, n>> \in Nat \X Nat /\ (m < n => <<m, n>> \in OpToRel(<, Nat))
  BY <1>1 DEF OpToRel
<1>4. \A m \in S : ~(m < n)
  BY <1>2, <1>3, Zenon
<1>5. \A m \in S : n <= m
  BY <1>1, <1>4
<1> QED
  BY <1>5 DEF First

\* alloc3_desc() finds three different ones when there are three.
LEMMA ThreeFound ==
  ASSUME NEW S \in SUBSET Descs, Cardinality(S) >= 3
  PROVE  /\ First(S) \in S /\ Second(S) \in S /\ Third(S) \in S
         /\ First(S) # Second(S) /\ First(S) # Third(S) /\ Second(S) # Third(S)
<1> DEFINE a == First(S)
           R == S \ {a}
           b == First(R)
           Q == R \ {b}
           c == First(Q)
<1>1. IsFiniteSet(S) /\ Cardinality(S) \in Nat
  BY DescFacts, FS_Subset, FS_CardinalityType
<1>2. S # {}
  BY <1>1, FS_EmptySet
<1>3. a \in S
  BY <1>2, FirstFound
<1> HIDE DEF a
<1>4. IsFiniteSet(R) /\ Cardinality(R) = Cardinality(S) - 1
  BY <1>1, <1>3, FS_RemoveElement
<1> HIDE DEF R
<1>5. R # {} /\ R \in SUBSET Descs
  BY <1>1, <1>4, FS_EmptySet DEF R
<1>6. b \in R
  BY <1>5, FirstFound
<1> HIDE DEF b
<1>7. IsFiniteSet(Q) /\ Cardinality(Q) = Cardinality(R) - 1
  BY <1>4, <1>6, FS_RemoveElement
<1> HIDE DEF Q
<1>8. Q # {} /\ Q \in SUBSET Descs
  BY <1>1, <1>4, <1>5, <1>7, FS_EmptySet DEF Q
<1>9. c \in Q
  BY <1>8, FirstFound
<1>10. First(S) = a /\ Second(S) = b /\ Third(S) = c
  BY DEF a, b, c, R, Q, Second, Third
<1> QED
  BY <1>3, <1>6, <1>9, <1>10 DEF R, Q
-----------------------------------------------------------------------------
(* What a step leaves alone.                                               *)

\* A step that touches no descriptor keeps the chains ...
LEMMA ChainsKept ==
  ASSUME Chains, UNCHANGED <<free, next, addr, info, idx>>
  PROVE  Chains'
<1>1. Busy' = Busy /\ \A d : Chain(d)' = Chain(d)
  BY DEF Busy, Chain
<1>2. \A p \in Procs : DataOf(p)' = DataOf(p) /\ StatusOf(p)' = StatusOf(p)
  BY DEF DataOf, StatusOf
<1> QED
  BY <1>1, <1>2 DEF Chains, Busy

\* ... one that touches neither ring keeps every request in its place ...
LEMMA PlacesKept ==
  ASSUME Places, UNCHANGED <<rings, used_idx, seen, flight, idx, bdisk>>
  PROVE  Places'
BY DEF Places, rings, Going, Coming, Window, Within, Busy

\* ... and the requests on the used ring are the served ones ...
LEMMA ServedKept ==
  ASSUME Served, UNCHANGED <<used, usedId, used_idx, idx, bdisk, served>>
  PROVE  Served'
BY DEF Served, Coming, Window, Within, Busy

\* ... and the free descriptors stay the same.
LEMMA FreeKept ==
  ASSUME UNCHANGED free
  PROVE  FreeDescs' = FreeDescs
BY DEF FreeDescs

\* Nobody is woken that did not sleep on c.
LEMMA WakeupFacts ==
  ASSUME NEW c, NEW p \in Procs
  PROVE  /\ Wakeup(state, c)[p] = "SLEEPING" => state[p] = "SLEEPING" /\ (p # cur => chan[p] # c)
         /\ Wakeup(state, c)[p] = "RUNNING" <=> state[p] = "RUNNING"
         /\ state[p] = "SLEEPING" \/ Wakeup(state, c)[p] = state[p]
         /\ Wakeup(state, c) = [q \in Procs |-> Wakeup(state, c)[q]]
         /\ state \in [Procs -> {"RUNNABLE", "RUNNING", "SLEEPING"}] =>
              Wakeup(state, c) \in [Procs -> {"RUNNABLE", "RUNNING", "SLEEPING"}]
BY DEF Wakeup
-----------------------------------------------------------------------------
(* The scheduler and the calls.                                            *)

\* proc_scheduler() gives hart 0 to a process.
LEMMA DispatchStep ==
  ASSUME IInv, NEW p \in Procs, Dispatch(p)
  PROVE  IInv'
<1>1. TypeOK /\ Control /\ Chains /\ Places /\ Served /\ Waiters /\ Looked
  BY DEF IInv
<1>2. /\ cur = None /\ state[p] = "RUNNABLE"
      /\ state' = [state EXCEPT ![p] = "RUNNING"] /\ cur' = p
      /\ UNCHANGED <<free, next, addr, info, used_idx, bdisk, idx>>
      /\ UNCHANGED <<avail, availIdx, used, usedId, chan, pc, handler, hart>>
      /\ UNCHANGED <<seen, flight, raise, irq, served, races>>
  BY DEF Dispatch, driver, rings, device, ghosts
<1>3. state'[p] = "RUNNING" /\ \A q \in Procs \ {p} : state'[q] = state[q]
  BY <1>1, <1>2 DEF TypeOK
<1>4. TypeOK'
  BY <1>1, <1>2 DEF TypeOK
<1>5. Control'
  BY <1>1, <1>2, <1>3, ProcsAssumption DEF Control
<1>6. Chains' /\ Places' /\ Served'
  BY <1>1, <1>2, ChainsKept, PlacesKept, ServedKept DEF rings
<1>7. Waiters'
  BY <1>1, <1>2, <1>3, FreeKept DEF Waiters
<1>8. Looked'
  BY <1>1, <1>2, <1>3 DEF Looked
<1> QED
  BY <1>4, <1>5, <1>6, <1>7, <1>8 DEF IInv

\* The process gives it back in user mode.
LEMMA PreemptStep ==
  ASSUME IInv, NEW p \in Procs, Preempt(p)
  PROVE  IInv'
<1>1. TypeOK /\ Control /\ Chains /\ Places /\ Served /\ Waiters /\ Looked
  BY DEF IInv
<1>2. /\ cur = p /\ pc[p] = "user"
      /\ state' = [state EXCEPT ![p] = "RUNNABLE"] /\ cur' = None
      /\ UNCHANGED <<free, next, addr, info, used_idx, bdisk, idx>>
      /\ UNCHANGED <<avail, availIdx, used, usedId, chan, pc, handler, hart>>
      /\ UNCHANGED <<seen, flight, raise, irq, served, races>>
  BY DEF Preempt, driver, rings, device, ghosts
<1>3. state'[p] = "RUNNABLE" /\ \A q \in Procs \ {p} : state'[q] = state[q]
  BY <1>1, <1>2 DEF TypeOK
<1>4. TypeOK'
  BY <1>1, <1>2 DEF TypeOK
<1>5. Control'
  BY <1>1, <1>2, <1>3, ProcsAssumption DEF Control
<1>6. Chains' /\ Places' /\ Served'
  BY <1>1, <1>2, ChainsKept, PlacesKept, ServedKept DEF rings
<1>7. Waiters'
  BY <1>1, <1>2, <1>3, FreeKept DEF Waiters
<1>8. Looked'
  BY <1>1, <1>2, <1>3 DEF Looked
<1> QED
  BY <1>4, <1>5, <1>6, <1>7, <1>8 DEF IInv

\* A request begins: the process has none in progress.
LEMMA CallStep ==
  ASSUME IInv, NEW p \in Procs, Call(p)
  PROVE  IInv'
<1>1. TypeOK /\ Control /\ Chains /\ Places /\ Served /\ Waiters /\ Looked
  BY DEF IInv
<1>2. /\ cur = p /\ pc[p] = "user"
      /\ pc' = [pc EXCEPT ![p] = "alloc"] /\ served' = served \ {p}
      /\ UNCHANGED <<free, next, addr, info, used_idx, bdisk, idx>>
      /\ UNCHANGED <<avail, availIdx, used, usedId, state, chan, cur, handler, hart>>
      /\ UNCHANGED <<seen, flight, raise, irq, races>>
  BY DEF Call, driver, rings, device
<1>3. pc'[p] = "alloc" /\ \A q \in Procs \ {p} : pc'[q] = pc[q]
  BY <1>1, <1>2 DEF TypeOK
<1>4. TypeOK'
  BY <1>1, <1>2 DEF TypeOK
<1>5. Control'
  BY <1>1, <1>2, <1>3 DEF Control
<1>6. Chains' /\ Places'
  BY <1>1, <1>2, ChainsKept, PlacesKept DEF rings
<1>7. Served'
  <2>1. p \notin Busy
    BY <1>1, <1>2 DEF Control, Busy
  <2> QED
    BY <1>1, <1>2, <2>1 DEF Served, Busy, Coming, Window, Within
<1>8. Waiters'
  BY <1>1, <1>2, <1>3, FreeKept DEF Waiters
<1>9. Looked'
  BY <1>1, <1>2, <1>3 DEF Looked
<1> QED
  BY <1>4, <1>5, <1>6, <1>7, <1>8, <1>9 DEF IInv
-----------------------------------------------------------------------------
(* virtio_disk_rw().                                                       *)

\* The chains that are with the device, or on a ring, are heads of requests in
\* progress and not free.
LEMMA HeadsInUse ==
  ASSUME TypeOK, Chains, Places, NEW d \in Going \cup flight \cup Coming
  PROVE  /\ d \in Descs /\ ~free[d]
         /\ \E p \in Busy : /\ idx[p] = d /\ bdisk[p] /\ info[d] = p /\ addr[next[d]] = p
                            /\ next[d] = DataOf(p)
                            /\ \A q \in Busy : idx[q] = d => q = p
<1>1. PICK p \in Busy : idx[p] = d /\ bdisk[p]
  BY DEF Places
<1>2. d \in Descs /\ d \in Chain(idx[p])
  BY <1>1 DEF Busy, TypeOK, Chain
<1>3. ~free[d] /\ info[d] = p /\ addr[next[d]] = p /\ next[d] = DataOf(p)
  BY <1>1, <1>2 DEF Chains, DataOf
<1>4. \A q \in Busy : idx[q] = d => q = p
  BY <1>1 DEF Chains, Chain
<1> QED
  BY <1>1, <1>2, <1>3, <1>4

\* alloc3_desc() succeeds and the request goes on the available ring, which
\* has room for it: its entries are different descriptors and none of the free
\* ones.
LEMMA AllocRequestStep ==
  ASSUME IInv, NEW p \in Procs, AllocRequest(p)
  PROVE  IInv'
<1>1. TypeOK /\ Control /\ Chains /\ Places /\ Served /\ Waiters /\ Looked
  BY DEF IInv
<1>2. FreeDescs \in SUBSET Descs /\ Cardinality(FreeDescs) >= 3
  BY DEF AllocRequest, FreeDescs
<1>3. PICK a \in Descs, b \in Descs, c \in Descs :
        /\ a = First(FreeDescs) /\ b = Second(FreeDescs) /\ c = Third(FreeDescs)
        /\ free[a] /\ free[b] /\ free[c] /\ a # b /\ a # c /\ b # c
  <2>1. /\ First(FreeDescs) \in FreeDescs /\ Second(FreeDescs) \in FreeDescs
        /\ Third(FreeDescs) \in FreeDescs /\ First(FreeDescs) # Second(FreeDescs)
        /\ First(FreeDescs) # Third(FreeDescs) /\ Second(FreeDescs) # Third(FreeDescs)
    BY <1>2, ThreeFound
  <2> QED
    BY <2>1 DEF FreeDescs
<1>4. /\ cur = p /\ pc[p] = "alloc"
      /\ free' = [free EXCEPT ![a] = FALSE, ![b] = FALSE, ![c] = FALSE]
      /\ next' = [next EXCEPT ![a] = b, ![b] = c, ![c] = None]
      /\ addr' = [addr EXCEPT ![a] = None, ![b] = p, ![c] = None]
      /\ info' = [info EXCEPT ![a] = p]
      /\ avail' = [avail EXCEPT ![availIdx] = a]
      /\ idx' = [idx EXCEPT ![p] = a]
      /\ availIdx' = (availIdx + 1) % NUM
      /\ bdisk' = [bdisk EXCEPT ![p] = TRUE]
      /\ chan' = [chan EXCEPT ![p] = None]
      /\ pc' = [pc EXCEPT ![p] = "sleep"]
      /\ UNCHANGED <<used, usedId, used_idx, state, cur, handler, hart>>
      /\ UNCHANGED <<seen, flight, raise, irq, served, races>>
  BY <1>3 DEF AllocRequest, device, ghosts
<1>5. p \notin Busy /\ idx'[p] = a /\ bdisk'[p] = TRUE /\ chan'[p] = None /\ pc'[p] = "sleep"
  BY <1>1, <1>4 DEF TypeOK, Control, Busy
<1>6. \A q \in Procs \ {p} : /\ idx'[q] = idx[q] /\ bdisk'[q] = bdisk[q]
                             /\ chan'[q] = chan[q] /\ pc'[q] = pc[q]
  BY <1>1, <1>4 DEF TypeOK
<1>7. Busy' = Busy \cup {p}
  BY <1>5, <1>6, DescFacts DEF Busy
<1>8. /\ next'[a] = b /\ next'[b] = c /\ addr'[b] = p /\ info'[a] = p
      /\ ~free'[a] /\ ~free'[b] /\ ~free'[c]
  BY <1>1, <1>3, <1>4 DEF TypeOK
<1>9. \A d \in Descs \ {a, b, c} : /\ next'[d] = next[d] /\ addr'[d] = addr[d]
                                  /\ info'[d] = info[d] /\ free'[d] = free[d]
  BY <1>1, <1>4 DEF TypeOK
<1>10. \A q \in Busy : /\ idx[q] \in Descs \ {a, b, c} /\ next[idx[q]] \in Descs \ {a, b, c}
                       /\ next[next[idx[q]]] \in Descs \ {a, b, c} /\ q # p
  <2> SUFFICES ASSUME NEW q \in Busy
               PROVE  /\ idx[q] \in Descs \ {a, b, c} /\ next[idx[q]] \in Descs \ {a, b, c}
                      /\ next[next[idx[q]]] \in Descs \ {a, b, c} /\ q # p
    OBVIOUS
  <2>1. idx[q] \in Descs /\ next[idx[q]] \in Descs /\ next[next[idx[q]]] \in Descs
    BY <1>1 DEF Chains, DataOf, StatusOf, Busy, TypeOK
  <2>2. ~free[idx[q]] /\ ~free[next[idx[q]]] /\ ~free[next[next[idx[q]]]]
    BY <1>1 DEF Chains, Chain
  <2> QED
    BY <1>3, <1>5, <2>1, <2>2
<1>11. \A q \in Busy : /\ idx'[q] = idx[q] /\ DataOf(q)' = DataOf(q) /\ StatusOf(q)' = StatusOf(q)
                       /\ Chain(idx[q])' = Chain(idx[q])
                       /\ Chain(idx[q]) \subseteq Descs \ {a, b, c}
  BY <1>6, <1>9, <1>10 DEF DataOf, StatusOf, Chain, Busy
<1>12. DataOf(p)' = b /\ StatusOf(p)' = c /\ Chain(idx[p])' = {a, b, c}
  BY <1>5, <1>8 DEF DataOf, StatusOf, Chain
<1>13. Chains'
  <2>1. \A q \in Busy' :
          /\ DataOf(q)' \in Descs /\ StatusOf(q)' \in Descs
          /\ idx'[q] # DataOf(q)' /\ idx'[q] # StatusOf(q)' /\ DataOf(q)' # StatusOf(q)'
          /\ \A d \in Chain(idx[q])' : ~free'[d]
          /\ info'[idx'[q]] = q /\ addr'[DataOf(q)'] = q
    <3> SUFFICES ASSUME NEW q \in Busy'
                 PROVE  /\ DataOf(q)' \in Descs /\ StatusOf(q)' \in Descs
                        /\ idx'[q] # DataOf(q)' /\ idx'[q] # StatusOf(q)' /\ DataOf(q)' # StatusOf(q)'
                        /\ \A d \in Chain(idx[q])' : ~free'[d]
                        /\ info'[idx'[q]] = q /\ addr'[DataOf(q)'] = q
      OBVIOUS
    <3>1. CASE q = p
      BY <1>3, <1>5, <1>8, <1>12, <3>1
    <3>2. CASE q \in Busy
      BY <1>1, <1>9, <1>10, <1>11, <3>2 DEF Chains, DataOf
    <3> QED
      BY <1>7, <3>1, <3>2
  <2>2. \A q, r \in Busy' : q # r => Chain(idx[q])' \cap Chain(idx[r])' = {}
    BY <1>1, <1>7, <1>11, <1>12 DEF Chains
  <2>3. \A d \in Descs : ~free'[d] => \E q \in Busy' : d \in Chain(idx[q])'
    BY <1>1, <1>7, <1>9, <1>11, <1>12 DEF Chains
  <2> QED
    BY <2>1, <2>2, <2>3 DEF Chains
<1>14. \A d \in Going \cup flight \cup Coming : d \in Descs /\ ~free[d]
  BY <1>1, HeadsInUse
<1>15. availIdx \in Descs /\ seen \in Descs
  BY <1>1 DEF TypeOK
<1>16. (availIdx + 1) % NUM # seen
  <2>1. \A k \in Window(seen, availIdx) : avail[k] \in Descs /\ avail[k] # a /\ avail[k] # b
    BY <1>3, <1>14 DEF Going
  <2> QED
    BY <1>1, <1>3, <1>15, <2>1, WindowRoom DEF Places
<1>17. /\ availIdx' \in Descs /\ availIdx \notin Window(seen, availIdx)
       /\ Window(seen, availIdx)' = Window(seen, availIdx) \cup {availIdx}
  BY <1>4, <1>15, <1>16, WindowPush DEF Window, Within
<1>18. avail'[availIdx] = a /\ \A k \in Window(seen, availIdx) : avail'[k] = avail[k]
  BY <1>1, <1>4, <1>15, <1>17 DEF TypeOK, Window
<1>19. Going' = Going \cup {a} /\ Coming' = Coming
  <2>1. Going' = Going \cup {a}
    BY <1>17, <1>18 DEF Going
  <2>2. Coming' = Coming
    BY <1>4 DEF Coming, Window, Within
  <2> QED
    BY <2>1, <2>2
<1>20. a \notin Going /\ a \notin flight /\ a \notin Coming
  BY <1>3, <1>14
<1>21. Places'
  <2>1. \A j, k \in Window(seen, availIdx)' : avail'[j] = avail'[k] => j = k
    BY <1>1, <1>17, <1>18, <1>20 DEF Places, Going
  <2>2. \A j, k \in Window(used_idx, usedId)' : used'[j] = used'[k] => j = k
    BY <1>1, <1>4 DEF Places, Window, Within
  <2>3. /\ Going' \cap flight' = {} /\ Going' \cap Coming' = {} /\ flight' \cap Coming' = {}
    BY <1>1, <1>4, <1>19, <1>20 DEF Places
  <2>4. \A d \in Going' \cup flight' \cup Coming' : \E q \in Busy' : idx'[q] = d /\ bdisk'[q]
    <3>1. \A q \in Busy : idx'[q] = idx[q] /\ bdisk'[q] = bdisk[q] /\ q \in Busy'
      BY <1>6, <1>7, <1>10 DEF Busy
    <3> QED
      BY <1>1, <1>4, <1>5, <1>7, <1>19, <3>1 DEF Places
  <2>5. \A q \in Busy' : bdisk'[q] => idx'[q] \in Going' \cup flight' \cup Coming'
    <3>1. \A q \in Busy : idx'[q] = idx[q] /\ bdisk'[q] = bdisk[q]
      BY <1>6, <1>10 DEF Busy
    <3> QED
      BY <1>1, <1>4, <1>5, <1>7, <1>19, <3>1 DEF Places
  <2> QED
    BY <2>1, <2>2, <2>3, <2>4, <2>5 DEF Places
<1>22. TypeOK'
  <2>1. /\ free' \in [Descs -> BOOLEAN] /\ next' \in [Descs -> Descs \cup {None}]
        /\ addr' \in [Descs -> Procs \cup {None}] /\ info' \in [Descs -> Procs \cup {None}]
        /\ avail' \in [Descs -> Descs \cup {None}]
    BY <1>1, <1>4 DEF TypeOK
  <2>2. /\ bdisk' \in [Procs -> BOOLEAN] /\ idx' \in [Procs -> Descs \cup {None}]
        /\ chan' \in [Procs -> Procs \cup {None, free0}]
        /\ pc' \in [Procs -> {"user", "alloc", "nodesc", "sleep", "wait"}]
    BY <1>1, <1>4 DEF TypeOK
  <2>3. {availIdx', usedId', used_idx', seen'} \subseteq Descs
    BY <1>1, <1>4, <1>17 DEF TypeOK
  <2>4. (/\ used \in [Descs -> Descs \cup {None}]
         /\ state \in [Procs -> {"RUNNABLE", "RUNNING", "SLEEPING"}]
         /\ cur \in Procs \cup {None} /\ handler \in {"idle", "loop", "ack"} /\ hart \in {0, 1}
         /\ flight \subseteq Descs /\ raise \in BOOLEAN /\ irq \in BOOLEAN
         /\ served \subseteq Procs /\ races \subseteq {"ack", "sleep"})'
    BY <1>1, <1>4 DEF TypeOK
  <2> QED
    BY <2>1, <2>2, <2>3, <2>4 DEF TypeOK
<1>23. Control'
  <2>1. a # None
    BY DescFacts
  <2> QED
    BY <1>1, <1>4, <1>5, <1>6, <2>1 DEF Control
<1>24. Served'
  <2>1. \A q \in Busy : idx'[q] = idx[q] /\ bdisk'[q] = bdisk[q]
    BY <1>6, <1>10 DEF Busy
  <2> QED
    BY <1>1, <1>4, <1>5, <1>7, <1>19, <1>20, <2>1 DEF Served
<1>25. Waiters'
  <2>1. Cardinality(FreeDescs) \in Nat
    BY <1>2, DescFacts, FS_Subset, FS_CardinalityType
  <2>2. \A q \in Procs : pc[q] # "nodesc" /\ ~(state[q] = "SLEEPING" /\ chan[q] = free0)
    BY <1>1, <1>2, <2>1 DEF Waiters
  <2>3. None # free0
    BY DEF None, free0
  <2> QED
    BY <1>4, <1>5, <1>6, <2>2, <2>3 DEF Waiters
<1>26. Looked'
  BY <1>1, <1>4, <1>5, <1>6 DEF Looked
<1> QED
  BY <1>13, <1>21, <1>22, <1>23, <1>24, <1>25, <1>26 DEF IInv

\* alloc3_desc() fails; what it gives back was free before.
LEMMA AllocFailsStep ==
  ASSUME IInv, NEW p \in Procs, AllocFails(p)
  PROVE  IInv'
<1>1. TypeOK /\ Control /\ Chains /\ Places /\ Served /\ Waiters /\ Looked
  BY DEF IInv
<1>2. /\ cur = p /\ pc[p] = "alloc" /\ Cardinality(FreeDescs) < 3
      /\ addr' = [d \in Descs |-> IF free[d] THEN None ELSE addr[d]]
      /\ state' = IF FreeDescs # {} THEN Wakeup(state, free0) ELSE state
      /\ chan' = [chan EXCEPT ![p] = None]
      /\ pc' = [pc EXCEPT ![p] = "nodesc"]
      /\ UNCHANGED <<free, next, info, used_idx, bdisk, idx, avail, availIdx, used, usedId>>
      /\ UNCHANGED <<cur, handler, hart, seen, flight, raise, irq, served, races>>
  BY DEF AllocFails, rings, device, ghosts
<1>3. chan'[p] = None /\ pc'[p] = "nodesc"
  BY <1>1, <1>2 DEF TypeOK
<1>4. \A q \in Procs \ {p} : chan'[q] = chan[q] /\ pc'[q] = pc[q]
  BY <1>1, <1>2 DEF TypeOK
<1>5. /\ \A q \in Procs : /\ state'[q] = "SLEEPING" => state[q] = "SLEEPING"
                          /\ state'[q] = "RUNNING" <=> state[q] = "RUNNING"
      /\ state' \in [Procs -> {"RUNNABLE", "RUNNING", "SLEEPING"}]
  <2>1. state \in [Procs -> {"RUNNABLE", "RUNNING", "SLEEPING"}]
    BY <1>1 DEF TypeOK
  <2>2. CASE state' = state
    BY <2>1, <2>2
  <2>3. CASE state' = Wakeup(state, free0)
    BY <2>1, <2>3, WakeupFacts
  <2> QED
    BY <1>2, <2>2, <2>3
<1>6. state[p] = "RUNNING"
  BY <1>1, <1>2 DEF Control
<1>7. TypeOK'
  <2>1. addr' \in [Descs -> Procs \cup {None}] /\ chan' \in [Procs -> Procs \cup {None, free0}]
    BY <1>1, <1>2 DEF TypeOK
  <2>2. pc' \in [Procs -> {"user", "alloc", "nodesc", "sleep", "wait"}]
    BY <1>1, <1>2 DEF TypeOK
  <2> QED
    BY <1>1, <1>2, <1>5, <2>1, <2>2 DEF TypeOK
<1>8. Control'
  BY <1>1, <1>2, <1>3, <1>4, <1>5, <1>6 DEF Control
<1>9. Chains'
  <2>1. Busy' = Busy /\ \A q \in Procs : Chain(idx[q])' = Chain(idx[q])
    BY <1>2 DEF Busy, Chain
  <2>2. \A q \in Procs : DataOf(q)' = DataOf(q) /\ StatusOf(q)' = StatusOf(q)
    BY <1>2 DEF DataOf, StatusOf
  <2>3. \A q \in Busy : addr'[DataOf(q)] = q
    BY <1>1, <1>2 DEF Chains, Chain, DataOf
  <2>4. Busy \subseteq Procs
    BY DEF Busy
  <2>5. \A q \in Busy' :
          /\ DataOf(q)' \in Descs /\ StatusOf(q)' \in Descs
          /\ idx'[q] # DataOf(q)' /\ idx'[q] # StatusOf(q)' /\ DataOf(q)' # StatusOf(q)'
          /\ \A d \in Chain(idx[q])' : ~free'[d]
          /\ info'[idx'[q]] = q /\ addr'[DataOf(q)'] = q
    BY <1>1, <1>2, <2>1, <2>2, <2>3, <2>4 DEF Chains
  <2>6. /\ \A q, r \in Busy' : q # r => Chain(idx[q])' \cap Chain(idx[r])' = {}
        /\ \A d \in Descs : ~free'[d] => \E q \in Busy' : d \in Chain(idx[q])'
    BY <1>1, <1>2, <2>1, <2>4, SMTT(30) DEF Chains
  <2> QED
    BY <2>5, <2>6 DEF Chains
<1>10. Places' /\ Served'
  BY <1>1, <1>2, PlacesKept, ServedKept DEF rings
<1>11. Waiters'
  BY <1>1, <1>2, FreeKept DEF Waiters
<1>12. Looked'
  BY <1>1, <1>2, <1>3, <1>4, <1>5 DEF Looked
<1> QED
  BY <1>7, <1>8, <1>9, <1>10, <1>11, <1>12 DEF IInv

\* proc_sleep() sets the state.
LEMMA CommitSleepStep ==
  ASSUME IInv, NEW p \in Procs, CommitSleep(p)
  PROVE  IInv'
<1>1. TypeOK /\ Control /\ Chains /\ Places /\ Served /\ Waiters /\ Looked
  BY DEF IInv
<1>2. /\ cur = p /\ pc[p] \in {"sleep", "nodesc"}
      /\ chan' = [chan EXCEPT ![p] = IF pc[p] = "sleep" THEN p ELSE free0]
      /\ state' = [state EXCEPT ![p] = "SLEEPING"]
      /\ pc' = [pc EXCEPT ![p] = IF pc[p] = "sleep" THEN "wait" ELSE "alloc"]
      /\ cur' = None
      /\ races' = IF pc[p] = "sleep" /\ ~bdisk[p] THEN races \cup {"sleep"} ELSE races
      /\ UNCHANGED <<free, next, addr, info, used_idx, bdisk, idx>>
      /\ UNCHANGED <<avail, availIdx, used, usedId, handler, hart>>
      /\ UNCHANGED <<seen, flight, raise, irq, served>>
  BY DEF CommitSleep, driver, rings, device
<1>3. /\ chan'[p] = IF pc[p] = "sleep" THEN p ELSE free0
      /\ state'[p] = "SLEEPING"
      /\ pc'[p] = IF pc[p] = "sleep" THEN "wait" ELSE "alloc"
  BY <1>1, <1>2 DEF TypeOK
<1>4. \A q \in Procs \ {p} : chan'[q] = chan[q] /\ state'[q] = state[q] /\ pc'[q] = pc[q]
  BY <1>1, <1>2 DEF TypeOK
<1>5. TypeOK'
  <2>1. /\ chan' \in [Procs -> Procs \cup {None, free0}]
        /\ state' \in [Procs -> {"RUNNABLE", "RUNNING", "SLEEPING"}]
        /\ pc' \in [Procs -> {"user", "alloc", "nodesc", "sleep", "wait"}]
        /\ races' \subseteq {"ack", "sleep"}
    BY <1>1, <1>2 DEF TypeOK
  <2> QED
    BY <1>1, <1>2, <2>1 DEF TypeOK
<1>6. Control'
  BY <1>1, <1>2, <1>3, <1>4, ProcsAssumption DEF Control
<1>7. Chains' /\ Places' /\ Served'
  BY <1>1, <1>2, ChainsKept, PlacesKept, ServedKept DEF rings
<1>8. Waiters'
  <2> SUFFICES ASSUME NEW q \in Procs,
                      pc'[q] = "nodesc" \/ (state'[q] = "SLEEPING" /\ chan'[q] = free0)
               PROVE  Cardinality(FreeDescs) < 3
    BY <1>2, FreeKept DEF Waiters
  <2>1. CASE q = p
    BY <1>1, <1>2, <1>3, <2>1, ProcsAssumption DEF Waiters
  <2>2. CASE q # p
    BY <1>1, <1>4, <2>2 DEF Waiters
  <2> QED
    BY <2>1, <2>2
<1>9. Looked'
  <2> SUFFICES ASSUME races' = {} PROVE Looked'
    BY DEF Looked
  <2>1. races = {} /\ (pc[p] = "sleep" => bdisk[p])
    BY <1>2
  <2> QED
    BY <1>1, <1>2, <1>3, <1>4, <2>1 DEF Looked
<1> QED
  BY <1>5, <1>6, <1>7, <1>8, <1>9 DEF IInv

\* p is awake again: the disk still owns the buffer, or free_chain() frees the
\* three descriptors of its own request.
LEMMA FinishStep ==
  ASSUME IInv, NEW p \in Procs, Finish(p)
  PROVE  IInv'
<1>1. TypeOK /\ Control /\ Chains /\ Places /\ Served /\ Waiters /\ Looked
  BY DEF IInv
<1>2. /\ cur = p /\ pc[p] = "wait"
      /\ chan' = [chan EXCEPT ![p] = None]
      /\ UNCHANGED <<used_idx, bdisk, avail, availIdx, used, usedId, cur, handler, hart>>
      /\ UNCHANGED <<seen, flight, raise, irq, served, races>>
  BY DEF Finish, rings, device, ghosts
<1>3. p \in Busy /\ state[p] = "RUNNING" /\ chan'[p] = None /\ free0 # None
  BY <1>1, <1>2 DEF Control, Busy, TypeOK, free0, None
<1>4. \A q \in Procs \ {p} : chan'[q] = chan[q]
  BY <1>1, <1>2 DEF TypeOK
<1>5. chan' \in [Procs -> Procs \cup {None, free0}]
  BY <1>1, <1>2 DEF TypeOK
<1>6. CASE bdisk[p]
  <2>1. pc' = [pc EXCEPT ![p] = "sleep"] /\ UNCHANGED <<info, free, addr, next, state, idx>>
    BY <1>6 DEF Finish
  <2>2. pc'[p] = "sleep" /\ \A q \in Procs \ {p} : pc'[q] = pc[q]
    BY <1>1, <2>1 DEF TypeOK
  <2>3. TypeOK'
    BY <1>1, <1>2, <1>5, <2>1 DEF TypeOK
  <2>4. Control'
    BY <1>1, <1>2, <1>3, <1>4, <2>1, <2>2 DEF Control
  <2>5. Chains' /\ Places' /\ Served'
    BY <1>1, <1>2, <2>1, ChainsKept, PlacesKept, ServedKept DEF rings
  <2>6. Waiters'
    BY <1>1, <1>2, <1>3, <1>4, <2>1, <2>2, FreeKept DEF Waiters
  <2>7. Looked'
    BY <1>1, <1>2, <2>1, <2>2 DEF Looked
  <2> QED
    BY <2>3, <2>4, <2>5, <2>6, <2>7 DEF IInv
<1>7. CASE ~bdisk[p]
  <2> DEFINE C == Chain(idx[p])
  <2>1. /\ info' = [info EXCEPT ![idx[p]] = None]
        /\ free' = [d \in Descs |-> free[d] \/ d \in C]
        /\ addr' = [d \in Descs |-> IF d \in C THEN None ELSE addr[d]]
        /\ next' = [d \in Descs |-> IF d \in C THEN None ELSE next[d]]
        /\ state' = Wakeup(state, free0)
        /\ pc' = [pc EXCEPT ![p] = "user"]
        /\ idx' = [idx EXCEPT ![p] = None]
    BY <1>7 DEF Finish
  <2>2. pc'[p] = "user" /\ idx'[p] = None
    BY <1>1, <2>1 DEF TypeOK
  <2>3. \A q \in Procs \ {p} : pc'[q] = pc[q] /\ idx'[q] = idx[q]
    BY <1>1, <2>1 DEF TypeOK
  <2>4. Busy' = Busy \ {p}
    BY <2>2, <2>3 DEF Busy
  <2>5. /\ \A q \in Procs : /\ state'[q] = "SLEEPING" => state[q] = "SLEEPING" /\ (q # p => chan[q] # free0)
                            /\ state'[q] = "RUNNING" <=> state[q] = "RUNNING"
        /\ state' \in [Procs -> {"RUNNABLE", "RUNNING", "SLEEPING"}]
    <3>1. state \in [Procs -> {"RUNNABLE", "RUNNING", "SLEEPING"}]
      BY <1>1 DEF TypeOK
    <3>2. state' \in [Procs -> {"RUNNABLE", "RUNNING", "SLEEPING"}]
      BY <1>3, <2>1, <3>1, WakeupFacts
    <3> QED
      BY <1>2, <2>1, <3>2, WakeupFacts
  <2>6. C \subseteq Descs /\ idx[p] \in C
    BY <1>1, <1>3 DEF Chains, Chain, DataOf, StatusOf, Busy, TypeOK
  <2>7. \A q \in Busy \ {p} : Chain(idx[q]) \cap C = {}
    BY <1>1, <1>3 DEF Chains
  <2>8. TypeOK'
    <3>1. /\ info' \in [Descs -> Procs \cup {None}] /\ free' \in [Descs -> BOOLEAN]
          /\ addr' \in [Descs -> Procs \cup {None}] /\ next' \in [Descs -> Descs \cup {None}]
      BY <1>1, <2>1 DEF TypeOK
    <3>2. /\ pc' \in [Procs -> {"user", "alloc", "nodesc", "sleep", "wait"}]
          /\ idx' \in [Procs -> Descs \cup {None}]
      BY <1>1, <2>1 DEF TypeOK
    <3> QED
      BY <1>1, <1>2, <1>5, <2>5, <3>1, <3>2 DEF TypeOK
  <2>9. \A d \in Descs \ C : /\ info'[d] = info[d] /\ free'[d] = free[d]
                             /\ addr'[d] = addr[d] /\ next'[d] = next[d]
    <3> HIDE DEF C
    <3> QED
      BY <1>1, <2>1, <2>6 DEF TypeOK
  <2>10. \A q \in Busy \ {p} : /\ idx[q] \in Descs \ C /\ next[idx[q]] \in Descs \ C
                               /\ next[next[idx[q]]] \in Descs \ C
    <3> SUFFICES ASSUME NEW q \in Busy \ {p}
                 PROVE  /\ idx[q] \in Descs \ C /\ next[idx[q]] \in Descs \ C
                        /\ next[next[idx[q]]] \in Descs \ C
      OBVIOUS
    <3>1. idx[q] \in Descs /\ next[idx[q]] \in Descs /\ next[next[idx[q]]] \in Descs
      BY <1>1 DEF Chains, DataOf, StatusOf, Busy, TypeOK
    <3>2. Chain(idx[q]) = {idx[q], next[idx[q]], next[next[idx[q]]]}
      BY DEF Chain
    <3> HIDE DEF C
    <3> QED
      BY <2>7, <3>1, <3>2
  <2> HIDE DEF C
  <2>11. \A q \in Busy \ {p} :
           /\ idx'[q] = idx[q] /\ DataOf(q)' = DataOf(q) /\ StatusOf(q)' = StatusOf(q)
           /\ Chain(idx[q])' = Chain(idx[q]) /\ DataOf(q) \in Descs \ C
           /\ Chain(idx[q]) \subseteq Descs \ C
    BY <2>3, <2>9, <2>10 DEF DataOf, StatusOf, Chain, Busy
  <2>12. Chains'
    <3>1. \A q \in Busy' :
            /\ DataOf(q)' \in Descs /\ StatusOf(q)' \in Descs
            /\ idx'[q] # DataOf(q)' /\ idx'[q] # StatusOf(q)' /\ DataOf(q)' # StatusOf(q)'
            /\ \A d \in Chain(idx[q])' : ~free'[d]
            /\ info'[idx'[q]] = q /\ addr'[DataOf(q)'] = q
      BY <1>1, <2>4, <2>9, <2>10, <2>11 DEF Chains
    <3>2. \A q, r \in Busy' : q # r => Chain(idx[q])' \cap Chain(idx[r])' = {}
      BY <1>1, <2>4, <2>11 DEF Chains
    <3>3. \A d \in Descs : ~free'[d] => \E q \in Busy' : d \in Chain(idx[q])'
      <4> SUFFICES ASSUME NEW d \in Descs, ~free'[d]
                   PROVE  \E q \in Busy' : d \in Chain(idx[q])'
        OBVIOUS
      <4>1. d \notin C /\ ~free[d]
        BY <1>1, <2>1 DEF TypeOK
      <4>2. PICK q \in Busy : d \in Chain(idx[q])
        BY <1>1, <4>1 DEF Chains
      <4>3. q # p
        BY <4>1, <4>2 DEF C
      <4> QED
        BY <2>4, <2>11, <4>2, <4>3
    <3> QED
      BY <3>1, <3>2, <3>3 DEF Chains
  <2>13. Going' = Going /\ Coming' = Coming
    BY <1>2 DEF Going, Coming, Window, Within
  <2>14. Places'
    <3>1. \A j, k \in Window(seen, availIdx)' : avail'[j] = avail'[k] => j = k
      BY <1>1, <1>2 DEF Places, Window, Within
    <3>2. \A j, k \in Window(used_idx, usedId)' : used'[j] = used'[k] => j = k
      BY <1>1, <1>2 DEF Places, Window, Within
    <3>3. \A d \in Going \cup flight \cup Coming : \E q \in Busy \ {p} : idx[q] = d /\ bdisk[q]
      BY <1>1, <1>7 DEF Places
    <3>4. \A d \in Going' \cup flight' \cup Coming' : \E q \in Busy' : idx'[q] = d /\ bdisk'[q]
      BY <1>2, <2>4, <2>11, <2>13, <3>3
    <3>5. \A q \in Busy' : bdisk'[q] => idx'[q] \in Going' \cup flight' \cup Coming'
      BY <1>1, <1>2, <2>4, <2>11, <2>13 DEF Places
    <3> QED
      BY <1>1, <1>2, <2>13, <3>1, <3>2, <3>4, <3>5 DEF Places
  <2>15. Served'
    BY <1>1, <1>2, <2>4, <2>11, <2>13 DEF Served
  <2>16. Control'
    BY <1>1, <1>2, <1>3, <1>4, <2>2, <2>3, <2>5 DEF Control
  <2>17. Waiters'
    BY <1>1, <1>2, <1>3, <1>4, <2>2, <2>3, <2>5 DEF Waiters, Control
  <2>18. Looked'
    BY <1>1, <1>2, <2>2, <2>3, <2>5 DEF Looked
  <2> QED
    BY <2>8, <2>12, <2>14, <2>15, <2>16, <2>17, <2>18 DEF IInv
<1> QED
  BY <1>6, <1>7
-----------------------------------------------------------------------------
(* virtio_disk_intr().                                                     *)

\* The handler is entered, leaves its loop or acknowledges.
LEMMA HandlerStep ==
  ASSUME IInv, (\E h \in IntrHarts : TakeIrq(h)) \/ LeaveLoop \/ Ack
  PROVE  IInv'
<1>1. TypeOK /\ Control /\ Chains /\ Places /\ Served /\ Waiters /\ Looked
  BY DEF IInv
<1>2. /\ UNCHANGED <<free, next, addr, info, used_idx, bdisk, idx>>
      /\ UNCHANGED <<avail, availIdx, used, usedId, state, chan, pc, cur>>
      /\ UNCHANGED <<seen, flight, raise, served, races>>
  BY DEF TakeIrq, LeaveLoop, Ack, driver, rings, sched, device, ghosts
<1>3. handler' \in {"idle", "loop", "ack"} /\ hart' \in {0, 1} /\ irq' \in BOOLEAN
  BY <1>1, IntrHartsAssumption DEF TakeIrq, LeaveLoop, Ack, device, TypeOK
<1>4. TypeOK'
  BY <1>1, <1>2, <1>3 DEF TypeOK
<1>5. Control'
  BY <1>1, <1>2 DEF Control
<1>6. Chains' /\ Places' /\ Served'
  BY <1>1, <1>2, ChainsKept, PlacesKept, ServedKept DEF rings
<1>7. Waiters'
  BY <1>1, <1>2, FreeKept DEF Waiters
<1>8. Looked'
  BY <1>1, <1>2 DEF Looked, TakeIrq, LeaveLoop, Ack, device
<1> QED
  BY <1>4, <1>5, <1>6, <1>7, <1>8 DEF IInv

\* One entry is taken off the used ring: its owner is woken.
LEMMA HandleUsedStep ==
  ASSUME IInv, HandleUsed
  PROVE  IInv'
<1>1. TypeOK /\ Control /\ Chains /\ Places /\ Served /\ Waiters /\ Looked
  BY DEF IInv
<1>2. used_idx # usedId /\ used_idx \in Descs /\ usedId \in Descs
  BY <1>1 DEF HandleUsed, TypeOK
<1>3. /\ (used_idx + 1) % NUM \in Descs
      /\ Window((used_idx + 1) % NUM, usedId) = Window(used_idx, usedId) \ {used_idx}
      /\ used_idx \in Window(used_idx, usedId)
  BY <1>2, WindowPop
<1>4. PICK d : d = used[used_idx] /\ d \in Coming
  BY <1>3 DEF Coming
<1>5. PICK p \in Busy : /\ idx[p] = d /\ bdisk[p] /\ info[d] = p
                        /\ \A q \in Busy : idx[q] = d => q = p
  BY <1>1, <1>4, HeadsInUse
<1>6. /\ bdisk' = [bdisk EXCEPT ![p] = FALSE]
      /\ state' = Wakeup(state, p)
      /\ used_idx' = (used_idx + 1) % NUM
      /\ used' = [used EXCEPT ![used_idx] = None]
      /\ handler' = "loop"
      /\ UNCHANGED <<free, next, addr, info, idx, avail, availIdx, usedId, chan, pc, cur>>
      /\ UNCHANGED <<hart, seen, flight, raise, irq, served, races>>
  BY <1>4, <1>5 DEF HandleUsed, device, ghosts
<1>7. p \in Procs /\ Busy' = Busy /\ Busy \subseteq Procs
  BY <1>5, <1>6 DEF Busy
<1>8. ~bdisk'[p] /\ \A q \in Procs \ {p} : bdisk'[q] = bdisk[q]
  BY <1>1, <1>6, <1>7 DEF TypeOK
<1>9. Window(used_idx, usedId)' = Window(used_idx, usedId) \ {used_idx}
  BY <1>3, <1>6 DEF Window, Within
<1>10. \A k \in Window(used_idx, usedId) \ {used_idx} : used'[k] = used[k] /\ used[k] # d
  BY <1>1, <1>3, <1>4, <1>6 DEF TypeOK, Window, Places
<1>11. Coming' = Coming \ {d} /\ Going' = Going
  <2>1. Coming' = Coming \ {d}
    BY <1>3, <1>4, <1>9, <1>10 DEF Coming
  <2>2. Going' = Going
    BY <1>6 DEF Going, Window, Within
  <2> QED
    BY <2>1, <2>2
<1>12. /\ \A q \in Procs : /\ state'[q] = "SLEEPING" => state[q] = "SLEEPING" /\ (q # cur => chan[q] # p)
                           /\ state'[q] = "RUNNING" <=> state[q] = "RUNNING"
       /\ state' \in [Procs -> {"RUNNABLE", "RUNNING", "SLEEPING"}]
  <2>1. state \in [Procs -> {"RUNNABLE", "RUNNING", "SLEEPING"}]
    BY <1>1 DEF TypeOK
  <2>2. state' \in [Procs -> {"RUNNABLE", "RUNNING", "SLEEPING"}]
    BY <1>6, <1>7, <2>1, WakeupFacts
  <2> QED
    BY <1>6, <2>2, WakeupFacts
<1>13. TypeOK'
  <2>1. bdisk' \in [Procs -> BOOLEAN] /\ used' \in [Descs -> Descs \cup {None}]
    BY <1>1, <1>6 DEF TypeOK
  <2>2. {availIdx', usedId', used_idx', seen'} \subseteq Descs
    BY <1>1, <1>3, <1>6 DEF TypeOK
  <2> QED
    BY <1>1, <1>6, <1>12, <2>1, <2>2 DEF TypeOK
<1>14. Control'
  BY <1>1, <1>6, <1>12 DEF Control
<1>15. Chains'
  BY <1>1, <1>6, ChainsKept
<1>16. Places'
  <2>1. \A j, k \in Window(used_idx, usedId)' : used'[j] = used'[k] => j = k
    BY <1>1, <1>9, <1>10 DEF Places
  <2>2. \A j, k \in Window(seen, availIdx)' : avail'[j] = avail'[k] => j = k
    BY <1>1, <1>6 DEF Places, Window, Within
  <2>3. Going' \cap flight' = {} /\ Going' \cap Coming' = {} /\ flight' \cap Coming' = {}
    BY <1>1, <1>6, <1>11 DEF Places
  <2>4. \A e \in Going' \cup flight' \cup Coming' : \E q \in Busy' : idx'[q] = e /\ bdisk'[q]
    <3> SUFFICES ASSUME NEW e \in Going' \cup flight' \cup Coming'
                 PROVE  \E q \in Busy' : idx'[q] = e /\ bdisk'[q]
      OBVIOUS
    <3>1. e \in Going \cup flight \cup Coming /\ e # d
      BY <1>1, <1>4, <1>6, <1>11 DEF Places
    <3>2. PICK q \in Busy : idx[q] = e /\ bdisk[q]
      BY <1>1, <3>1 DEF Places
    <3>3. q # p
      BY <1>5, <3>1, <3>2
    <3> QED
      BY <1>6, <1>7, <1>8, <3>2, <3>3
  <2>5. \A q \in Busy' : bdisk'[q] => idx'[q] \in Going' \cup flight' \cup Coming'
    <3> SUFFICES ASSUME NEW q \in Busy, bdisk'[q] PROVE idx[q] \in Going \cup flight \cup (Coming \ {d})
      BY <1>6, <1>7, <1>11
    <3>1. q # p /\ bdisk[q]
      BY <1>7, <1>8
    <3> QED
      BY <1>1, <1>5, <3>1 DEF Places
  <2> QED
    BY <2>1, <2>2, <2>3, <2>4, <2>5 DEF Places
<1>17. Served'
  BY <1>1, <1>4, <1>5, <1>6, <1>7, <1>8, <1>11 DEF Served
<1>18. Waiters'
  BY <1>1, <1>6, <1>12, FreeKept DEF Waiters
<1>19. Looked'
  <2> SUFFICES ASSUME races' = {}, NEW q \in Procs, state'[q] = "SLEEPING", pc'[q] = "wait"
               PROVE  bdisk'[q]
    BY <1>6 DEF Looked
  <2>1. state[q] = "SLEEPING" /\ pc[q] = "wait" /\ (q # cur => chan[q] # p) /\ bdisk[q]
    BY <1>1, <1>6, <1>12 DEF Looked
  <2>2. q # cur /\ chan[q] = q
    BY <1>1, <2>1 DEF Control
  <2> QED
    BY <1>8, <2>1, <2>2
<1> QED
  BY <1>13, <1>14, <1>15, <1>16, <1>17, <1>18, <1>19 DEF IInv
-----------------------------------------------------------------------------
(* The device.                                                             *)

\* The device takes the oldest chain from the available ring.
LEMMA FetchStep ==
  ASSUME IInv, Fetch
  PROVE  IInv'
<1>1. TypeOK /\ Control /\ Chains /\ Places /\ Served /\ Waiters /\ Looked
  BY DEF IInv
<1>2. seen # availIdx /\ seen \in Descs /\ availIdx \in Descs
  BY <1>1 DEF Fetch, TypeOK
<1>3. /\ (seen + 1) % NUM \in Descs
      /\ Window((seen + 1) % NUM, availIdx) = Window(seen, availIdx) \ {seen}
      /\ seen \in Window(seen, availIdx)
  BY <1>2, WindowPop
<1>4. PICK d : d = avail[seen] /\ d \in Going
  BY <1>3 DEF Going
<1>5. d \in Descs
  BY <1>1, <1>4, HeadsInUse
<1>6. /\ flight' = flight \cup {d}
      /\ seen' = (seen + 1) % NUM
      /\ avail' = [avail EXCEPT ![seen] = None]
      /\ UNCHANGED <<free, next, addr, info, used_idx, bdisk, idx, availIdx, used, usedId>>
      /\ UNCHANGED <<state, chan, pc, cur, handler, hart, raise, irq, served, races>>
  BY <1>4 DEF Fetch, driver, sched, ghosts
<1>7. Window(seen, availIdx)' = Window(seen, availIdx) \ {seen}
  BY <1>3, <1>6 DEF Window, Within
<1>8. \A k \in Window(seen, availIdx) \ {seen} : avail'[k] = avail[k] /\ avail[k] # d
  BY <1>1, <1>3, <1>4, <1>6 DEF TypeOK, Window, Places
<1>9. Going' = Going \ {d} /\ Coming' = Coming /\ Busy' = Busy
  <2>1. Going' = Going \ {d}
    BY <1>3, <1>4, <1>7, <1>8 DEF Going
  <2>2. Coming' = Coming /\ Busy' = Busy
    BY <1>6 DEF Coming, Window, Within, Busy
  <2> QED
    BY <2>1, <2>2
<1>10. TypeOK'
  <2>1. flight' \subseteq Descs /\ avail' \in [Descs -> Descs \cup {None}]
    BY <1>1, <1>5, <1>6 DEF TypeOK
  <2>2. {availIdx', usedId', used_idx', seen'} \subseteq Descs
    BY <1>1, <1>3, <1>6 DEF TypeOK
  <2> QED
    BY <1>1, <1>6, <2>1, <2>2 DEF TypeOK
<1>11. Control' /\ Chains'
  BY <1>1, <1>6, ChainsKept DEF Control
<1>12. Places'
  <2>1. \A j, k \in Window(seen, availIdx)' : avail'[j] = avail'[k] => j = k
    BY <1>1, <1>7, <1>8 DEF Places
  <2>2. \A j, k \in Window(used_idx, usedId)' : used'[j] = used'[k] => j = k
    BY <1>1, <1>6 DEF Places, Window, Within
  <2>3. Going' \cap flight' = {} /\ Going' \cap Coming' = {} /\ flight' \cap Coming' = {}
    BY <1>1, <1>4, <1>6, <1>9 DEF Places
  <2>4. Going' \cup flight' \cup Coming' = Going \cup flight \cup Coming
    BY <1>4, <1>6, <1>9
  <2>5. /\ \A e \in Going' \cup flight' \cup Coming' : \E q \in Busy' : idx'[q] = e /\ bdisk'[q]
        /\ \A q \in Busy' : bdisk'[q] => idx'[q] \in Going' \cup flight' \cup Coming'
    BY <1>1, <1>6, <1>9, <2>4 DEF Places
  <2> QED
    BY <2>1, <2>2, <2>3, <2>5 DEF Places
<1>13. Served' /\ Waiters' /\ Looked'
  BY <1>1, <1>6, ServedKept, FreeKept DEF Waiters, Looked
<1> QED
  BY <1>10, <1>11, <1>12, <1>13 DEF IInv

\* The device publishes a completion; the used ring has room for it.
LEMMA CompleteStep ==
  ASSUME IInv, NEW d \in Descs, Complete(d)
  PROVE  IInv'
<1>1. TypeOK /\ Control /\ Chains /\ Places /\ Served /\ Waiters /\ Looked
  BY DEF IInv
<1>2. d \in flight /\ used_idx \in Descs /\ usedId \in Descs
  BY <1>1 DEF Complete, TypeOK
<1>3. PICK p \in Busy : /\ idx[p] = d /\ bdisk[p] /\ addr[next[d]] = p /\ next[d] = DataOf(p)
                        /\ \A q \in Busy : idx[q] = d => q = p
  BY <1>1, <1>2, HeadsInUse
<1>4. /\ flight' = flight \ {d}
      /\ used' = [used EXCEPT ![usedId] = d]
      /\ usedId' = (usedId + 1) % NUM
      /\ raise' = TRUE
      /\ served' = served \cup {p}
      /\ UNCHANGED <<free, next, addr, info, used_idx, bdisk, idx, avail, availIdx>>
      /\ UNCHANGED <<state, chan, pc, cur, handler, hart, seen, irq, races>>
  BY <1>3 DEF Complete, driver, sched
<1>5. next[d] \in Descs /\ next[d] # d /\ d \notin Coming
  BY <1>1, <1>2, <1>3 DEF Chains, Places
<1>6. \A e \in Coming : e \in Descs /\ e # d /\ e # next[d]
  <2> SUFFICES ASSUME NEW e \in Coming PROVE e \in Descs /\ e # next[d]
    BY <1>5
  <2>1. e \in Descs /\ \E q \in Busy : idx[q] = e
    BY <1>1, HeadsInUse
  <2>2. PICK q \in Busy : idx[q] = e
    BY <2>1
  <2>3. CASE q = p
    BY <1>3, <1>5, <2>1, <2>2, <2>3
  <2>4. CASE q # p
    <3>1. next[d] \in Chain(idx[p]) /\ e \in Chain(idx[q])
      BY <1>3, <2>2 DEF Chain
    <3>2. Chain(idx[p]) \cap Chain(idx[q]) = {}
      BY <1>1, <2>4 DEF Chains
    <3> QED
      BY <2>1, <3>1, <3>2
  <2> QED
    BY <2>3, <2>4
<1>7. (usedId + 1) % NUM # used_idx
  <2>1. \A k \in Window(used_idx, usedId) : used[k] \in Descs /\ used[k] # d /\ used[k] # next[d]
    BY <1>6 DEF Coming
  <2> QED
    BY <1>1, <1>2, <1>5, <2>1, WindowRoom DEF Places
<1>8. /\ usedId' \in Descs /\ usedId \notin Window(used_idx, usedId)
      /\ Window(used_idx, usedId)' = Window(used_idx, usedId) \cup {usedId}
  BY <1>2, <1>4, <1>7, WindowPush DEF Window, Within
<1>9. used'[usedId] = d /\ \A k \in Window(used_idx, usedId) : used'[k] = used[k]
  BY <1>1, <1>2, <1>4, <1>8 DEF TypeOK, Window
<1>10. Coming' = Coming \cup {d} /\ Going' = Going /\ Busy' = Busy
  <2>1. Coming' = Coming \cup {d}
    BY <1>8, <1>9 DEF Coming
  <2>2. Going' = Going /\ Busy' = Busy
    BY <1>4 DEF Going, Window, Within, Busy
  <2> QED
    BY <2>1, <2>2
<1>11. TypeOK'
  <2>1. /\ flight' \subseteq Descs /\ used' \in [Descs -> Descs \cup {None}]
        /\ raise' \in BOOLEAN /\ served' \subseteq Procs
    BY <1>1, <1>3, <1>4 DEF TypeOK, Busy
  <2>2. {availIdx', usedId', used_idx', seen'} \subseteq Descs
    BY <1>1, <1>4, <1>8 DEF TypeOK
  <2> QED
    BY <1>1, <1>4, <2>1, <2>2 DEF TypeOK
<1>12. Control' /\ Chains'
  BY <1>1, <1>4, ChainsKept DEF Control
<1>13. Places'
  <2>1. \A j, k \in Window(used_idx, usedId)' : used'[j] = used'[k] => j = k
    BY <1>1, <1>5, <1>8, <1>9 DEF Places, Coming
  <2>2. \A j, k \in Window(seen, availIdx)' : avail'[j] = avail'[k] => j = k
    BY <1>1, <1>4 DEF Places, Window, Within
  <2>3. Going' \cap flight' = {} /\ Going' \cap Coming' = {} /\ flight' \cap Coming' = {}
    BY <1>1, <1>2, <1>4, <1>10 DEF Places
  <2>4. Going' \cup flight' \cup Coming' = Going \cup flight \cup Coming
    BY <1>2, <1>4, <1>10
  <2>5. /\ \A e \in Going' \cup flight' \cup Coming' : \E q \in Busy' : idx'[q] = e /\ bdisk'[q]
        /\ \A q \in Busy' : bdisk'[q] => idx'[q] \in Going' \cup flight' \cup Coming'
    BY <1>1, <1>4, <1>10, <2>4 DEF Places
  <2> QED
    BY <2>1, <2>2, <2>3, <2>5 DEF Places
<1>14. Served'
  BY <1>1, <1>3, <1>4, <1>10 DEF Served
<1>15. Waiters' /\ Looked'
  BY <1>1, <1>4, FreeKept DEF Waiters, Looked
<1> QED
  BY <1>11, <1>12, <1>13, <1>14, <1>15 DEF IInv

\* The device raises its interrupt.
LEMMA RaiseStep ==
  ASSUME IInv, Raise
  PROVE  IInv'
<1>1. TypeOK /\ Control /\ Chains /\ Places /\ Served /\ Waiters /\ Looked
  BY DEF IInv
<1>2. /\ raise /\ raise' = FALSE /\ irq' = TRUE
      /\ races' = IF handler = "ack" THEN races \cup {"ack"} ELSE races
      /\ UNCHANGED <<free, next, addr, info, used_idx, bdisk, idx>>
      /\ UNCHANGED <<avail, availIdx, used, usedId, state, chan, pc, cur, handler, hart>>
      /\ UNCHANGED <<seen, flight, served>>
  BY DEF Raise, driver, rings, sched
<1>3. races' \subseteq {"ack", "sleep"}
  BY <1>1, <1>2 DEF TypeOK
<1>4. TypeOK'
  BY <1>1, <1>2, <1>3 DEF TypeOK
<1>5. Control' /\ Chains' /\ Places' /\ Served' /\ Waiters'
  BY <1>1, <1>2, ChainsKept, PlacesKept, ServedKept, FreeKept DEF rings, Control, Waiters
<1>6. Looked'
  <2> SUFFICES ASSUME races' = {} PROVE Looked'
    BY DEF Looked
  <2>1. races = {} /\ handler # "ack"
    BY <1>2
  <2> QED
    BY <1>1, <1>2, <2>1 DEF Looked, TypeOK
<1> QED
  BY <1>4, <1>5, <1>6 DEF IInv
-----------------------------------------------------------------------------
(* The invariant, and what follows from it.                                *)

\* virtio_disk_init() establishes the invariant: no request, empty rings.
LEMMA IInvInit == Init => IInv
<1> SUFFICES ASSUME Init PROVE IInv
  OBVIOUS
<1>1. TypeOK
  BY DescFacts DEF Init, TypeOK
<1>2. Busy = {}
  BY DEF Init, Busy
<1>3. Window(seen, availIdx) = {} /\ Window(used_idx, usedId) = {}
  <2>1. \A k \in Descs : ~(0 <= k /\ k < 0)
    BY NUMAssumption DEF Descs
  <2>2. Window(0, 0) = {}
    BY <2>1 DEF Window, Within
  <2> QED
    BY <2>2 DEF Init
<1>4. Control
  BY ProcsAssumption DEF Init, Control
<1>5. Chains
  BY <1>2 DEF Init, Chains
<1>6. Places
  <2>1. Going = {} /\ Coming = {}
    BY <1>3 DEF Going, Coming
  <2> QED
    BY <1>2, <1>3, <2>1 DEF Init, Places
<1>7. Served /\ Waiters /\ Looked
  BY <1>2 DEF Init, Served, Waiters, Looked
<1> QED
  BY <1>1, <1>4, <1>5, <1>6, <1>7 DEF IInv

\* Every step of the driver, of the scheduler and of the device keeps it.
LEMMA IInvNext == IInv /\ [Next]_vars => IInv'
<1> SUFFICES ASSUME IInv, [Next]_vars PROVE IInv'
  OBVIOUS
<1>1. ASSUME NEW p \in Procs, Dispatch(p) \/ Preempt(p) \/ Call(p) PROVE IInv'
  BY <1>1, DispatchStep, PreemptStep, CallStep
<1>2. ASSUME NEW p \in Procs, Kernel(p) PROVE IInv'
  BY <1>2, AllocRequestStep, AllocFailsStep, CommitSleepStep, FinishStep DEF Kernel
<1>3. CASE (\E h \in IntrHarts : TakeIrq(h)) \/ Handle
  BY <1>3, HandlerStep, HandleUsedStep DEF Handle
<1>4. CASE Fetch \/ Raise
  BY <1>4, FetchStep, RaiseStep
<1>5. ASSUME NEW d \in Descs, Complete(d) PROVE IInv'
  BY <1>5, CompleteStep
<1>6. CASE UNCHANGED vars
  <2>1. TypeOK /\ Control /\ Chains /\ Places /\ Served /\ Waiters /\ Looked
    BY DEF IInv
  <2>2. /\ UNCHANGED <<free, next, addr, info, used_idx, bdisk, idx>>
        /\ UNCHANGED <<avail, availIdx, used, usedId, state, chan, pc, cur, handler, hart>>
        /\ UNCHANGED <<seen, flight, raise, irq, served, races>>
    BY <1>6 DEF vars, driver, rings, sched, device, ghosts
  <2>3. Chains' /\ Places' /\ Served'
    BY <2>1, <2>2, ChainsKept, PlacesKept, ServedKept DEF rings
  <2>4. TypeOK' /\ Control'
    BY <2>1, <2>2 DEF TypeOK, Control
  <2>5. Waiters' /\ Looked'
    BY <2>1, <2>2, FreeKept DEF Waiters, Looked
  <2> QED
    BY <2>3, <2>4, <2>5 DEF IInv
<1> QED
  BY <1>1, <1>2, <1>3, <1>4, <1>5, <1>6 DEF Next

\* The driver and the device keep the invariant for ever.
THEOREM Inductive == Spec => []IInv
BY IInvInit, IInvNext, PTL DEF Spec

\* Every variable keeps its type: in particular the ring indices stay below
\* NUM, and every link and every ring entry is a descriptor or none.
THEOREM TypeCorrect == Spec => []TypeOK
<1>1. IInv => TypeOK
  BY DEF IInv
<1> QED
  BY <1>1, Inductive, PTL

\* The entries that Unfetched and Unconsumed read are those of the windows.
LEMMA RingEntries ==
  ASSUME TypeOK
  PROVE  Unfetched = Going /\ Unconsumed = Coming
<1>1. seen \in Descs /\ availIdx \in Descs /\ used_idx \in Descs /\ usedId \in Descs
  BY DEF TypeOK
<1>2. {(seen + i) % NUM : i \in 0 .. ((availIdx - seen + NUM) % NUM) - 1} = Window(seen, availIdx)
  BY <1>1, WindowIs
<1>3. {(used_idx + i) % NUM : i \in 0 .. ((usedId - used_idx + NUM) % NUM) - 1}
        = Window(used_idx, usedId)
  BY <1>1, WindowIs
<1>4. Unfetched = Going
  BY <1>2, Zenon DEF Unfetched, Going
<1>5. Unconsumed = Coming
  BY <1>3, Zenon DEF Unconsumed, Coming
<1> QED
  BY <1>4, <1>5

\* DescsConserved: alloc3_desc(), with its undo on failure, and free_chain()
\* neither lose nor share a descriptor.
THEOREM DescriptorsConserved == Spec => []DescsConserved
<1>1. IInv => DescsConserved
  <2> SUFFICES ASSUME IInv PROVE DescsConserved
    OBVIOUS
  <2>1. TypeOK /\ Chains
    BY DEF IInv
  <2>2. \A p \in Busy : idx[p] \in Descs /\ Chain(idx[p]) = {idx[p], DataOf(p), StatusOf(p)}
    BY <2>1 DEF TypeOK, Busy, Chain, DataOf, StatusOf
  <2>3. Descs \ FreeDescs = UNION {Chain(idx[p]) : p \in Busy}
    <3>1. ASSUME NEW d \in Descs, ~free[d] PROVE d \in UNION {Chain(idx[p]) : p \in Busy}
      BY <2>1, <3>1 DEF Chains
    <3>2. ASSUME NEW p \in Busy, NEW d \in Chain(idx[p]) PROVE d \in Descs /\ ~free[d]
      BY <2>1, <2>2 DEF Chains
    <3> QED
      BY <3>1, <3>2 DEF FreeDescs
  <2>4. ASSUME NEW p \in Busy PROVE Cardinality(Chain(idx[p])) = 3
    <3>1. idx[p] # DataOf(p) /\ idx[p] # StatusOf(p) /\ DataOf(p) # StatusOf(p)
      BY <2>1 DEF Chains
    <3>2. PICK a, b, c : /\ a # b /\ a # c /\ b # c /\ Chain(idx[p]) = {a, b, c}
      BY <2>2, <3>1
    <3>3. IsFiniteSet({c}) /\ Cardinality({c}) = 1
      BY FS_Singleton
    <3>4. IsFiniteSet({c} \cup {b}) /\ Cardinality({c} \cup {b}) = 2
      <4>1. b \notin {c}
        BY <3>2
      <4> QED
        BY <3>3, <4>1, FS_AddElement
    <3>5. Cardinality(({c} \cup {b}) \cup {a}) = 3
      <4>1. a \notin {c} \cup {b}
        BY <3>2
      <4> QED
        BY <3>4, <4>1, FS_AddElement
    <3>6. Chain(idx[p]) = ({c} \cup {b}) \cup {a}
      BY <3>2
    <3> QED
      BY <3>5, <3>6
  <2> QED
    BY <2>1, <2>3, <2>4 DEF DescsConserved, Chains
<1> QED
  BY <1>1, Inductive, PTL

\* CompletionsHaveOwner: what virtio_disk_intr() takes off the used ring, or
\* will, leads through disk.info[id].b to a process that waits for it.
THEOREM CompletionsOwned == Spec => []CompletionsHaveOwner
<1>1. IInv => CompletionsHaveOwner
  <2> SUFFICES ASSUME IInv PROVE CompletionsHaveOwner
    OBVIOUS
  <2>1. TypeOK /\ Chains /\ Places
    BY DEF IInv
  <2>2. Unconsumed = Coming
    BY <2>1, RingEntries
  <2> QED
    BY <2>1, <2>2, HeadsInUse DEF CompletionsHaveOwner
<1> QED
  BY <1>1, Inductive, PTL

\* ServedBeforeReturn: the loop on b->disk in virtio_disk_rw() ends only after
\* the device has completed that very request.
THEOREM ReturnsServed == Spec => []ServedBeforeReturn
<1>1. IInv => ServedBeforeReturn
  BY DEF IInv, Control, Served, Busy, ServedBeforeReturn
<1> QED
  BY <1>1, Inductive, PTL

\* NoLostFreeWakeup: nobody sleeps on &disk.free[0] while three descriptors
\* are free.
THEOREM FreeWakeupsNotLost == Spec => []NoLostFreeWakeup
<1>1. IInv => NoLostFreeWakeup
  BY DEF IInv, Waiters, NoLostFreeWakeup
<1> QED
  BY <1>1, Inductive, PTL

\* NoStrandedRequest: as long as neither of the two races with the handler has
\* happened, the request of a sleeping process is still with the device or will
\* be looked at.
THEOREM RequestsNotStranded == Spec => []NoStrandedRequest
<1>1. IInv => NoStrandedRequest
  <2> SUFFICES ASSUME IInv, races = {}, NEW p \in Procs, state[p] = "SLEEPING", pc[p] = "wait"
               PROVE  /\ bdisk[p]
                      /\ \/ idx[p] \in Unfetched \cup flight
                         \/ /\ idx[p] \in Unconsumed
                            /\ raise \/ handler = "loop" \/ (irq /\ handler = "idle")
    BY DEF NoStrandedRequest
  <2>1. TypeOK /\ Control /\ Places /\ Looked
    BY DEF IInv
  <2>2. Unfetched = Going /\ Unconsumed = Coming
    BY <2>1, RingEntries
  <2>3. bdisk[p] /\ p \in Busy
    BY <2>1 DEF Looked, Control, Busy
  <2>4. idx[p] \in Going \cup flight \cup Coming
    BY <2>1, <2>3 DEF Places
  <2>5. Coming # {} => used_idx # usedId
    <3>1. used_idx \in Nat
      BY <2>1, DescFacts DEF TypeOK
    <3> QED
      BY <3>1, DescFacts DEF Coming, Window, Within
  <2> QED
    BY <2>1, <2>2, <2>3, <2>4, <2>5 DEF Looked
<1> QED
  BY <1>1, Inductive, PTL
=============================================================================
