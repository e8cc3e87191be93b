----------------------------- MODULE MemoryProofs -----------------------------
(***************************************************************************)
(* Proofs about Memory, for any number of processes, any page size and any *)
(* regions: no page has two users, none is lost, and the copy loops access *)
(* exactly the bytes of their range.                                       *)
(***************************************************************************)
EXTENDS Memory, FiniteSetTheorems, SequenceTheorems, NaturalsInduction,
        WellFoundedInduction, TLAPS

\* What is mapped by a leaf function, and that nothing is mapped twice.
MappedIn(l) == {v \in VPNs : l[v] # None}
PagesIn(l) == {l[v] : v \in MappedIn(l)}
NoAlias(l) == \A u, v \in MappedIn(l) : l[u] = l[v] => u = v
Leaves == [VPNs -> Pages \cup {None}]

\* A free slot has no pages; a process has a trapframe.
SlotsClean ==
  \A p \in Procs :
    /\ p \in live => tf[p] # None
    /\ p \notin live => tf[p] = None /\ tables[p] = {} /\ leaf[p] = Unmapped

\* Until a brk is cut to 32 bits, nothing is mapped from the heap top up, so
\* that uvm_heap_grow() maps over nothing.
HeapBelowTop ==
  ~truncated => \A p \in Procs : \A v \in HeapVPNs :
                  leaf[p][v] # None => v < AlignUp(heap_top[p])

\* The inductive invariant.
IInv ==
  /\ TypeOK
  /\ SlotsClean
  /\ HeapBelowTop
  /\ NoPageShared
  /\ NoPageLost
-----------------------------------------------------------------------------
(* Addresses and virtual pages.                                            *)

\* The constants are numbers, and slot 0 (proczero) exists.
LEMMA SizeType == NPROC \in Nat /\ PGSIZE \in Nat /\ PGSIZE > 0 /\ 0 \in Procs
BY SizesAssumption DEF Procs

\* No page is None.
LEMMA PagesFacts ==
  /\ None \notin Pages /\ KernPages \subseteq Pages /\ UserPages \subseteq Pages
  /\ IsFiniteSet(Pages) /\ KernPages \cap UserPages = {}
BY PagesAssumption, FS_Union DEF Pages

\* Division of a natural number.
LEMMA Division ==
  ASSUME NEW a \in Nat, NEW d \in Nat, d > 0
  PROVE  /\ a \div d \in Nat
         /\ (a \div d) * d <= a
         /\ a < (a \div d) * d + d
OBVIOUS

\* Products with a positive factor are ordered as the other factors.
LEMMA Products ==
  ASSUME NEW m \in Int, NEW n \in Int, NEW d \in Nat, d > 0
  PROVE  m < n <=> m * d < n * d
OBVIOUS

\* AlignUp(a) is the first page that starts at a or above.
LEMMA AlignUpFirst ==
  ASSUME NEW a \in Nat
  PROVE  /\ AlignUp(a) \in Nat
         /\ \A v \in Int : v * PGSIZE < a <=> v < AlignUp(a)
<1> DEFINE q == AlignUp(a)
<1>1. a + PGSIZE - 1 \in Nat
  BY SizeType
<1>2. q \in Nat /\ q * PGSIZE <= a + PGSIZE - 1 /\ a + PGSIZE - 1 < q * PGSIZE + PGSIZE
  BY <1>1, SizeType, Division DEF AlignUp
<1> HIDE DEF q
<1>3. ASSUME NEW v \in Int PROVE v * PGSIZE < a <=> v < q
  <2>1. q * PGSIZE \in Int /\ v * PGSIZE \in Int
    BY <1>2, SizeType
  <2>2. CASE v < q
    <3>1. v + 1 < q \/ v + 1 = q
      BY <1>2, <2>2
    <3>2. (v + 1) * PGSIZE <= q * PGSIZE
      BY <1>2, <3>1, SizeType, Products
    <3>3. (v + 1) * PGSIZE = v * PGSIZE + PGSIZE
      BY SizeType
    <3> QED
      BY <1>2, <2>1, <2>2, <3>2, <3>3, SizeType
  <2>3. CASE ~(v < q)
    <3>1. ~(v * PGSIZE < q * PGSIZE)
      BY <1>2, <2>3, SizeType, Products
    <3> QED
      BY <1>2, <2>1, <2>3, <3>1, SizeType
  <2> QED
    BY <2>2, <2>3
<1> QED
  BY <1>2, <1>3 DEF q

\* A higher address is not in a lower page.
LEMMA AlignUpMonotone ==
  ASSUME NEW a \in Nat, NEW b \in Nat, a <= b
  PROVE  AlignUp(a) <= AlignUp(b)
<1>1. AlignUp(a) \in Nat /\ AlignUp(b) \in Nat
  BY AlignUpFirst
<1>2. ~(AlignUp(b) * PGSIZE < b) /\ (AlignUp(b) < AlignUp(a) => AlignUp(b) * PGSIZE < a)
  BY <1>1, AlignUpFirst
<1>3. AlignUp(b) * PGSIZE \in Int
  BY <1>1, SizeType
<1> QED
  BY <1>1, <1>2, <1>3

\* The virtual pages of code and heap; the code is one of them.
LEMMA VPNFacts ==
  /\ HeapVPNs \subseteq Nat /\ HeapVPNs \subseteq VPNs /\ StackVPNs \subseteq VPNs
  /\ CodeVPN \in HeapVPNs /\ CodeVPN \in VPNs
  /\ HeapVPNs \cap StackVPNs = {} /\ VPNs \subseteq Int
  /\ \A top \in 0 .. MaxBrk : AlignUp(top) - 1 \in -1 .. AlignUp(MaxBrk) - 1
<1>1. AlignUp(MaxBrk) \in Nat
  BY AlignUpFirst, MaxBrkAssumption
<1>2. 1 * PGSIZE < MaxBrk
  BY MaxBrkAssumption, SizeType
<1>3. 1 < AlignUp(MaxBrk)
  BY <1>2, AlignUpFirst, MaxBrkAssumption
<1>4. \A top \in 0 .. MaxBrk : AlignUp(top) \in Nat /\ AlignUp(top) <= AlignUp(MaxBrk)
  BY AlignUpFirst, AlignUpMonotone, MaxBrkAssumption
<1> QED
  BY <1>1, <1>3, <1>4 DEF HeapVPNs, StackVPNs, VPNs, CodeVPN

\* There are finitely many.
LEMMA VPNsFinite == IsFiniteSet(VPNs)
<1>1. IsFiniteSet(HeapVPNs)
  BY AlignUpFirst, MaxBrkAssumption, FS_Interval DEF HeapVPNs
<1>2. IsFiniteSet(StackVPNs)
  <2>1. StackVPNs = {-1} \cup {-2}
    BY DEF StackVPNs
  <2> QED
    BY <2>1, FS_Singleton, FS_Union
<1> QED
  BY <1>1, <1>2, FS_Union DEF VPNs
-----------------------------------------------------------------------------
(* Taking pages.                                                           *)

\* pmem_alloc() called n times takes n pages of the region.
LEMMA AllocTakes ==
  ASSUME NEW S, IsFiniteSet(S), NEW n \in Nat, n <= Cardinality(S)
  PROVE  Alloc(S, n) \subseteq S /\ Cardinality(Alloc(S, n)) = n /\ IsFiniteSet(Alloc(S, n))
<1> DEFINE m == Cardinality(S)
<1>1. m \in Nat /\ ExistsBijection(1 .. m, S)
  BY FS_CardinalityType
<1>2. PICK f \in [1 .. m -> S] : IsInjective(f)
  BY <1>1 DEF ExistsBijection, Bijection, Injection
<1> DEFINE T == {f[i] : i \in 1 .. n}
           g == [i \in 1 .. n |-> f[i]]
<1> HIDE DEF m
<1>3. 1 .. n \subseteq 1 .. m
  BY <1>1 DEF m
<1>4. T \subseteq S
  BY <1>2, <1>3
<1>5. g \in Bijection(1 .. n, T)
  <2>1. g \in [1 .. n -> T]
    OBVIOUS
  <2>2. IsInjective(g)
    BY <1>2, <1>3 DEF IsInjective
  <2>3. \A t \in T : \E i \in 1 .. n : g[i] = t
    OBVIOUS
  <2> QED
    BY <2>1, <2>2, <2>3 DEF Bijection, Injection, Surjection
<1>6. Cardinality(T) = n
  BY <1>5, FS_CountingElements DEF ExistsBijection
<1> HIDE DEF T
<1>7. Alloc(S, n) \subseteq S /\ Cardinality(Alloc(S, n)) = n
  BY <1>4, <1>6 DEF Alloc
<1> QED
  BY <1>7, FS_Subset

\* f is one-to-one from V onto T.
OneToOne(f, V, T) ==
  /\ f \in [V -> T]
  /\ \A u, v \in V : f[u] = f[v] => u = v
  /\ \A t \in T : \E v \in V : f[v] = t

\* As many pages as virtual pages: each virtual page gets one of its own.
LEMMA PlaceBijects ==
  ASSUME NEW V, NEW T, IsFiniteSet(V), IsFiniteSet(T), Cardinality(V) = Cardinality(T)
  PROVE  OneToOne(Place(V, T), V, T)
<1> DEFINE f == Place(V, T)
<1>1. \E h \in [V -> T] : \A u, v \in V : h[u] = h[v] => u = v
  <2>1. ExistsBijection(V, T)
    BY FS_SameCardinalityBij
  <2>2. PICK h : h \in Bijection(V, T)
    BY <2>1 DEF ExistsBijection
  <2>3. h \in [V -> T] /\ \A u, v \in V : h[u] = h[v] => u = v
    BY <2>2 DEF Bijection, Injection, IsInjective
  <2> QED
    BY <2>3
<1>2. f \in [V -> T] /\ \A u, v \in V : f[u] = f[v] => u = v
  BY <1>1 DEF Place
<1> HIDE DEF f
<1>3. f \in Injection(V, T)
  BY <1>2 DEF Injection, IsInjective
<1>4. f \in Surjection(V, T)
  BY <1>3, FS_Injection
<1> QED
  BY <1>2, <1>4 DEF Surjection, f, OneToOne
-----------------------------------------------------------------------------
(* Mapping and unmapping pages.                                            *)

\* Pages mapped over a leaf function are added to its pages, and nothing is
\* lost when there was nothing where they are mapped.
LEMMA MapAdds ==
  ASSUME NEW l \in Leaves, NoAlias(l), NEW V \in SUBSET VPNs, NEW U \in SUBSET Pages,
         PagesIn(l) \cap U = {}, NEW f, OneToOne(f, V, U)
  PROVE  /\ Map(l, f) \in Leaves /\ NoAlias(Map(l, f))
         /\ PagesIn(Map(l, f)) \subseteq PagesIn(l) \cup U
         /\ (\A v \in V : l[v] = None) => PagesIn(Map(l, f)) = PagesIn(l) \cup U
<1> DEFINE m == Map(l, f)
<1>1. m \in Leaves /\ (\A v \in V : m[v] = f[v]) /\ (\A v \in VPNs \ V : m[v] = l[v])
  BY DEF Map, Leaves, OneToOne
<1>2. \A v \in V : f[v] \in U /\ f[v] # None
  BY PagesFacts DEF OneToOne
<1>3. \A v \in VPNs \ V : l[v] # None => l[v] \in PagesIn(l)
  BY DEF PagesIn, MappedIn
<1> HIDE DEF m
<1>4. NoAlias(m)
  <2> SUFFICES ASSUME NEW u \in VPNs, NEW v \in VPNs, m[u] # None, m[v] # None, m[u] = m[v]
               PROVE  u = v
    BY DEF NoAlias, MappedIn
  <2>1. CASE u \in V /\ v \in V
    BY <1>1, <2>1 DEF OneToOne
  <2>2. CASE u \notin V /\ v \notin V
    BY <1>1, <2>2 DEF NoAlias, MappedIn
  <2>3. CASE u \in V /\ v \notin V
    BY <1>1, <1>2, <1>3, <2>3
  <2>4. CASE u \notin V /\ v \in V
    BY <1>1, <1>2, <1>3, <2>4
  <2> QED
    BY <2>1, <2>2, <2>3, <2>4
<1>5. PagesIn(m) \subseteq PagesIn(l) \cup U
  BY <1>1, <1>2, <1>3 DEF PagesIn, MappedIn
<1>6. U \subseteq PagesIn(m)
  BY <1>1, <1>2 DEF PagesIn, MappedIn, OneToOne
<1>7. (\A v \in V : l[v] = None) => PagesIn(l) \subseteq PagesIn(m)
  BY <1>1 DEF PagesIn, MappedIn
<1> QED
  BY <1>1, <1>4, <1>5, <1>6, <1>7 DEF m

\* Unmapping takes the pages that are unmapped from the others.
LEMMA UnmapRemoves ==
  ASSUME NEW l \in Leaves, NoAlias(l), NEW V \in SUBSET VPNs
  PROVE  /\ Unmap(l, V) \in Leaves /\ NoAlias(Unmap(l, V))
         /\ PagesIn(Unmap(l, V)) = PagesIn(l) \ {l[v] : v \in V \cap MappedIn(l)}
<1> DEFINE m == Unmap(l, V)
<1>1. m \in Leaves /\ (\A v \in V : m[v] = None) /\ (\A v \in VPNs \ V : m[v] = l[v])
  BY DEF Unmap, Leaves
<1> HIDE DEF m
<1>2. NoAlias(m)
  BY <1>1 DEF NoAlias, MappedIn
<1>3. MappedIn(m) = MappedIn(l) \ V
  BY <1>1 DEF MappedIn
<1>4. PagesIn(m) = {l[v] : v \in MappedIn(l) \ V}
  BY <1>1, <1>3 DEF PagesIn, MappedIn
<1>5. {l[v] : v \in MappedIn(l) \ V} = PagesIn(l) \ {l[v] : v \in V \cap MappedIn(l)}
  BY DEF PagesIn, NoAlias
<1> QED
  BY <1>1, <1>2, <1>4, <1>5 DEF m

\* Nothing is mapped in an empty page table.
LEMMA UnmappedEmpty == Unmapped \in Leaves /\ NoAlias(Unmapped) /\ PagesIn(Unmapped) = {}
BY DEF Unmapped, Leaves, NoAlias, PagesIn, MappedIn

\* The model's own names for the pages of a process.
LEMMA LeafPagesAre ==
  ASSUME NEW p \in Procs
  PROVE  Mapped(p) = MappedIn(leaf[p]) /\ LeafPages(p) = PagesIn(leaf[p])
BY DEF Mapped, MappedIn, LeafPages, PagesIn
-----------------------------------------------------------------------------
(* A step of one process.                                                  *)

\* The pages of a process with trapframe t, tables T and leaf function l.
PagesOf(t, T, l) == ({t} \ {None}) \cup T \cup PagesIn(l)

\* They are different pages.
Apart(t, T, l) == t \notin T \cup PagesIn(l) /\ T \cap PagesIn(l) = {} /\ NoAlias(l)

\* NoPageShared and NoPageLost in these terms ...
NoneShared ==
  /\ kern \cap user = {}
  /\ \A p \in Procs :
       /\ PagesOf(tf[p], tables[p], leaf[p]) \cap (kern \cup user) = {}
       /\ \A q \in Procs \ {p} : PagesOf(tf[p], tables[p], leaf[p])
                                   \cap PagesOf(tf[q], tables[q], leaf[q]) = {}
       /\ Apart(tf[p], tables[p], leaf[p])

NoneLost ==
  ~truncated =>
    Pages = kern \cup user \cup UNION {PagesOf(tf[p], tables[p], leaf[p]) : p \in Procs}

\* ... before a step ...
LEMMA Shapes == (NoPageShared <=> NoneShared) /\ (NoPageLost <=> NoneLost)
<1>1. \A p \in Procs : /\ Mapped(p) = MappedIn(leaf[p]) /\ LeafPages(p) = PagesIn(leaf[p])
                       /\ Owned(p) = PagesOf(tf[p], tables[p], leaf[p])
  BY LeafPagesAre DEF Owned, PagesOf
<1>2. NoPageShared <=> NoneShared
  BY <1>1 DEF NoPageShared, NoneShared, Apart, NoAlias
<1>3. NoPageLost <=> NoneLost
  BY <1>1 DEF NoPageLost, NoneLost
<1> QED
  BY <1>2, <1>3

\* ... and after it.
LEMMA ShapesNext == (NoPageShared' <=> NoneShared') /\ (NoPageLost' <=> NoneLost')
BY Shapes, PTL

\* Pages that move between the two lists and one process stay apart from those
\* of the others, and none is lost if that process and the lists lose none.
LEMMA OneMoves ==
  ASSUME NoPageShared, NoPageLost, NEW c \in Procs,
         \A q \in Procs \ {c} : tf'[q] = tf[q] /\ tables'[q] = tables[q] /\ leaf'[q] = leaf[q],
         NEW P, P = PagesOf(tf[c], tables[c], leaf[c]),
         NEW Q, Q = PagesOf(tf'[c], tables'[c], leaf'[c]),
         kern' \cap user' = {}, Q \cap (kern' \cup user') = {},
         kern' \cup user' \cup Q \subseteq kern \cup user \cup P,
         Apart(tf'[c], tables'[c], leaf'[c]),
         ~truncated' => ~truncated /\ kern \cup user \cup P \subseteq kern' \cup user' \cup Q
  PROVE  NoPageShared' /\ NoPageLost'
<1> DEFINE A(q) == PagesOf(tf[q], tables[q], leaf[q])
           B(q) == PagesOf(tf'[q], tables'[q], leaf'[q])
<1>1. A(c) = P /\ B(c) = Q /\ \A q \in Procs \ {c} : B(q) = A(q)
  OBVIOUS
<1>2. /\ kern \cap user = {}
      /\ \A p \in Procs : A(p) \cap (kern \cup user) = {} /\ \A q \in Procs \ {p} : A(p) \cap A(q) = {}
      /\ \A p \in Procs : Apart(tf[p], tables[p], leaf[p])
  BY Shapes DEF NoneShared
<1>3. ~truncated => Pages = kern \cup user \cup UNION {A(p) : p \in Procs}
  BY Shapes DEF NoneLost
<1>4. \A p \in Procs : Apart(tf'[p], tables'[p], leaf'[p])
  BY <1>2
<1> HIDE DEF A, B
<1>5. \A p \in Procs : B(p) \cap (kern' \cup user') = {}
  BY <1>1, <1>2
<1>6. \A p \in Procs : \A q \in Procs \ {p} : B(p) \cap B(q) = {}
  BY <1>1, <1>2
<1>7. ~truncated' => Pages = kern' \cup user' \cup UNION {B(p) : p \in Procs}
  <2> SUFFICES ASSUME ~truncated' PROVE Pages = kern' \cup user' \cup UNION {B(p) : p \in Procs}
    OBVIOUS
  <2>1. kern \cup user \cup A(c) = kern' \cup user' \cup B(c)
    BY <1>1
  <2>2. UNION {A(p) : p \in Procs} = A(c) \cup UNION {A(p) : p \in Procs \ {c}}
    OBVIOUS
  <2>3. UNION {B(p) : p \in Procs} = B(c) \cup UNION {A(p) : p \in Procs \ {c}}
    BY <1>1
  <2> QED
    BY <1>3, <2>1, <2>2, <2>3
<1> QED
  BY <1>4, <1>5, <1>6, <1>7, ShapesNext DEF B, NoneShared, NoneLost
-----------------------------------------------------------------------------
(* The steps.                                                              *)

\* fork gives pages of the two lists to a slot that has none.
LEMMA ForkStep ==
  ASSUME IInv, NEW p \in Procs, NEW c \in Procs, Fork(p, c)
  PROVE  IInv'
<1> DEFINE V == Copied(p)
           K == Alloc(kern, TABLES + 1)
           t == CHOOSE x \in K : TRUE
           U == Alloc(user, Cardinality(V))
           g == Place(V, U)
<1>1. TypeOK /\ SlotsClean /\ NoPageShared /\ NoPageLost /\ HeapBelowTop
  BY DEF IInv
<1>2. /\ c \notin live
      /\ kern' = kern \ K /\ user' = user \ U
      /\ tf' = [tf EXCEPT ![c] = t]
      /\ tables' = [tables EXCEPT ![c] = K \ {t}]
      /\ leaf' = [leaf EXCEPT ![c] = Map(Unmapped, g)]
      /\ live' = live \cup {c}
      /\ heap_top' = [heap_top EXCEPT ![c] = heap_top[p]]
      /\ UNCHANGED <<ustack_pages, faulted, truncated>>
      /\ Cardinality(kern) >= TABLES + 1
      /\ Cardinality(user) >= Cardinality(V)
  BY DEF Fork
<1>3. tf[c] = None /\ tables[c] = {} /\ leaf[c] = Unmapped
  BY <1>1, <1>2 DEF SlotsClean
<1>4. IsFiniteSet(kern) /\ IsFiniteSet(user) /\ kern \subseteq Pages /\ user \subseteq Pages
  BY <1>1, PagesFacts, FS_Subset DEF TypeOK
<1>5. V \subseteq VPNs /\ IsFiniteSet(V) /\ Cardinality(V) \in Nat
  <2>1. V \subseteq VPNs
    BY DEF Copied, Mapped
  <2> HIDE DEF V
  <2> QED
    BY <2>1, VPNsFinite, FS_Subset, FS_CardinalityType
<1>6. K \subseteq kern /\ Cardinality(K) = 6 /\ IsFiniteSet(K)
  <2>1. TABLES + 1 = 6
    BY DEF TABLES
  <2> QED
    BY <1>2, <1>4, <2>1, FS_CardinalityType, AllocTakes
<1>7. t \in K
  <2> HIDE DEF K
  <2>1. K # {}
    BY <1>6, FS_EmptySet
  <2> QED
    BY <2>1
<1>8. U \subseteq user /\ Cardinality(U) = Cardinality(V) /\ IsFiniteSet(U)
  <2> HIDE DEF V
  <2> QED
    BY <1>2, <1>4, <1>5, FS_CardinalityType, AllocTakes
<1> HIDE DEF V, K, t, U
<1>9. OneToOne(g, V, U)
  BY <1>5, <1>8, PlaceBijects
<1> HIDE DEF g
<1> DEFINE l == Map(Unmapped, g)
<1>10. l \in Leaves /\ NoAlias(l) /\ PagesIn(l) = U
  <2>1. \A v \in V : Unmapped[v] = None
    BY <1>5 DEF Unmapped
  <2>2. U \in SUBSET Pages /\ V \in SUBSET VPNs /\ PagesIn(Unmapped) \cap U = {}
    BY <1>4, <1>5, <1>8, UnmappedEmpty
  <2>3. Unmapped \in Leaves /\ NoAlias(Unmapped)
    BY UnmappedEmpty
  <2>4. ASSUME NEW m \in Leaves, NoAlias(m), PagesIn(m) \cap U = {}, \A v \in V : m[v] = None
        PROVE  Map(m, g) \in Leaves /\ NoAlias(Map(m, g)) /\ PagesIn(Map(m, g)) = PagesIn(m) \cup U
    BY <1>9, <2>2, <2>4, MapAdds
  <2>5. l \in Leaves /\ NoAlias(l) /\ PagesIn(l) = PagesIn(Unmapped) \cup U
    BY <2>1, <2>2, <2>3, <2>4
  <2> QED
    BY <2>5, UnmappedEmpty
<1>11. \A v \in VPNs : l[v] # None => v \in V
  BY <1>9 DEF Map, Unmapped, OneToOne
<1> HIDE DEF l
<1>12. tf'[c] = t /\ tables'[c] = K \ {t} /\ leaf'[c] = l /\ heap_top'[c] = heap_top[p]
  BY <1>1, <1>2 DEF TypeOK, l
<1>13. \A q \in Procs \ {c} : /\ tf'[q] = tf[q] /\ tables'[q] = tables[q] /\ leaf'[q] = leaf[q]
                             /\ heap_top'[q] = heap_top[q]
  BY <1>1, <1>2 DEF TypeOK
<1>14. t \in Pages /\ t # None /\ None \notin kern /\ None \notin user
  BY <1>4, <1>6, <1>7, PagesFacts
<1>15. TypeOK'
  <2>1. tf' \in [Procs -> Pages \cup {None}] /\ tables' \in [Procs -> SUBSET Pages]
    BY <1>1, <1>2, <1>4, <1>6, <1>14 DEF TypeOK
  <2>2. leaf' \in [Procs -> [VPNs -> Pages \cup {None}]]
    BY <1>1, <1>2, <1>10 DEF TypeOK, Leaves, l
  <2>3. heap_top' \in [Procs -> 0 .. MaxBrk]
    BY <1>1, <1>2 DEF TypeOK
  <2> QED
    BY <1>1, <1>2, <2>1, <2>2, <2>3 DEF TypeOK
<1>16. SlotsClean'
  BY <1>1, <1>2, <1>12, <1>13, <1>14 DEF SlotsClean
<1>17. HeapBelowTop'
  <2> SUFFICES ASSUME ~truncated', NEW q \in Procs, NEW v \in HeapVPNs, leaf'[q][v] # None
               PROVE  v < AlignUp(heap_top'[q])
    BY DEF HeapBelowTop
  <2>1. CASE q = c
    <3>1. v \in V /\ v \in VPNs /\ v \notin StackVPNs /\ v \in Int
      BY <1>11, <1>12, <2>1, VPNFacts
    <3>2. v * PGSIZE < heap_top[p] /\ heap_top[p] \in Nat
      BY <1>1, <3>1 DEF V, Copied, TypeOK
    <3> QED
      BY <1>12, <2>1, <3>1, <3>2, AlignUpFirst
  <2>2. CASE q # c
    BY <1>1, <1>2, <1>13, <2>2 DEF HeapBelowTop
  <2> QED
    BY <2>1, <2>2
<1>18. PagesOf(tf[c], tables[c], leaf[c]) = {}
  BY <1>3, UnmappedEmpty DEF PagesOf
<1>19. PagesOf(tf'[c], tables'[c], leaf'[c]) = K \cup U
  BY <1>7, <1>10, <1>12, <1>14 DEF PagesOf
<1>20. kern \cap user = {}
  BY <1>1 DEF NoPageShared
<1>21. Apart(tf'[c], tables'[c], leaf'[c])
  BY <1>6, <1>7, <1>8, <1>10, <1>12, <1>20 DEF Apart
<1>22. NoPageShared' /\ NoPageLost'
  <2>1. kern' \cap user' = {} /\ (K \cup U) \cap (kern' \cup user') = {}
    BY <1>2, <1>6, <1>8, <1>20
  <2>2. kern' \cup user' \cup (K \cup U) = kern \cup user \cup {}
    BY <1>2, <1>6, <1>8
  <2>3. truncated' = truncated
    BY <1>2
  <2> QED
    BY <1>1, <1>13, <1>18, <1>19, <1>21, <2>1, <2>2, <2>3, OneMoves
<1> QED
  BY <1>15, <1>16, <1>17, <1>22 DEF IInv

\* proc_free() gives all the pages of a process back.
LEMMA ReapStep ==
  ASSUME IInv, NEW c \in Procs, Reap(c)
  PROVE  IInv'
<1>1. TypeOK /\ SlotsClean /\ NoPageShared /\ NoPageLost /\ HeapBelowTop
  BY DEF IInv
<1>2. /\ c \in live
      /\ kern' = kern \cup {tf[c]}
      /\ user' = user \cup tables[c] \cup PagesIn(leaf[c])
      /\ live' = live \ {c}
      /\ tf' = [tf EXCEPT ![c] = None]
      /\ tables' = [tables EXCEPT ![c] = {}]
      /\ leaf' = [leaf EXCEPT ![c] = Unmapped]
      /\ heap_top' = [heap_top EXCEPT ![c] = 0]
      /\ UNCHANGED <<ustack_pages, faulted, truncated>>
  BY DEF Reap, Calls, PagesIn, MappedIn, Mapped
<1>3. tf[c] \in Pages /\ tf[c] # None
  BY <1>1, <1>2 DEF SlotsClean, TypeOK
<1>4. tf'[c] = None /\ tables'[c] = {} /\ leaf'[c] = Unmapped
  BY <1>1, <1>2 DEF TypeOK
<1>5. \A q \in Procs \ {c} : /\ tf'[q] = tf[q] /\ tables'[q] = tables[q] /\ leaf'[q] = leaf[q]
                             /\ heap_top'[q] = heap_top[q]
  BY <1>1, <1>2 DEF TypeOK
<1>6. tables[c] \subseteq Pages /\ PagesIn(leaf[c]) \subseteq Pages
  BY <1>1 DEF TypeOK, PagesIn, MappedIn
<1>7. TypeOK'
  <2>1. kern' \subseteq Pages /\ user' \subseteq Pages /\ live' \subseteq Procs
    BY <1>1, <1>2, <1>3, <1>6 DEF TypeOK
  <2>2. tf' \in [Procs -> Pages \cup {None}] /\ tables' \in [Procs -> SUBSET Pages]
    BY <1>1, <1>2 DEF TypeOK
  <2>3. leaf' \in [Procs -> [VPNs -> Pages \cup {None}]]
    BY <1>1, <1>2, UnmappedEmpty DEF TypeOK, Leaves
  <2>4. heap_top' \in [Procs -> 0 .. MaxBrk]
    BY <1>1, <1>2, MaxBrkAssumption DEF TypeOK
  <2> QED
    BY <1>1, <1>2, <2>1, <2>2, <2>3, <2>4 DEF TypeOK
<1>8. SlotsClean'
  BY <1>1, <1>2, <1>4, <1>5 DEF SlotsClean
<1>9. HeapBelowTop'
  BY <1>1, <1>2, <1>4, <1>5, VPNFacts DEF HeapBelowTop, Unmapped
<1>10. PagesOf(tf[c], tables[c], leaf[c]) = {tf[c]} \cup tables[c] \cup PagesIn(leaf[c])
  BY <1>3 DEF PagesOf
<1>11. PagesOf(tf'[c], tables'[c], leaf'[c]) = {}
  BY <1>4, UnmappedEmpty DEF PagesOf
<1>12. NoneShared
  BY <1>1, Shapes
<1>13. Apart(tf'[c], tables'[c], leaf'[c])
  BY <1>4, UnmappedEmpty DEF Apart
<1>14. NoPageShared' /\ NoPageLost'
  <2>1. kern' \cap user' = {}
    BY <1>2, <1>10, <1>12 DEF NoneShared, Apart
  <2>2. kern' \cup user' \cup {} = kern \cup user \cup ({tf[c]} \cup tables[c] \cup PagesIn(leaf[c]))
    BY <1>2
  <2>3. truncated' = truncated
    BY <1>2
  <2> QED
    BY <1>1, <1>5, <1>10, <1>11, <1>13, <2>1, <2>2, <2>3, OneMoves
<1> QED
  BY <1>7, <1>8, <1>9, <1>14 DEF IInv

\* The top uvm_heap_grow() goes to is one of those that processes ask for, not
\* below the old one, and the pages it goes through are pages of the heap.
LEMMA TargetFacts ==
  ASSUME NEW p \in Procs, heap_top[p] \in 0 .. MaxBrk,
         NEW new \in Requests(p), new > heap_top[p],
         NEW V, V = HeapPages(heap_top[p], Target(p, new))
  PROVE  /\ Target(p, new) \in heap_top[p] .. MaxBrk
         /\ V \subseteq HeapVPNs /\ V \subseteq VPNs
         /\ \A v \in V : ~(v < AlignUp(heap_top[p])) /\ v < AlignUp(Target(p, new))
         /\ IsFiniteSet(V) /\ Cardinality(V) \in Nat
         /\ Cardinality(V) = AlignUp(Target(p, new)) - AlignUp(heap_top[p])
         /\ AlignUp(heap_top[p]) \in Nat
<1> DEFINE h == heap_top[p]
           top == Target(p, new)
<1>1. MaxBrk \in Nat /\ LEN \in Nat /\ LEN > MaxBrk /\ Tops \subseteq 1 .. MaxBrk
  BY MaxBrkAssumption, LenAssumption, TopsAssumption
<1>2. top \in h .. MaxBrk
  <2>1. CASE new \in Tops
    BY <1>1, <2>1 DEF Target
  <2>2. CASE \E y \in Tops : y >= h /\ new = y + LEN
    <3>1. PICK y \in Tops : y >= h /\ new = y + LEN
      BY <2>2
    <3>2. (y + LEN - h) % LEN = y - h
      BY <1>1, <3>1
    <3> QED
      BY <1>1, <3>1, <3>2 DEF Target
  <2> QED
    BY <2>1, <2>2 DEF Requests
<1> HIDE DEF top, h
<1>3. h \in 0 .. MaxBrk /\ top \in 0 .. MaxBrk /\ h \in Nat /\ top \in Nat /\ h <= top
  BY <1>1, <1>2 DEF h
<1>4. /\ AlignUp(h) \in Nat /\ AlignUp(top) \in Nat /\ AlignUp(MaxBrk) \in Nat
      /\ AlignUp(h) <= AlignUp(top) /\ AlignUp(top) <= AlignUp(MaxBrk)
  BY <1>1, <1>3, AlignUpFirst, AlignUpMonotone
<1>5. V = AlignUp(h) .. AlignUp(top) - 1
  BY DEF HeapPages, h, top
<1>6. V \subseteq HeapVPNs /\ V \subseteq VPNs
  BY <1>4, <1>5, VPNFacts DEF HeapVPNs
<1>7. \A v \in V : ~(v < AlignUp(h)) /\ v < AlignUp(top)
  BY <1>4, <1>5
<1>8. IsFiniteSet(V) /\ Cardinality(V) = AlignUp(top) - AlignUp(h) /\ Cardinality(V) \in Nat
  <2>1. /\ AlignUp(h) \in Int /\ AlignUp(top) - 1 \in Int
        /\ AlignUp(top) - AlignUp(h) \in Nat
        /\ (IF AlignUp(h) > AlignUp(top) - 1 THEN 0 ELSE AlignUp(top) - 1 - AlignUp(h) + 1)
             = AlignUp(top) - AlignUp(h)
    BY <1>4
  <2> QED
    BY <1>5, <2>1, FS_Interval
<1> QED
  BY <1>2, <1>4, <1>6, <1>7, <1>8 DEF h, top

\* uvm_heap_grow() maps pages of the user list.
LEMMA GrowStep ==
  ASSUME IInv, NEW p \in Procs, NEW new \in Requests(p), Grow(p, new)
  PROVE  IInv'
<1> DEFINE top == Target(p, new)
           V == HeapPages(heap_top[p], top)
           U == Alloc(user, Cardinality(V))
           g == Place(V, U)
           l == Map(leaf[p], g)
<1>1. TypeOK /\ SlotsClean /\ NoPageShared /\ NoPageLost /\ HeapBelowTop
  BY DEF IInv
<1>2. /\ p \in live /\ new > heap_top[p]
      /\ Cardinality(user) >= Cardinality(V)
      /\ user' = user \ U
      /\ leaf' = [leaf EXCEPT ![p] = l]
      /\ heap_top' = IF top = new THEN [heap_top EXCEPT ![p] = new] ELSE heap_top
      /\ truncated' = (truncated \/ top # new)
      /\ UNCHANGED <<kern, live, tf, tables, ustack_pages, faulted>>
  BY DEF Grow, Calls
<1>3. heap_top[p] \in 0 .. MaxBrk /\ user \subseteq Pages /\ IsFiniteSet(user) /\ leaf[p] \in Leaves
  BY <1>1, PagesFacts, FS_Subset DEF TypeOK, Leaves
<1>4. /\ top \in heap_top[p] .. MaxBrk
      /\ V \subseteq HeapVPNs /\ V \subseteq VPNs
      /\ \A v \in V : ~(v < AlignUp(heap_top[p])) /\ v < AlignUp(top)
      /\ IsFiniteSet(V) /\ Cardinality(V) \in Nat
  BY <1>2, <1>3, TargetFacts
<1> HIDE DEF top, V
<1>5. U \subseteq user /\ Cardinality(U) = Cardinality(V) /\ IsFiniteSet(U)
  BY <1>2, <1>3, <1>4, FS_CardinalityType, AllocTakes
<1> HIDE DEF U
<1>6. OneToOne(g, V, U)
  BY <1>4, <1>5, PlaceBijects
<1> HIDE DEF g
<1>7. NoneShared
  BY <1>1, Shapes
<1>8. /\ NoAlias(leaf[p])
      /\ PagesOf(tf[p], tables[p], leaf[p]) \cap (kern \cup user) = {}
      /\ PagesIn(leaf[p]) \subseteq PagesOf(tf[p], tables[p], leaf[p])
      /\ Apart(tf[p], tables[p], leaf[p]) /\ kern \cap user = {}
  BY <1>7 DEF NoneShared, Apart, PagesOf
<1>9. /\ l \in Leaves /\ NoAlias(l)
      /\ PagesIn(l) \subseteq PagesIn(leaf[p]) \cup U
      /\ (\A v \in V : leaf[p][v] = None) => PagesIn(l) = PagesIn(leaf[p]) \cup U
  <2>1. PagesIn(leaf[p]) \cap U = {} /\ U \in SUBSET Pages /\ V \in SUBSET VPNs
    BY <1>3, <1>4, <1>5, <1>8
  <2> QED
    BY <1>3, <1>6, <1>8, <2>1, MapAdds, Zenon
<1>10. \A v \in VPNs : l[v] # None => v \in V \/ leaf[p][v] # None
  BY <1>6 DEF Map, OneToOne
<1> HIDE DEF l
<1>11. leaf'[p] = l /\ tf'[p] = tf[p] /\ tables'[p] = tables[p]
  BY <1>1, <1>2 DEF TypeOK
<1>12. \A q \in Procs \ {p} : /\ tf'[q] = tf[q] /\ tables'[q] = tables[q] /\ leaf'[q] = leaf[q]
                              /\ heap_top'[q] = heap_top[q]
  BY <1>1, <1>2 DEF TypeOK
<1>13. TypeOK'
  <2>1. leaf' \in [Procs -> [VPNs -> Pages \cup {None}]]
    BY <1>1, <1>2, <1>9 DEF TypeOK, Leaves
  <2>2. heap_top' \in [Procs -> 0 .. MaxBrk]
    BY <1>1, <1>2, <1>3, <1>4 DEF TypeOK
  <2>3. user' \subseteq Pages /\ truncated' \in BOOLEAN
    BY <1>1, <1>2 DEF TypeOK
  <2> QED
    BY <1>1, <1>2, <2>1, <2>2, <2>3 DEF TypeOK
<1>14. SlotsClean'
  BY <1>1, <1>2, <1>11, <1>12 DEF SlotsClean
<1>15. ~truncated' => ~truncated /\ top = new /\ \A v \in V : leaf[p][v] = None
  BY <1>1, <1>2, <1>4 DEF HeapBelowTop
<1>16. HeapBelowTop'
  <2> SUFFICES ASSUME ~truncated', NEW q \in Procs, NEW v \in HeapVPNs, leaf'[q][v] # None
               PROVE  v < AlignUp(heap_top'[q])
    BY DEF HeapBelowTop
  <2>1. CASE q = p
    <3>1. heap_top'[p] = top
      BY <1>1, <1>2, <1>15 DEF TypeOK
    <3>2. CASE v \in V
      BY <1>4, <2>1, <3>1, <3>2
    <3>3. CASE leaf[p][v] # None
      <4>1. v < AlignUp(heap_top[p])
        BY <1>1, <1>15, <3>3 DEF HeapBelowTop
      <4>2. AlignUp(heap_top[p]) <= AlignUp(top) /\ AlignUp(heap_top[p]) \in Nat /\ AlignUp(top) \in Nat
        BY <1>3, <1>4, AlignUpMonotone, AlignUpFirst
      <4> QED
        BY <2>1, <3>1, <4>1, <4>2, VPNFacts
    <3> QED
      BY <1>10, <1>11, <2>1, <3>2, <3>3, VPNFacts
  <2>2. CASE q # p
    BY <1>1, <1>12, <1>15, <2>2 DEF HeapBelowTop
  <2> QED
    BY <2>1, <2>2
<1> DEFINE P == PagesOf(tf[p], tables[p], leaf[p])
           Q == PagesOf(tf'[p], tables'[p], leaf'[p])
<1>17. Q \subseteq P \cup U /\ (~truncated' => Q = P \cup U)
  BY <1>9, <1>11, <1>15 DEF PagesOf
<1>18. Apart(tf'[p], tables'[p], leaf'[p])
  <2>1. tf[p] \notin U /\ tables[p] \cap U = {}
    BY <1>3, <1>5, <1>8, PagesFacts DEF PagesOf
  <2> QED
    BY <1>8, <1>9, <1>11, <2>1 DEF Apart
<1>19. NoPageShared' /\ NoPageLost'
  <2> HIDE DEF P, Q
  <2>1. P \cap (kern \cup user) = {}
    BY <1>8 DEF P
  <2>2. kern' \cap user' = {} /\ Q \cap (kern' \cup user') = {}
    BY <1>2, <1>5, <1>8, <1>17, <2>1
  <2>3. kern' \cup user' \cup Q \subseteq kern \cup user \cup P
    BY <1>2, <1>5, <1>17
  <2>4. ~truncated' => ~truncated /\ kern \cup user \cup P \subseteq kern' \cup user' \cup Q
    BY <1>2, <1>5, <1>15, <1>17
  <2> QED
    BY <1>1, <1>12, <1>18, <2>2, <2>3, <2>4, OneMoves DEF P, Q
<1> QED
  BY <1>13, <1>14, <1>16, <1>19 DEF IInv

\* uvm_heap_grow() takes back all the pages of the list, which are the ones it
\* has mapped.
LEMMA GrowFailsStep ==
  ASSUME IInv, NEW p \in Procs, NEW new \in Requests(p), GrowFails(p, new)
  PROVE  IInv'
<1> DEFINE top == Target(p, new)
           V == HeapPages(heap_top[p], top)
           n == Cardinality(user)
           got == {v \in V : v < AlignUp(heap_top[p]) + n}
           g == Place(got, user)
           mapped == Map(leaf[p], g)
           l == Unmap(mapped, got)
<1>1. TypeOK /\ SlotsClean /\ NoPageShared /\ NoPageLost /\ HeapBelowTop
  BY DEF IInv
<1>2. /\ p \in live /\ new > heap_top[p]
      /\ n < Cardinality(V)
      /\ user' = {mapped[v] : v \in got}
      /\ leaf' = [leaf EXCEPT ![p] = l]
      /\ truncated' = (truncated \/ top # new)
      /\ UNCHANGED <<kern, live, tf, tables, heap_top, ustack_pages, faulted>>
  BY DEF GrowFails, Calls
<1>3. heap_top[p] \in 0 .. MaxBrk /\ user \subseteq Pages /\ IsFiniteSet(user) /\ leaf[p] \in Leaves
  BY <1>1, PagesFacts, FS_Subset DEF TypeOK, Leaves
<1>4. n \in Nat
  BY <1>3, FS_CardinalityType
<1>5. /\ V \subseteq HeapVPNs /\ V \subseteq VPNs
      /\ \A v \in V : ~(v < AlignUp(heap_top[p]))
      /\ Cardinality(V) = AlignUp(top) - AlignUp(heap_top[p])
      /\ AlignUp(heap_top[p]) \in Nat /\ top \in heap_top[p] .. MaxBrk
  BY <1>2, <1>3, TargetFacts
<1>6. V = AlignUp(heap_top[p]) .. AlignUp(top) - 1 /\ AlignUp(top) \in Nat
  BY <1>3, <1>5, AlignUpFirst DEF HeapPages
<1> HIDE DEF top, V, n
<1>7. got = AlignUp(heap_top[p]) .. AlignUp(heap_top[p]) + n - 1
  BY <1>2, <1>4, <1>5, <1>6
<1>8. IsFiniteSet(got) /\ Cardinality(got) = Cardinality(user)
  <2> DEFINE a == AlignUp(heap_top[p])
             b == a + n - 1
  <2>1. a \in Int /\ b \in Int /\ (IF a > b THEN 0 ELSE b - a + 1) = n
    BY <1>4, <1>5
  <2> HIDE DEF a, b
  <2>2. IsFiniteSet(a .. b) /\ Cardinality(a .. b) = n
    BY <2>1, FS_Interval
  <2> QED
    BY <1>7, <2>2 DEF a, b, n
<1>9. got \subseteq V
  OBVIOUS
<1> HIDE DEF got
<1>10. OneToOne(g, got, user)
  BY <1>3, <1>8, PlaceBijects
<1> HIDE DEF g
<1>11. got \subseteq VPNs /\ (\A v \in got : mapped[v] = g[v]) /\ \A v \in VPNs \ got : mapped[v] = leaf[p][v]
  BY <1>5, <1>9, <1>10 DEF Map, OneToOne
<1>12. l = Unmap(leaf[p], got)
  BY <1>11 DEF Unmap
<1>13. user' = user
  BY <1>2, <1>10, <1>11 DEF OneToOne
<1> HIDE DEF mapped, l
<1>14. NoneShared
  BY <1>1, Shapes
<1>15. /\ NoAlias(leaf[p])
       /\ PagesOf(tf[p], tables[p], leaf[p]) \cap (kern \cup user) = {}
       /\ Apart(tf[p], tables[p], leaf[p]) /\ kern \cap user = {}
  BY <1>14 DEF NoneShared, Apart
<1>16. /\ l \in Leaves /\ NoAlias(l)
       /\ PagesIn(l) = PagesIn(leaf[p]) \ {leaf[p][v] : v \in got \cap MappedIn(leaf[p])}
  BY <1>3, <1>11, <1>12, <1>15, UnmapRemoves
<1>17. \A v \in VPNs : l[v] # None => leaf[p][v] # None
  BY <1>12 DEF Unmap
<1>18. leaf'[p] = l /\ tf'[p] = tf[p] /\ tables'[p] = tables[p]
  BY <1>1, <1>2 DEF TypeOK
<1>19. \A q \in Procs \ {p} : tf'[q] = tf[q] /\ tables'[q] = tables[q] /\ leaf'[q] = leaf[q]
  BY <1>1, <1>2 DEF TypeOK
<1>20. TypeOK'
  <2>1. leaf' \in [Procs -> [VPNs -> Pages \cup {None}]]
    BY <1>1, <1>2, <1>16 DEF TypeOK, Leaves
  <2>2. truncated' \in BOOLEAN
    BY <1>1, <1>2 DEF TypeOK
  <2> QED
    BY <1>1, <1>2, <1>13, <2>1, <2>2 DEF TypeOK
<1>21. SlotsClean'
  BY <1>1, <1>2, <1>18, <1>19 DEF SlotsClean
<1>22. ~truncated' => ~truncated /\ \A v \in got : leaf[p][v] = None
  BY <1>1, <1>2, <1>5, <1>9 DEF HeapBelowTop
<1>23. HeapBelowTop'
  BY <1>1, <1>2, <1>17, <1>18, <1>19, <1>22, VPNFacts DEF HeapBelowTop
<1> DEFINE P == PagesOf(tf[p], tables[p], leaf[p])
           Q == PagesOf(tf'[p], tables'[p], leaf'[p])
<1>24. Q \subseteq P /\ (~truncated' => Q = P)
  <2>1. PagesIn(l) \subseteq PagesIn(leaf[p]) /\ (~truncated' => PagesIn(l) = PagesIn(leaf[p]))
    BY <1>16, <1>22 DEF MappedIn
  <2> QED
    BY <1>18, <2>1 DEF PagesOf
<1>25. Apart(tf'[p], tables'[p], leaf'[p])
  BY <1>15, <1>16, <1>18 DEF Apart
<1>26. NoPageShared' /\ NoPageLost'
  <2> HIDE DEF P, Q
  <2>1. P \cap (kern \cup user) = {}
    BY <1>15 DEF P
  <2>2. kern' \cap user' = {} /\ Q \cap (kern' \cup user') = {}
    BY <1>2, <1>13, <1>15, <1>24, <2>1
  <2>3. kern' \cup user' \cup Q \subseteq kern \cup user \cup P
    BY <1>2, <1>13, <1>24
  <2>4. ~truncated' => ~truncated /\ kern \cup user \cup P \subseteq kern' \cup user' \cup Q
    BY <1>2, <1>13, <1>22, <1>24
  <2> QED
    BY <1>1, <1>19, <1>25, <2>2, <2>3, <2>4, OneMoves DEF P, Q
<1> QED
  BY <1>20, <1>21, <1>23, <1>26 DEF IInv

\* Every top a process asks for is a number of bytes.
LEMMA RequestsNat ==
  ASSUME NEW p \in Procs, NEW new \in Requests(p)
  PROVE  new \in Nat
<1>1. \A t \in Tops : t \in Nat
  BY TopsAssumption, MaxBrkAssumption
<1>2. new \in Tops \/ \E t \in Tops : new = t + LEN
  BY DEF Requests
<1>3. LEN \in Nat
  BY LenAssumption
<1>4. CASE new \in Tops
  BY <1>1, <1>4
<1>5. CASE \E t \in Tops : new = t + LEN
  <2>1. PICK t \in Tops : new = t + LEN
    BY <1>5
  <2>2. t \in Nat
    BY <1>1
  <2> QED
    BY <2>1, <2>2, <1>3
<1> QED
  BY <1>2, <1>4, <1>5

\* uvm_heap_ungrow() gives the mapped pages above the new top back.
LEMMA ShrinkStep ==
  ASSUME IInv, NEW p \in Procs, NEW new \in Requests(p), Shrink(p, new)
  PROVE  IInv'
<1> DEFINE H == HeapPages(new, heap_top[p])
           V == H \cap Mapped(p)
           W == {leaf[p][v] : v \in V}
           l == Unmap(leaf[p], V)
<1>1. TypeOK /\ SlotsClean /\ NoPageShared /\ NoPageLost /\ HeapBelowTop
  BY DEF IInv
<1>2. /\ p \in live /\ new < heap_top[p]
      /\ user' = user \cup W
      /\ leaf' = [leaf EXCEPT ![p] = l]
      /\ heap_top' = [heap_top EXCEPT ![p] = new]
      /\ UNCHANGED <<kern, live, tf, tables, ustack_pages, faulted, truncated>>
  BY DEF Shrink, Calls
<1>3. heap_top[p] \in 0 .. MaxBrk /\ leaf[p] \in Leaves
  BY <1>1 DEF TypeOK, Leaves
<1>4. new \in 0 .. MaxBrk
  <2>1. new \in Nat
    BY RequestsNat
  <2> QED
    BY <1>2, <1>3, <2>1, MaxBrkAssumption
<1>5. V \subseteq VPNs /\ V = V \cap MappedIn(leaf[p])
  BY DEF Mapped, MappedIn
<1>6. \A v \in HeapVPNs : v \in V <=> leaf[p][v] # None /\ v \in AlignUp(new) .. AlignUp(heap_top[p]) - 1
  BY VPNFacts DEF Mapped, HeapPages
<1> HIDE DEF V
<1>7. NoneShared
  BY <1>1, Shapes
<1>8. /\ NoAlias(leaf[p])
      /\ PagesOf(tf[p], tables[p], leaf[p]) \cap (kern \cup user) = {}
      /\ Apart(tf[p], tables[p], leaf[p]) /\ kern \cap user = {}
  BY <1>7 DEF NoneShared, Apart
<1>9. l \in Leaves /\ NoAlias(l) /\ PagesIn(l) = PagesIn(leaf[p]) \ W
  BY <1>3, <1>5, <1>8, UnmapRemoves
<1>10. W \subseteq PagesIn(leaf[p]) /\ W \subseteq Pages
  BY <1>3, <1>5 DEF PagesIn, MappedIn, Leaves
<1>11. \A v \in VPNs : l[v] # None => leaf[p][v] # None /\ v \notin V
  BY DEF Unmap
<1> HIDE DEF l, W
<1>12. leaf'[p] = l /\ tf'[p] = tf[p] /\ tables'[p] = tables[p] /\ heap_top'[p] = new
  BY <1>1, <1>2 DEF TypeOK
<1>13. \A q \in Procs \ {p} : /\ tf'[q] = tf[q] /\ tables'[q] = tables[q] /\ leaf'[q] = leaf[q]
                              /\ heap_top'[q] = heap_top[q]
  BY <1>1, <1>2 DEF TypeOK
<1>14. TypeOK'
  <2>1. leaf' \in [Procs -> [VPNs -> Pages \cup {None}]]
    BY <1>1, <1>2, <1>9 DEF TypeOK, Leaves
  <2>2. heap_top' \in [Procs -> 0 .. MaxBrk] /\ user' \subseteq Pages
    BY <1>1, <1>2, <1>4, <1>10 DEF TypeOK
  <2> QED
    BY <1>1, <1>2, <2>1, <2>2 DEF TypeOK
<1>15. SlotsClean'
  BY <1>1, <1>2, <1>12, <1>13 DEF SlotsClean
<1>16. HeapBelowTop'
  <2> SUFFICES ASSUME ~truncated', NEW q \in Procs, NEW v \in HeapVPNs, leaf'[q][v] # None
               PROVE  v < AlignUp(heap_top'[q])
    BY DEF HeapBelowTop
  <2>1. CASE q = p
    <3>1. leaf[p][v] # None /\ v \notin V
      BY <1>11, <1>12, <2>1, VPNFacts
    <3>2. v < AlignUp(heap_top[p])
      BY <1>1, <1>2, <3>1 DEF HeapBelowTop
    <3>3. AlignUp(new) \in Nat /\ AlignUp(heap_top[p]) \in Nat /\ v \in Nat
      BY <1>3, <1>4, AlignUpFirst, VPNFacts
    <3>4. v < AlignUp(new)
      BY <1>6, <3>1, <3>2, <3>3
    <3> QED
      BY <1>12, <2>1, <3>4
  <2>2. CASE q # p
    BY <1>1, <1>2, <1>13, <2>2 DEF HeapBelowTop
  <2> QED
    BY <2>1, <2>2
<1> DEFINE P == PagesOf(tf[p], tables[p], leaf[p])
           Q == PagesOf(tf'[p], tables'[p], leaf'[p])
<1>17. Q = P \ W /\ W \subseteq P
  BY <1>8, <1>9, <1>10, <1>12 DEF PagesOf, Apart
<1>18. Apart(tf'[p], tables'[p], leaf'[p])
  BY <1>8, <1>9, <1>12 DEF Apart
<1>19. NoPageShared' /\ NoPageLost'
  <2> HIDE DEF P, Q
  <2>1. P \cap (kern \cup user) = {}
    BY <1>8 DEF P
  <2>2. kern' \cap user' = {} /\ Q \cap (kern' \cup user') = {}
    BY <1>2, <1>8, <1>17, <2>1
  <2>3. kern' \cup user' \cup Q = kern \cup user \cup P
    BY <1>2, <1>17
  <2>4. truncated' = truncated
    BY <1>2
  <2> QED
    BY <1>1, <1>13, <1>18, <2>2, <2>3, <2>4, OneMoves DEF P, Q
<1> QED
  BY <1>14, <1>15, <1>16, <1>19 DEF IInv
-----------------------------------------------------------------------------
(* The inductive invariant.                                                *)

\* proc_make_first() takes all the pages of the first process from one list.
LEMMA IInvInit == Init => IInv
<1> SUFFICES ASSUME Init PROVE IInv
  OBVIOUS
<1> DEFINE T == Alloc(KernPages, TABLES + 4)
           A == Alloc(T, 4)
           D == {0} \cup {CodeVPN} \cup StackVPNs
           f == Place(D, A)
           L == {CodeVPN} \cup StackVPNs
           l == [v \in VPNs |-> IF v \in L THEN f[v] ELSE None]
<1>1. /\ Cardinality(KernPages) >= TABLES + 4
      /\ kern = KernPages \ T /\ user = UserPages /\ live = {proczero}
      /\ tf = [p \in Procs |-> IF p = proczero THEN f[0] ELSE None]
      /\ tables = [p \in Procs |-> IF p = proczero THEN T \ A ELSE {}]
      /\ leaf = [p \in Procs |-> IF p = proczero THEN l ELSE Unmapped]
      /\ heap_top = [p \in Procs |-> IF p = proczero THEN CodeVPN * PGSIZE + 2 * PGSIZE ELSE 0]
      /\ ustack_pages = [p \in Procs |-> IF p = proczero THEN 2 ELSE 0]
      /\ faulted = FALSE /\ truncated = FALSE
  BY DEF Init
<1>2. T \subseteq KernPages /\ Cardinality(T) = 9 /\ IsFiniteSet(T)
  <2>1. TABLES + 4 = 9
    BY DEF TABLES
  <2> QED
    BY <1>1, <2>1, PagesAssumption, FS_CardinalityType, AllocTakes
<1> HIDE DEF T
<1>3. A \subseteq T /\ Cardinality(A) = 4 /\ IsFiniteSet(A)
  BY <1>2, AllocTakes
<1> HIDE DEF A
<1>4. D = -2 .. 1 /\ IsFiniteSet(D) /\ Cardinality(D) = 4
  <2>1. D = -2 .. 1
    BY DEF CodeVPN, StackVPNs
  <2>2. -2 \in Int /\ 1 \in Int /\ (IF -2 > 1 THEN 0 ELSE 1 - (-2) + 1) = 4
    OBVIOUS
  <2>3. IsFiniteSet(-2 .. 1) /\ Cardinality(-2 .. 1) = 4
    BY <2>2, FS_Interval
  <2> QED
    BY <2>1, <2>3
<1> HIDE DEF D
<1>5. OneToOne(f, D, A)
  BY <1>3, <1>4, PlaceBijects
<1> HIDE DEF f
<1>6. L = {-2, -1, 1} /\ D = {0} \cup L /\ L \subseteq VPNs
  BY VPNFacts DEF D, CodeVPN, StackVPNs
<1> HIDE DEF L
<1>7. f[0] \in A /\ (\A v \in L : f[v] \in A /\ f[v] # f[0]) /\ \A u, v \in L : f[u] = f[v] => u = v
  BY <1>4, <1>5, <1>6 DEF OneToOne
<1>8. A \subseteq Pages /\ T \subseteq Pages /\ None \notin T
  BY <1>2, <1>3, PagesFacts
<1>9. (\A v \in L : l[v] = f[v] /\ l[v] # None) /\ \A v \in VPNs \ L : l[v] = None
  BY <1>3, <1>6, <1>7, <1>8
<1>10. l \in Leaves
  BY <1>3, <1>7, <1>8 DEF Leaves
<1> HIDE DEF l
<1>11. NoAlias(l)
  BY <1>7, <1>9 DEF NoAlias, MappedIn
<1>12. PagesIn(l) = {f[v] : v \in L}
  BY <1>6, <1>9 DEF PagesIn, MappedIn
<1>13. PagesIn(l) = A \ {f[0]}
  BY <1>5, <1>6, <1>7, <1>12 DEF OneToOne
<1>14. proczero \in Procs /\ \A p \in Procs : p # proczero =>
         tf[p] = None /\ tables[p] = {} /\ leaf[p] = Unmapped
  BY <1>1, SizeType DEF proczero
<1>15. tf[proczero] = f[0] /\ tables[proczero] = T \ A /\ leaf[proczero] = l
  BY <1>1, <1>14
<1>16. f[0] # None
  BY <1>3, <1>7, <1>8
<1>17. CodeVPN * PGSIZE + 2 * PGSIZE = 3 * PGSIZE /\ 3 * PGSIZE \in 0 .. MaxBrk
  BY SizeType, MaxBrkAssumption DEF CodeVPN
<1>18. TypeOK
  <2>1. kern \subseteq Pages /\ user \subseteq Pages /\ live \subseteq Procs
    BY <1>1, <1>14, PagesFacts
  <2>2. tf \in [Procs -> Pages \cup {None}]
    BY <1>1, <1>7, <1>8
  <2>3. tables \in [Procs -> SUBSET Pages]
    BY <1>1, <1>8
  <2>4. leaf \in [Procs -> [VPNs -> Pages \cup {None}]]
    BY <1>1, <1>10, UnmappedEmpty DEF Leaves
  <2>5. heap_top \in [Procs -> 0 .. MaxBrk]
    BY <1>1, <1>17, MaxBrkAssumption
  <2> QED
    BY <1>1, <2>1, <2>2, <2>3, <2>4, <2>5 DEF TypeOK
<1>19. SlotsClean
  BY <1>1, <1>14, <1>15, <1>16 DEF SlotsClean
<1>20. HeapBelowTop
  <2> SUFFICES ASSUME NEW p \in Procs, NEW v \in HeapVPNs, leaf[p][v] # None
               PROVE  v < AlignUp(heap_top[p])
    BY DEF HeapBelowTop
  <2>1. p = proczero
    BY <1>14, VPNFacts DEF Unmapped
  <2>2. v = 1
    BY <1>6, <1>9, <1>15, <2>1, VPNFacts DEF StackVPNs
  <2>3. heap_top[p] = 3 * PGSIZE /\ 3 * PGSIZE \in Nat /\ 1 * PGSIZE < 3 * PGSIZE
    BY <1>1, <1>17, <2>1, SizeType
  <2> QED
    BY <2>2, <2>3, AlignUpFirst
<1>21. /\ PagesOf(tf[proczero], tables[proczero], leaf[proczero]) = T
       /\ \A p \in Procs : p # proczero => PagesOf(tf[p], tables[p], leaf[p]) = {}
  <2>1. ({f[0]} \ {None}) \cup (T \ A) \cup (A \ {f[0]}) = T
    BY <1>3, <1>7, <1>16
  <2> QED
    BY <1>13, <1>14, <1>15, <2>1, UnmappedEmpty DEF PagesOf
<1>22. \A p \in Procs : Apart(tf[p], tables[p], leaf[p])
  <2>1. Apart(f[0], T \ A, l)
    BY <1>7, <1>11, <1>13 DEF Apart
  <2>2. Apart(None, {}, Unmapped)
    BY UnmappedEmpty DEF Apart
  <2> QED
    BY <1>14, <1>15, <2>1, <2>2
<1>23. NoneShared
  <2>1. kern \cap user = {} /\ T \cap (kern \cup user) = {}
    BY <1>1, <1>2, PagesFacts
  <2> QED
    BY <1>21, <1>22, <2>1 DEF NoneShared
<1>24. NoneLost
  <2>1. UNION {PagesOf(tf[p], tables[p], leaf[p]) : p \in Procs} = T
    BY <1>14, <1>21
  <2>2. Pages = kern \cup user \cup T
    BY <1>1, <1>2 DEF Pages
  <2> QED
    BY <2>1, <2>2 DEF NoneLost
<1> QED
  BY <1>18, <1>19, <1>20, <1>23, <1>24, Shapes DEF IInv

\* A step that leaves the memory alone keeps the invariant.
LEMMA MemoryUnchanged ==
  ASSUME IInv, faulted' \in BOOLEAN,
         UNCHANGED <<kern, user, live, tf, tables, leaf, heap_top, ustack_pages, truncated>>
  PROVE  IInv'
<1>1. TypeOK' /\ SlotsClean' /\ HeapBelowTop'
  BY DEF IInv, TypeOK, SlotsClean, HeapBelowTop
<1>2. NoneShared /\ NoneLost
  BY Shapes DEF IInv
<1>3. NoneShared' /\ NoneLost'
  BY <1>2 DEF NoneShared, NoneLost
<1> QED
  BY <1>1, <1>3, ShapesNext DEF IInv

\* Every step keeps the invariant.
LEMMA IInvNext == IInv /\ [Next]_vars => IInv'
<1> SUFFICES ASSUME IInv, [Next]_vars PROVE IInv'
  OBVIOUS
<1>1. CASE UNCHANGED vars
  <2>1. faulted' \in BOOLEAN
    BY <1>1 DEF vars, IInv, TypeOK
  <2> QED
    BY <1>1, <2>1, MemoryUnchanged DEF vars
<1>2. CASE Fault
  BY <1>2, MemoryUnchanged DEF Fault
<1>3. ASSUME NEW p \in Procs, NEW c \in Procs, Fork(p, c) PROVE IInv'
  BY <1>3, ForkStep
<1>4. ASSUME NEW c \in Procs, Reap(c) PROVE IInv'
  BY <1>4, ReapStep
<1>5. ASSUME NEW p \in Procs, NEW new \in Requests(p), Brk(p, new) PROVE IInv'
  BY <1>5, GrowStep, GrowFailsStep, ShrinkStep DEF Brk
<1> QED
  BY <1>1, <1>2, <1>3, <1>4, <1>5
  DEF Next, ForkFails, ForkFaults, FetchFaults, Copy

\* The inductive invariant holds in every reachable state.
THEOREM Inductive == Spec => []IInv
BY IInvInit, IInvNext, PTL DEF Spec

\* fork, exit, brk and the faults keep the types: only pages are ever on a list
\* or mapped, and no heap top is beyond the highest that is asked for, though
\* uvm_heap_grow() is given its size cut to 32 bits.
THEOREM TypeCorrect == Spec => []TypeOK
<1>1. IInv => TypeOK
  BY DEF IInv
<1> QED
  BY <1>1, Inductive, PTL

\* pmem.c never gives a page to two users, whatever fails on the way.
THEOREM PagesNotShared == Spec => []NoPageShared
<1>1. IInv => NoPageShared
  BY DEF IInv
<1> QED
  BY <1>1, Inductive, PTL

\* Every page is on a list or with a process, unless a brk of 2^32 bytes or
\* more was cut to 32 bits.
THEOREM PagesNotLost == Spec => []NoPageLost
<1>1. IInv => NoPageLost
  BY DEF IInv
<1> QED
  BY <1>1, Inductive, PTL

-----------------------------------------------------------------------------
(* The copy loops.                                                         *)

\* One round of the loop, given what the rounds from every distance access.
Round(p, va, len, nul, loop, copied) ==
  IF copied = len THEN <<>>
  ELSE LET pa == leaf[p][(va + copied) \div PGSIZE]
           page_offset == (va + copied) % PGSIZE
           bytes_to_copy == Less(len - copied, PGSIZE - page_offset)
           n == Less(bytes_to_copy, nul - copied + 1)
           bytes == [i \in 1 .. n |-> <<pa, page_offset + i - 1>>]
       IN IF pa = None THEN <<<<None, page_offset>>>>
          ELSE IF nul < copied + bytes_to_copy THEN bytes
          ELSE bytes \o loop[copied + bytes_to_copy]

\* g is the recursive function that CopyLoop defines.
LoopIs(p, va, len, nul, g) == g = [c \in 0 .. len |-> Round(p, va, len, nul, g, c)]

\* From distance c on, e is the distance behind the last byte accessed: the
\* first byte that is not mapped, or the last of the stop bytes up to the NUL.
Gap(p, va, k) == leaf[p][(va + k) \div PGSIZE] = None
IsEnd(p, va, stop, c, e) ==
  /\ e \in Nat /\ c < e /\ e <= stop
  /\ \A k \in Nat : c <= k /\ k < e - 1 => ~Gap(p, va, k)
  /\ e = stop \/ Gap(p, va, e - 1)
End(p, va, stop, c) == CHOOSE e : IsEnd(p, va, stop, c, e)
Taken(p, va, c, e) == [k \in 1 .. (e - c) |-> Phys(p, va, c + k - 1)]

\* n bytes at offset po of page pa, as a round accesses them.
Bytes(pa, po, n) == [i \in 1 .. n |-> <<pa, po + i - 1>>]

\* Byte va + c of p's memory is at offset po of page pa; the bytes from c up to e
\* are n bytes of that page; the bytes up to b and from b on are all the bytes.
At(p, va, c, pa, po) == pa = leaf[p][(va + c) \div PGSIZE] /\ po = (va + c) % PGSIZE
OnePage(p, va, c, e, pa, po, n) == Taken(p, va, c, e) = Bytes(pa, po, n)
Joined(p, va, c, b, e) == Taken(p, va, c, b) \o Taken(p, va, b, e) = Taken(p, va, c, e)

\* What the loop computes.
Accessed(p, va, len, nul, stop) ==
  [c \in 0 .. len |-> IF c < stop THEN Taken(p, va, c, End(p, va, stop, c))
                     ELSE Round(p, va, len, nul, <<>>, c)]

\* A set of numbers that is not empty has a least element.
LEMMA MinFound ==
  ASSUME NEW S, S \subseteq Nat, S # {}
  PROVE  Min(S) \in S /\ \A m \in S : Min(S) <= m
<1>1. PICK n \in S : \A m \in S : ~(<<m, n>> \in OpToRel(<, Nat))
  BY NatLessThanWellFounded, WFMin
<1>2. \A m \in S : <<m, n>> \in Nat \X Nat /\ (m < n => <<m, n>> \in OpToRel(<, Nat))
  BY DEF OpToRel
<1>3. \A m \in S : ~(m < n)
  BY <1>1, <1>2, Zenon
<1>4. \A m \in S : n <= m
  BY <1>3
<1> QED
  BY <1>4 DEF Min

\* Up to the end of its page, a byte is at the offset of the first one and on.
LEMMA WithinPage ==
  ASSUME NEW a \in Nat, NEW i \in Nat, (a % PGSIZE) + i < PGSIZE
  PROVE  (a + i) \div PGSIZE = a \div PGSIZE /\ (a + i) % PGSIZE = (a % PGSIZE) + i
<1>1. PICK d \in Nat : d = PGSIZE /\ d > 0
  BY SizeType
<1>2. PICK q \in Nat, r \in Nat : q = a \div d /\ r = a % d /\ a = q * d + r /\ r < d
  BY <1>1
<1>3. r + i < d
  BY <1>1, <1>2
<1>4. PICK s \in Nat : s = r + i
  BY <1>2
<1>5. a + i = q * d + s /\ s < d
  BY <1>2, <1>3, <1>4
<1>6. PICK u \in Nat, v \in Nat : u = (a + i) \div d /\ v = (a + i) % d /\ a + i = u * d + v /\ v < d
  BY <1>1
<1>7. ~(u < q) /\ ~(q < u)
  BY <1>1, <1>5, <1>6, SMTT(30)
<1>8. u = q
  BY <1>2, <1>6, <1>7
<1>9. v = s
  BY <1>5, <1>6, <1>8
<1> QED
  BY <1>1, <1>2, <1>4, <1>6, <1>8, <1>9

\* A round copies at least one byte, and none beyond the range or its page.
LEMMA RoundBytes ==
  ASSUME NEW va \in Nat, NEW len \in Nat, NEW c \in 0 .. len - 1
  PROVE  LET po == (va + c) % PGSIZE
             b == Less(len - c, PGSIZE - po)
         IN po \in Nat /\ b \in Nat /\ 0 < b /\ c + b <= len /\ po + b <= PGSIZE /\ b <= len - c
<1>1. PICK d \in Nat : d = PGSIZE /\ d > 0
  BY SizeType
<1>2. PICK r \in Nat : r = (va + c) % d /\ r < d
  BY <1>1
<1> QED
  BY <1>1, <1>2 DEF Less

\* The loop is at most one function.
LEMMA LoopUnique ==
  ASSUME NEW p, NEW va \in Nat, NEW len \in Nat, NEW nul \in Nat, NEW g, NEW h,
         LoopIs(p, va, len, nul, g), LoopIs(p, va, len, nul, h)
  PROVE  \A c \in 0 .. len : g[c] = h[c]
<1> DEFINE S == {d \in 0 .. len : g[len - d] # h[len - d]}
<1>1. SUFFICES ASSUME S # {} PROVE FALSE
  <2>1. \A c \in 0 .. len : len - c \in 0 .. len /\ len - (len - c) = c
    OBVIOUS
  <2> QED
    BY <2>1
<1>2. PICK d \in S : \A m \in S : d <= m
  <2>1. S \subseteq Nat
    OBVIOUS
  <2> HIDE DEF S
  <2> QED
    BY <1>1, <2>1, MinFound
<1>3. PICK c \in 0 .. len : c = len - d /\ g[c] # h[c]
  BY <1>2
<1>4. g[c] = Round(p, va, len, nul, g, c) /\ h[c] = Round(p, va, len, nul, h, c)
  BY ZenonT(20) DEF LoopIs
<1>5. c # len
  BY <1>3, <1>4, ZenonT(20) DEF Round
<1>6. PICK po, b \in Nat : /\ po = (va + c) % PGSIZE /\ b = Less(len - c, PGSIZE - po)
                           /\ 0 < b /\ c + b <= len
  <2>1. c \in 0 .. len - 1
    BY <1>5
  <2> QED
    BY <2>1, RoundBytes
<1>7. g[c + b] = h[c + b]
  <2>1. len - (c + b) \in 0 .. len /\ len - (len - (c + b)) = c + b /\ len - (c + b) < d
    BY <1>2, <1>3, <1>6
  <2>2. len - (c + b) \notin S
    BY <1>2, <2>1
  <2> QED
    BY <2>1, <2>2
<1>8. Round(p, va, len, nul, g, c) = Round(p, va, len, nul, h, c)
  BY <1>6, <1>7, ZenonT(20) DEF Round
<1> QED
  BY <1>3, <1>4, <1>8, Zenon

\* There is one end.
LEMMA EndUnique ==
  ASSUME NEW p, NEW va \in Nat, NEW stop \in Nat, NEW c \in Nat, NEW e,
         IsEnd(p, va, stop, c, e)
  PROVE  End(p, va, stop, c) = e
<1>1. ASSUME NEW f, IsEnd(p, va, stop, c, f) PROVE f = e
  <2>1. e \in Nat /\ f \in Nat /\ c < e /\ c < f /\ e <= stop /\ f <= stop
    BY <1>1 DEF IsEnd
  <2>2. ~(f < e)
    <3>1. SUFFICES ASSUME f < e PROVE FALSE
      OBVIOUS
    <3>2. f # stop /\ f - 1 \in Nat /\ c <= f - 1 /\ f - 1 < e - 1
      BY <2>1, <3>1
    <3> QED
      BY <1>1, <3>2 DEF IsEnd
  <2>3. ~(e < f)
    <3>1. SUFFICES ASSUME e < f PROVE FALSE
      OBVIOUS
    <3>2. e # stop /\ e - 1 \in Nat /\ c <= e - 1 /\ e - 1 < f - 1
      BY <2>1, <3>1
    <3> QED
      BY <1>1, <3>2 DEF IsEnd
  <2> QED
    BY <2>1, <2>2, <2>3
<1> QED
  BY <1>1, Zenon DEF End

\* The end is behind the first gap, or behind the last byte.
LEMMA EndExists ==
  ASSUME NEW p, NEW va \in Nat, NEW stop \in Nat, NEW c \in Nat, c < stop
  PROVE  LET gaps == {k \in c .. stop - 1 : Gap(p, va, k)}
             e == IF gaps = {} THEN stop ELSE Min(gaps) + 1
         IN IsEnd(p, va, stop, c, e)
<1> DEFINE gaps == {k \in c .. stop - 1 : Gap(p, va, k)}
<1>1. CASE gaps = {}
  <2>1. \A k \in Nat : c <= k /\ k < stop - 1 => ~Gap(p, va, k)
    BY <1>1
  <2> QED
    BY <1>1, <2>1 DEF IsEnd
<1>2. CASE gaps # {}
  <2>1. PICK m : m = Min(gaps)
    OBVIOUS
  <2>2. m \in gaps /\ \A k \in gaps : m <= k
    BY <1>2, <2>1, MinFound
  <2>3. m \in Nat /\ c <= m /\ m < stop /\ Gap(p, va, m)
    BY <2>2
  <2>4. \A k \in Nat : c <= k /\ k < m => ~Gap(p, va, k)
    BY <2>2, <2>3
  <2>5. PICK e \in Nat : e = m + 1 /\ e - 1 = m
    BY <2>3
  <2>6. IsEnd(p, va, stop, c, e)
    BY <2>3, <2>4, <2>5 DEF IsEnd
  <2> QED
    BY <1>2, <2>1, <2>5, <2>6
<1> QED
  BY <1>1, <1>2

\* Bytes within one page are the bytes of the range.
LEMMA BytesTaken ==
  ASSUME NEW p, NEW va \in Nat, NEW c \in Nat, NEW n \in Nat, NEW e \in Nat, c + n = e,
         NEW pa, NEW po \in Nat, At(p, va, c, pa, po), po + n <= PGSIZE
  PROVE  OnePage(p, va, c, e, pa, po, n)
<1> USE DEF At
<1>1. PICK m : m = e - c
  OBVIOUS
<1>2. m = n
  BY <1>1
<1>3. ASSUME NEW i \in 1 .. n
      PROVE  Phys(p, va, c + i - 1) = <<pa, po + i - 1>>
  <2>1. PICK a \in Nat, j \in Nat : a = va + c /\ j = i - 1
    OBVIOUS
  <2>2. va + (c + i - 1) = a + j
    BY <2>1
  <2>3. PGSIZE \in Nat /\ po + j < PGSIZE /\ po + j = po + i - 1
    BY <2>1, SizeType
  <2>4. (a + j) \div PGSIZE = a \div PGSIZE /\ (a + j) % PGSIZE = po + j
    BY <2>1, <2>3, WithinPage
  <2> QED
    BY <2>1, <2>2, <2>3, <2>4, Zenon DEF Phys
<1>4. Taken(p, va, c, e) = [i \in 1 .. m |-> Phys(p, va, c + i - 1)]
  BY <1>1, Zenon DEF Taken
<1>5. [i \in 1 .. n |-> Phys(p, va, c + i - 1)] = [i \in 1 .. n |-> <<pa, po + i - 1>>]
  BY <1>3, Zenon
<1> QED
  BY <1>2, <1>4, <1>5, Zenon DEF Bytes, OnePage

\* Between a byte that is mapped and the end of its page there is no gap.
LEMMA NoGapInPage ==
  ASSUME NEW p, NEW va \in Nat, NEW c \in Nat, NEW n \in Nat, ~Gap(p, va, c),
         (va + c) % PGSIZE \in Nat, ((va + c) % PGSIZE) + n <= PGSIZE,
         NEW k \in Nat, c <= k, k < c + n
  PROVE  ~Gap(p, va, k)
<1>1. PICK r \in Nat : r = (va + c) % PGSIZE
  OBVIOUS
<1>2. PICK a \in Nat, j \in Nat : a = va + c /\ j = k - c
  OBVIOUS
<1>3. va + k = a + j
  BY <1>2
<1>4. PGSIZE \in Nat /\ r + j < PGSIZE
  BY <1>1, <1>2, SizeType
<1>5. (a + j) \div PGSIZE = a \div PGSIZE
  BY <1>1, <1>2, <1>4, WithinPage
<1> QED
  BY <1>2, <1>3, <1>5, Zenon DEF Gap

\* The bytes up to b and those from b on are the bytes.
LEMMA TakenConcat ==
  ASSUME NEW p, NEW va \in Nat, NEW c \in Nat, NEW b \in Nat, NEW e \in Nat, c <= b, b <= e
  PROVE  Joined(p, va, c, b, e)
<1> DEFINE B == {Phys(p, va, k) : k \in Nat}
<1>1. PICK m \in Nat, n \in Nat : m = b - c /\ n = e - b /\ m + n = e - c
  OBVIOUS
<1>2. PICK s : s = Taken(p, va, c, b)
  OBVIOUS
<1>3. PICK t : t = Taken(p, va, b, e)
  OBVIOUS
<1>4. PICK w : w = Taken(p, va, c, e)
  OBVIOUS
<1>5. /\ s = [k \in 1 .. m |-> Phys(p, va, c + k - 1)]
      /\ t = [k \in 1 .. n |-> Phys(p, va, b + k - 1)]
      /\ w = [k \in 1 .. (m + n) |-> Phys(p, va, c + k - 1)]
  BY <1>1, <1>2, <1>3, <1>4, Zenon DEF Taken
<1>6. s \in Seq(B) /\ t \in Seq(B) /\ w \in Seq(B) /\ Len(s) = m /\ Len(t) = n /\ Len(w) = m + n
  <2>1. \A k \in Nat : Phys(p, va, k) \in B
    OBVIOUS
  <2> HIDE DEF B
  <2>2. \A k \in 1 .. (m + n) : c + k - 1 \in Nat
    OBVIOUS
  <2>3. \A k \in 1 .. n : b + k - 1 \in Nat
    OBVIOUS
  <2> QED
    BY <1>5, <2>1, <2>2, <2>3
<1> HIDE DEF B
<1>7. Len(s \o t) = m + n /\ s \o t \in Seq(B)
  BY <1>6, ConcatProperties
<1>8. ASSUME NEW k \in 1 .. (m + n) PROVE (s \o t)[k] = w[k]
  <2>1. (s \o t)[k] = IF k <= m THEN s[k] ELSE t[k - m]
    BY <1>6, ConcatProperties
  <2>2. CASE k <= m
    <3>1. k \in 1 .. m
      BY <2>2
    <3> QED
      BY <2>1, <2>2, <3>1, <1>5, Zenon
  <2>3. CASE ~(k <= m)
    <3>1. k - m \in 1 .. n /\ b + (k - m) - 1 = c + k - 1
      BY <2>3, <1>1
    <3>2. t[k - m] = Phys(p, va, b + (k - m) - 1)
      BY <3>1, <1>5, Zenon
    <3> QED
      BY <2>1, <2>3, <3>1, <3>2, <1>5, Zenon
  <2> QED
    BY <2>2, <2>3
<1>9. s \o t = w
  BY <1>6, <1>7, <1>8, SeqEqual
<1> QED
  BY <1>2, <1>3, <1>4, <1>9, Zenon DEF Joined

\* What is accessed satisfies the loop's equation.
LEMMA AccessedIsLoop ==
  ASSUME NEW p, NEW va \in Nat, NEW len \in Nat, NEW nul \in Nat, NEW stop \in Nat,
         stop <= len, stop <= nul + 1, stop = len \/ stop = nul + 1
  PROVE  LoopIs(p, va, len, nul, Accessed(p, va, len, nul, stop))
<1>1. PICK g : g = Accessed(p, va, len, nul, stop)
  OBVIOUS
<1>2. g = [c \in 0 .. len |-> IF c < stop THEN Taken(p, va, c, End(p, va, stop, c))
                             ELSE Round(p, va, len, nul, <<>>, c)]
  BY <1>1, Zenon DEF Accessed
<1>3. ASSUME NEW c \in 0 .. len PROVE g[c] = Round(p, va, len, nul, g, c)
  <2>1. CASE c = len
    <3>1. ~(c < stop)
      BY <2>1
    <3> QED
      BY <1>2, <2>1, <3>1, ZenonT(20) DEF Round
  <2>2. CASE c < len
    <3>1. c \in Nat /\ c \in 0 .. len - 1 /\ c # len
      BY <2>2
    <3>2. PICK po \in Nat, b \in Nat :
            /\ po = (va + c) % PGSIZE /\ b = Less(len - c, PGSIZE - po)
            /\ 0 < b /\ c + b <= len /\ po + b <= PGSIZE /\ b <= len - c
      BY <3>1, RoundBytes
    <3>3. PICK pa : pa = leaf[p][(va + c) \div PGSIZE]
      OBVIOUS
    <3>4. PICK n \in Int : n = Less(b, nul - c + 1)
      BY <3>1, <3>2 DEF Less
    <3>5. \A f : Round(p, va, len, nul, f, c)
                = IF pa = None THEN <<<<None, po>>>>
                  ELSE IF nul < c + b THEN Bytes(pa, po, n)
                  ELSE Bytes(pa, po, n) \o f[c + b]
      BY <3>1, <3>2, <3>3, <3>4, ZenonT(20) DEF Round, Bytes
    <3>6. pa = None <=> Gap(p, va, c)
      BY <3>3, Zenon DEF Gap
    <3>7. po \in Nat /\ At(p, va, c, pa, po)
      BY <3>2, <3>3, Zenon DEF At
    <3>8. CASE ~(c < stop)
      <4>1. nul < c + b
        BY <3>1, <3>2, <3>8
      <4>2. g[c] = Round(p, va, len, nul, <<>>, c)
        BY <1>2, <3>8, Zenon
      <4> QED
        BY <3>5, <4>1, <4>2, Zenon
    <3>9. CASE c < stop
      <4>1. \A e : IsEnd(p, va, stop, c, e) => g[c] = Taken(p, va, c, e)
        <5>1. \A e : IsEnd(p, va, stop, c, e) => End(p, va, stop, c) = e
          BY <3>1, EndUnique
        <5> QED
          BY <1>2, <3>9, <5>1, Zenon
      <4>2. CASE pa = None
        <5>1. IsEnd(p, va, stop, c, c + 1)
          <6>1. /\ c + 1 \in Nat /\ c < c + 1 /\ c + 1 <= stop /\ (c + 1) - 1 = c
                /\ \A k \in Nat : ~(c <= k /\ k < (c + 1) - 1)
            BY <3>1, <3>9
          <6> QED
            BY <6>1, <4>2, <3>6, Zenon DEF IsEnd
        <5>2. Taken(p, va, c, c + 1) = <<<<None, po>>>>
          <6>1. (c + 1) - c = 1 /\ c + 1 - 1 = c
            BY <3>1
          <6>2. Taken(p, va, c, c + 1) = [k \in 1 .. 1 |-> Phys(p, va, c + k - 1)]
            BY <6>1, Zenon DEF Taken
          <6>3. Phys(p, va, c + 1 - 1) = <<None, po>>
            BY <6>1, <3>2, <3>3, <4>2, Zenon DEF Phys
          <6>4. \A k \in 1 .. 1 : k = 1
            OBVIOUS
          <6>5. PICK x : x = <<None, po>>
            OBVIOUS
          <6>6. [k \in 1 .. 1 |-> Phys(p, va, c + k - 1)] = [k \in 1 .. 1 |-> x]
            BY <6>3, <6>4, <6>5, Zenon
          <6>7. [k \in 1 .. 1 |-> x] = <<x>>
            OBVIOUS
          <6> QED
            BY <6>2, <6>5, <6>6, <6>7, Zenon
        <5> QED
          BY <3>5, <4>1, <4>2, <5>1, <5>2, Zenon
      <4>3. CASE pa # None /\ nul < c + b
        <5>1. n \in Nat /\ n <= b /\ stop = c + n /\ po + n <= PGSIZE
          BY <3>1, <3>2, <3>4, <3>9, <4>3, SizeType DEF Less
        <5>2. Taken(p, va, c, stop) = Bytes(pa, po, n)
          <6>1. OnePage(p, va, c, stop, pa, po, n)
            BY <3>1, <3>7, <5>1, BytesTaken
          <6> QED
            BY <6>1, Zenon DEF OnePage
        <5>3. \A k \in Nat : c <= k /\ k < stop - 1 => ~Gap(p, va, k)
          <6>1. ASSUME NEW k \in Nat, c <= k, k < stop - 1 PROVE ~Gap(p, va, k)
            <7>1. k < c + n
              BY <5>1, <6>1
            <7> QED
              BY <3>1, <3>2, <3>6, <4>3, <5>1, <6>1, <7>1, NoGapInPage
          <6> QED
            BY <6>1
        <5>4. IsEnd(p, va, stop, c, stop)
          BY <3>9, <5>3 DEF IsEnd
        <5> QED
          BY <3>5, <4>1, <4>3, <5>2, <5>4, Zenon
      <4>4. CASE pa # None /\ ~(nul < c + b)
        <5>1. PICK m \in Nat : m = c + b
          BY <3>1, <3>2
        <5>2. n = b /\ m <= stop /\ c < m
          BY <3>1, <3>2, <3>4, <4>4, <5>1 DEF Less
        <5>3. Taken(p, va, c, m) = Bytes(pa, po, n)
          <6>1. n \in Nat /\ po + n <= PGSIZE /\ m = c + n
            BY <3>2, <5>1, <5>2
          <6>2. OnePage(p, va, c, m, pa, po, n)
            BY <3>1, <3>7, <5>1, <6>1, BytesTaken
          <6> QED
            BY <6>2, Zenon DEF OnePage
        <5>4. \A k \in Nat : c <= k /\ k < m => ~Gap(p, va, k)
          BY <3>1, <3>2, <3>6, <4>4, <5>1, NoGapInPage
        <5>5. Round(p, va, len, nul, g, c) = Taken(p, va, c, m) \o g[m]
          BY <3>5, <4>4, <5>1, <5>3, Zenon
        <5>6. CASE m = stop
          <6>1. m = len
            BY <4>4, <5>1, <5>6, <3>1, <3>2
          <6>2. g[m] = <<>>
            <7>1. ~(m < stop) /\ m \in 0 .. len
              BY <5>6, <6>1
            <7> QED
              BY <1>2, <6>1, <7>1, ZenonT(20) DEF Round
          <6>3. IsEnd(p, va, stop, c, m)
            <7>1. m <= stop /\ \A k \in Nat : c <= k /\ k < m - 1 => ~Gap(p, va, k)
              BY <5>2, <5>4
            <7> QED
              BY <5>2, <5>6, <7>1, Zenon DEF IsEnd
          <6>4. Taken(p, va, m, m) = <<>>
            BY DEF Taken
          <6> QED
            <7>1. c <= m /\ m <= m
              BY <3>1, <5>2
            <7>2. Joined(p, va, c, m, m)
              BY <3>1, <5>1, <7>1, TakenConcat
            <7> QED
              BY <4>1, <5>5, <6>2, <6>3, <6>4, <7>2, Zenon DEF Joined
        <5>7. CASE m < stop
          <6>1. PICK e : IsEnd(p, va, stop, m, e)
            BY <5>7, EndExists
          <6>2. e \in Nat /\ m < e /\ e <= stop
            BY <6>1 DEF IsEnd
          <6>3. g[m] = Taken(p, va, m, e)
            <7>1. m \in 0 .. len
              BY <3>2, <5>1
            <7>2. End(p, va, stop, m) = e
              BY <6>1, EndUnique
            <7> QED
              BY <1>2, <5>7, <7>1, <7>2, Zenon
          <6>4. IsEnd(p, va, stop, c, e)
            <7>1. c < e /\ e <= stop
              BY <3>1, <5>2, <6>2
            <7>2. ASSUME NEW k \in Nat, c <= k, k < e - 1 PROVE ~Gap(p, va, k)
              <8>1. k < m \/ m <= k
                OBVIOUS
              <8> QED
                BY <5>4, <6>1, <7>2, <8>1 DEF IsEnd
            <7> QED
              BY <6>1, <6>2, <7>1, <7>2, Zenon DEF IsEnd
          <6>5. Joined(p, va, c, m, e)
            <7>1. c <= m /\ m <= e
              BY <3>1, <5>2, <6>2
            <7> QED
              BY <3>1, <5>1, <6>2, <7>1, TakenConcat
          <6> QED
            BY <4>1, <5>5, <6>3, <6>4, <6>5, Zenon DEF Joined
        <5> QED
          BY <5>2, <5>6, <5>7
      <4> QED
        BY <4>2, <4>3, <4>4
    <3> QED
      BY <3>8, <3>9
  <2> QED
    BY <2>1, <2>2
<1>4. g = [c \in 0 .. len |-> Round(p, va, len, nul, g, c)]
  BY <1>2, <1>3, ZenonT(20)
<1> QED
  BY <1>1, <1>4, Zenon DEF LoopIs

\* The loop is what is accessed.
LEMMA LoopAccesses ==
  ASSUME NEW p, NEW va \in Nat, NEW len \in Nat, NEW nul \in Nat, NEW stop \in Nat,
         stop <= len, stop <= nul + 1, stop = len \/ stop = nul + 1
  PROVE  CopyLoop(p, va, len, nul) = Accessed(p, va, len, nul, stop)[0]
<1> DEFINE loop == CHOOSE h : LoopIs(p, va, len, nul, h)
<1>1. LoopIs(p, va, len, nul, Accessed(p, va, len, nul, stop))
  BY AccessedIsLoop
<1>2. LoopIs(p, va, len, nul, loop)
  BY <1>1, Zenon
<1>3. loop[0] = Accessed(p, va, len, nul, stop)[0]
  <2>1. 0 \in 0 .. len
    OBVIOUS
  <2> HIDE DEF loop
  <2> QED
    BY <1>1, <1>2, <2>1, LoopUnique
<1>4. CopyLoop(p, va, len, nul) = loop[0]
  BY ZenonT(20) DEF CopyLoop, LoopIs, Round
<1> QED
  BY <1>3, <1>4, Zenon

\* The copy loops access exactly the bytes of any range.
LEMMA RangeExact ==
  ASSUME NEW p, NEW va \in Nat, NEW len \in Nat, NEW nul \in Nat
  PROVE  LET wanted == 0 .. Less(len, nul + 1) - 1
             gaps == {k \in wanted : Phys(p, va, k)[1] = None}
             n == IF gaps = {} THEN Cardinality(wanted) ELSE Min(gaps) + 1
         IN CopyLoop(p, va, len, nul) = [k \in 1 .. n |-> Phys(p, va, k - 1)]
<1>1. PICK stop : stop = Less(len, nul + 1)
  OBVIOUS
<1>2. stop \in Nat /\ stop <= len /\ stop <= nul + 1 /\ (stop = len \/ stop = nul + 1)
  BY <1>1 DEF Less
<1>3. PICK gaps : gaps = {k \in 0 .. stop - 1 : Phys(p, va, k)[1] = None}
  OBVIOUS
<1>4. gaps = {k \in 0 .. stop - 1 : Gap(p, va, k)}
  BY <1>3 DEF Phys, Gap
<1>5. PICK size : size = Cardinality(0 .. stop - 1)
  OBVIOUS
<1>6. size = stop
  BY <1>2, <1>5, FS_Interval
<1>7. PICK n : n = IF gaps = {} THEN size ELSE Min(gaps) + 1
  OBVIOUS
<1>8. SUFFICES CopyLoop(p, va, len, nul) = [k \in 1 .. n |-> Phys(p, va, k - 1)]
  BY <1>1, <1>3, <1>5, <1>7, ZenonT(20)
<1>9. CopyLoop(p, va, len, nul)
        = IF 0 < stop THEN Taken(p, va, 0, End(p, va, stop, 0))
          ELSE Round(p, va, len, nul, <<>>, 0)
  <2>1. CopyLoop(p, va, len, nul) = Accessed(p, va, len, nul, stop)[0]
    BY <1>2, LoopAccesses
  <2>2. 0 \in 0 .. len
    OBVIOUS
  <2> QED
    BY <2>1, <2>2, Zenon DEF Accessed
<1>10. CASE stop = 0
  <2>1. len = 0 /\ ~(0 < stop)
    BY <1>2, <1>10
  <2>2. Round(p, va, len, nul, <<>>, 0) = <<>>
    BY <2>1, Zenon DEF Round
  <2>3. gaps = {} /\ n = 0
    BY <1>3, <1>6, <1>7, <1>10
  <2>4. [k \in 1 .. n |-> Phys(p, va, k - 1)] = <<>>
    BY <2>3
  <2> QED
    BY <1>9, <2>1, <2>2, <2>4, Zenon
<1>11. CASE 0 < stop
  <2>1. IsEnd(p, va, stop, 0, n)
    <3>1. 0 \in Nat
      OBVIOUS
    <3> QED
      BY <1>2, <1>4, <1>6, <1>7, <1>11, <3>1, EndExists, ZenonT(20)
  <2>2. End(p, va, stop, 0) = n
    BY <1>2, <2>1, EndUnique
  <2>3. n \in Nat
    BY <2>1 DEF IsEnd
  <2>4. PICK m : m = n - 0
    OBVIOUS
  <2>5. m = n
    BY <2>3, <2>4
  <2>6. Taken(p, va, 0, n) = [k \in 1 .. m |-> Phys(p, va, 0 + k - 1)]
    BY <2>4, Zenon DEF Taken
  <2>7. \A k \in 1 .. n : 0 + k - 1 = k - 1
    BY <2>3
  <2>8. [k \in 1 .. n |-> Phys(p, va, 0 + k - 1)] = [k \in 1 .. n |-> Phys(p, va, k - 1)]
    BY <2>7, Zenon
  <2> QED
    BY <1>9, <1>11, <2>2, <2>5, <2>6, <2>8, Zenon
<1> QED
  BY <1>2, <1>10, <1>11

\* uvm_copyin(), uvm_copyout() and uvm_copyin_str() access exactly the bytes of
\* the range, whatever the page size, the mapping and the place of the NUL.
THEOREM CopiesExact == Spec => []CopyExact
<1>1. ASSUME NEW r \in Ranges PROVE r[1] \in Nat /\ r[2] \in Nat /\ r[3] \in Nat
  BY DEF Ranges
<1>2. CopyExact
  BY <1>1, RangeExact, ZenonT(20) DEF CopyExact
<1> QED
  BY <1>2, PTL
=============================================================================
