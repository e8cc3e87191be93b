---------------------------- MODULE BufCacheProofs ----------------------------
(***************************************************************************)
(* Proofs about BufCache, for any processes, buffers, values, block        *)
(* numbers, disk size and width of a number, and the proof that it         *)
(* implements BlockStore.                                                  *)
(***************************************************************************)
EXTENDS BufCache, FiniteSetTheorems, WellFoundedInduction, TLAPS

N == Cardinality(Bufs)

\* The ring has every buffer once.
Ring(l) ==
  /\ l \in [1 .. N -> Bufs]
  /\ \A i, j \in 1 .. N : l[i] = l[j] => i = j
  /\ \A b \in Bufs : \E i \in 1 .. N : l[i] = b

\* The processes that use b.
Users(b) == {p \in Procs : b \in hold[p] \/ (pc[p] = "read" /\ op[p][1] = b)}

\* A process in a disk wait knows the buffer it waits for, which is assigned to
\* the number of the transfer; a write is to a buffer the process has, a read
\* is never for BLOCK_NUM_UNUSED.
WaitsKnown ==
  \A p \in Procs : pc[p] # "run" =>
    /\ op[p] \in Bufs \X (Blocks \cup {UNUSED})
    /\ block_num[op[p][1]] = op[p][2]
    /\ pc[p] = "write" => op[p][1] \in hold[p]
    /\ pc[p] = "read" => op[p][1] \notin hold[p] /\ op[p][2] \in Blocks

\* A process has got the buffer of a number only after the disk has answered:
\* the number is one of the disk.
HeldOnDisk ==
  \A p \in Procs : \A b \in hold[p] :
    block_num[b] # UNUSED => DiskBlock(block_num[b]) \in OnDisk

\* Since the lock is held as long as the buffer is used, and meeting it locked
\* is a panic, no buffer ever has two users: it is unused, unlocked, and has no
\* references, or it is none of that.  A buffer assigned to a number is used;
\* one that is not may still be, by a process that asked for UNUSED.
OneUser ==
  \A b \in Bufs :
    /\ slk[b] <=> buf_ref[b] = 1
    /\ block_num[b] # UNUSED => slk[b]
    /\ slk[b] <=> Users(b) # {}
    /\ buf_ref[b] \in {0, 1}
    /\ \A p, q \in Users(b) : p = q

\* Unreferenced buffers are behind the referenced ones.
FreeAtBack ==
  \A i, j \in 1 .. N : i < j /\ buf_ref[list[i]] = 0 => buf_ref[list[j]] = 0

\* The inductive invariant.
IInv ==
  /\ TypeOK
  /\ Ring(list)
  /\ OneBufPerBlock
  /\ ExhaustedOnlyWhenFull
  /\ panicked = "no" => WaitsKnown /\ HeldOnDisk /\ OneUser /\ FreeAtBack
-----------------------------------------------------------------------------
(* The ring.                                                               *)

\* The cache has at least one buffer.
LEMMA SizeType == N \in Nat /\ N > 0
<1>1. N \in Nat
  BY BufsAssumption, FS_CardinalityType DEF N
<1>2. N # 0
  BY BufsAssumption, FS_EmptySet DEF N
<1> QED
  BY <1>1, <1>2

\* A ring is a sequence with the buffers as its elements.
LEMMA RingIsSeq ==
  ASSUME NEW l, Ring(l)
  PROVE  l \in Seq(Bufs) /\ Len(l) = N /\ DOMAIN l = 1 .. N /\ ToSet(l) = Bufs
<1>1. l \in Seq(Bufs) /\ Len(l) = N /\ DOMAIN l = 1 .. N
  BY SizeType DEF Ring
<1> QED
  BY <1>1 DEF ToSet, Ring

\* buf_init() makes a ring.
LEMMA InitRing == Ring(SetToSeq(Bufs))
<1>1. PICK f \in [1 .. N -> Bufs] : IsInjective(f)
  BY BufsAssumption, FS_CardinalityType
  DEF N, ExistsBijection, Bijection, Injection
<1> DEFINE l == SetToSeq(Bufs)
<1>2. l \in [1 .. N -> Bufs] /\ IsInjective(l)
  BY <1>1 DEF SetToSeq, N
<1>3. Cardinality(1 .. N) = N /\ l \in Injection(1 .. N, Bufs)
  BY <1>2, FS_Interval, SizeType DEF Injection
<1>4. l \in Surjection(1 .. N, Bufs)
  BY <1>3, FS_Injection, BufsAssumption DEF N
<1> QED
  BY <1>2, <1>4 DEF Ring, Surjection, IsInjective

\* Concatenation of sequences of buffers, as a function.
LEMMA Concat ==
  ASSUME NEW m \in Nat, NEW n \in Nat, NEW s \in [1 .. m -> Bufs], NEW t \in [1 .. n -> Bufs]
  PROVE  s \o t = [i \in 1 .. m + n |-> IF i <= m THEN s[i] ELSE t[i - m]]
<1>1. s \in Seq(Bufs) /\ Len(s) = m /\ t \in Seq(Bufs) /\ Len(t) = n
  OBVIOUS
<1>2. s \o t \in Seq(Bufs) /\ Len(s \o t) = m + n
  BY <1>1
<1>3. \A i \in 1 .. m + n : (s \o t)[i] = IF i <= m THEN s[i] ELSE t[i - m]
  BY <1>1
<1>4. s \o t \in [1 .. m + n -> Bufs]
  <2> DEFINE r == s \o t
  <2>1. r \in Seq(Bufs) /\ Len(r) = m + n
    BY <1>2
  <2> HIDE DEF r
  <2>2. r \in [1 .. m + n -> Bufs]
    BY <2>1
  <2> QED
    BY <2>2 DEF r
<1>5. DOMAIN (s \o t) = 1 .. m + n /\ s \o t = [i \in DOMAIN (s \o t) |-> (s \o t)[i]]
  BY <1>4, Zenon
<1> QED
  BY <1>3, <1>5, Zenon

\* insert_head() takes the node at place k out of the ring ...
LEMMA UnlinkedShape ==
  ASSUME NEW l, Ring(l), NEW k \in 1 .. N
  PROVE  Unlinked(l, l[k]) = [i \in 1 .. N - 1 |-> IF i < k THEN l[i] ELSE l[i + 1]]
<1> DEFINE s == [i \in 1 .. k - 1 |-> l[i]]
           t == [i \in 1 .. N - k |-> l[i + k]]
<1>1. (CHOOSE i \in DOMAIN l : l[i] = l[k]) = k
  BY RingIsSeq DEF Ring
<1>2. SubSeq(l, 1, k - 1) = s /\ SubSeq(l, k + 1, Len(l)) = t
  BY RingIsSeq, SizeType
<1>3. k - 1 \in Nat /\ N - k \in Nat /\ (k - 1) + (N - k) = N - 1
  BY SizeType
<1>4. s \in [1 .. k - 1 -> Bufs] /\ t \in [1 .. N - k -> Bufs]
  BY SizeType DEF Ring
<1>5. s \o t = [i \in 1 .. (k - 1) + (N - k) |-> IF i <= k - 1 THEN s[i] ELSE t[i - (k - 1)]]
  <2> HIDE DEF s, t
  <2> QED
    BY <1>3, <1>4, Concat, ZenonT(60)
<1>6. s \o t = [i \in 1 .. N - 1 |-> IF i < k THEN l[i] ELSE l[i + 1]]
  BY <1>3, <1>5, SizeType
<1> QED
  BY <1>1, <1>2, <1>6 DEF Unlinked, RemoveAt

\* ... and puts it at one of its ends.
LEMMA MovedShape ==
  ASSUME NEW l, Ring(l), NEW k \in 1 .. N
  PROVE  /\ ToFront(l, l[k]) = [i \in 1 .. N |-> IF i = 1 THEN l[k]
                                                 ELSE IF i <= k THEN l[i - 1] ELSE l[i]]
         /\ ToBack(l, l[k]) = [i \in 1 .. N |-> IF i = N THEN l[k]
                                                ELSE IF i < k THEN l[i] ELSE l[i + 1]]
<1> DEFINE u == Unlinked(l, l[k])
           x == [i \in 1 .. 1 |-> l[k]]
<1>1. u = [i \in 1 .. N - 1 |-> IF i < k THEN l[i] ELSE l[i + 1]]
  BY UnlinkedShape
<1>2. u \in [1 .. N - 1 -> Bufs] /\ N - 1 \in Nat
  BY <1>1, SizeType DEF Ring
<1>3. <<l[k]>> = x /\ x \in [1 .. 1 -> Bufs]
  BY DEF Ring
<1>4. x \o u = [i \in 1 .. 1 + (N - 1) |-> IF i <= 1 THEN x[i] ELSE u[i - 1]]
  BY <1>2, <1>3, Concat
<1>5. u \o x = [i \in 1 .. (N - 1) + 1 |-> IF i <= N - 1 THEN u[i] ELSE x[i - (N - 1)]]
  BY <1>2, <1>3, Concat
<1>6. x \o u = [i \in 1 .. N |-> IF i = 1 THEN l[k] ELSE IF i <= k THEN l[i - 1] ELSE l[i]]
  BY <1>1, <1>4, SizeType
<1>7. u \o x = [i \in 1 .. N |-> IF i = N THEN l[k] ELSE IF i < k THEN l[i] ELSE l[i + 1]]
  BY <1>1, <1>5, SizeType
<1> QED
  BY <1>3, <1>6, <1>7 DEF ToFront, ToBack

\* Both leave a ring.
LEMMA MovedRings ==
  ASSUME NEW l, Ring(l), NEW b \in Bufs
  PROVE  Ring(ToFront(l, b)) /\ Ring(ToBack(l, b))
<1>1. PICK k \in 1 .. N : l[k] = b
  BY DEF Ring
<1> DEFINE f == [i \in 1 .. N |-> IF i = 1 THEN l[k] ELSE IF i <= k THEN l[i - 1] ELSE l[i]]
           g == [i \in 1 .. N |-> IF i = N THEN l[k] ELSE IF i < k THEN l[i] ELSE l[i + 1]]
<1>2. ToFront(l, b) = f /\ ToBack(l, b) = g
  BY <1>1, MovedShape, Zenon
<1>3. Ring(f)
  <2>1. f \in [1 .. N -> Bufs]
    BY SizeType DEF Ring
  <2>2. \A i, j \in 1 .. N : f[i] = f[j] => i = j
    BY SizeType DEF Ring
  <2>3. ASSUME NEW c \in Bufs PROVE \E i \in 1 .. N : f[i] = c
    <3>1. PICK j \in 1 .. N : l[j] = c
      BY DEF Ring
    <3>2. CASE j = k
      BY <3>1, <3>2, SizeType
    <3>3. CASE j < k
      <4>1. j + 1 \in 1 .. N /\ f[j + 1] = c
        BY <3>1, <3>3, SizeType
      <4> QED
        BY <4>1
    <3>4. CASE j > k
      BY <3>1, <3>4, SizeType
    <3> QED
      BY <3>2, <3>3, <3>4
  <2> QED
    BY <2>1, <2>2, <2>3 DEF Ring
<1>4. Ring(g)
  <2>1. g \in [1 .. N -> Bufs]
    BY SizeType DEF Ring
  <2>2. \A i, j \in 1 .. N : g[i] = g[j] => i = j
    BY SizeType DEF Ring
  <2>3. ASSUME NEW c \in Bufs PROVE \E i \in 1 .. N : g[i] = c
    <3>1. PICK j \in 1 .. N : l[j] = c
      BY DEF Ring
    <3>2. CASE j = k
      BY <3>1, <3>2, SizeType
    <3>3. CASE j < k
      BY <3>1, <3>3, SizeType
    <3>4. CASE j > k
      <4>1. j - 1 \in 1 .. N /\ g[j - 1] = c
        BY <3>1, <3>4, SizeType
      <4> QED
        BY <4>1
    <3> QED
      BY <3>2, <3>3, <3>4
  <2> QED
    BY <2>1, <2>2, <2>3 DEF Ring
<1> QED
  BY <1>2, <1>3, <1>4

\* The scan of buf_read() stops at the first buffer with the number.
LEMMA HitIsFirst ==
  ASSUME Ring(list), NEW k, Cached(k) # {}
  PROVE  \E i \in 1 .. N : /\ list[i] = Hit(k) /\ Hit(k) \in Cached(k)
                           /\ \A j \in 1 .. N : list[j] \in Cached(k) => i <= j
<1> DEFINE T == {i \in 1 .. N : list[i] \in Cached(k)}
<1>1. T \subseteq Nat /\ T # {}
  BY SizeType DEF Ring, Cached
<1>2. PICK i \in T : \A j \in T : ~(<<j, i>> \in OpToRel(<, Nat))
  BY <1>1, NatLessThanWellFounded, WFMin
<1>3. ASSUME NEW j \in T PROVE i <= j
  <2>1. i \in Nat /\ j \in Nat
    BY <1>1
  <2>2. j < i => <<j, i>> \in OpToRel(<, Nat)
    BY <2>1 DEF OpToRel
  <2>3. ~(j < i)
    BY <1>2, <2>2, Zenon
  <2> QED
    BY <2>1, <2>3
<1>4. DOMAIN list = 1 .. N
  BY RingIsSeq
<1>5. \E x \in DOMAIN list : /\ list[x] \in Cached(k)
                             /\ \A j \in DOMAIN list : list[j] \in Cached(k) => x <= j
  BY <1>3, <1>4
<1>6. PICK x \in DOMAIN list : /\ Hit(k) = list[x] /\ list[x] \in Cached(k)
                              /\ \A j \in DOMAIN list : list[j] \in Cached(k) => x <= j
  BY <1>5, Zenon DEF Hit
<1> QED
  BY <1>4, <1>6
-----------------------------------------------------------------------------
(* The inductive invariant.                                                *)

\* No number that is asked for is UNUSED.
LEMMA UnusedIsNone == UNUSED \notin Blocks
BY NumbersAssumption DEF UNUSED


\* What buf_init() sets up has it.
LEMMA IInvInit == Init => IInv
<1> SUFFICES ASSUME Init PROVE IInv
  OBVIOUS
<1>1. Ring(list)
  BY InitRing DEF Init
<1>2. TypeOK
  <2>1. list \in Seq(Bufs) /\ Len(list) = Cardinality(Bufs) /\ ToSet(list) = Bufs
    BY <1>1, RingIsSeq DEF N
  <2> QED
    BY <2>1 DEF Init, TypeOK
<1>3. OneBufPerBlock /\ ExhaustedOnlyWhenFull /\ WaitsKnown /\ HeldOnDisk /\ FreeAtBack
  BY <1>1 DEF Init, OneBufPerBlock, ExhaustedOnlyWhenFull, WaitsKnown, HeldOnDisk, FreeAtBack, Ring
<1>4. \A b \in Bufs : Users(b) = {}
  BY DEF Init, Users
<1>5. OneUser
  BY <1>4 DEF Init, OneUser
<1> QED
  BY <1>1, <1>2, <1>3, <1>5 DEF IInv

\* A panic of buf_read() changes one reference count at most.
LEMMA PanicStep ==
  ASSUME IInv, NEW why \in {"acquire", "not locked", "status"}, Panic(why),
         buf_ref' \in [Bufs -> Nat]
  PROVE  IInv'
<1>1. /\ panicked' = why /\ why # "no" /\ why # "referenced"
      /\ UNCHANGED <<list, block_num, slk, data, disk, pc, op, hold>>
  BY DEF Panic
<1>2. TypeOK'
  BY <1>1 DEF IInv, TypeOK
<1>3. Ring(list)' /\ OneBufPerBlock' /\ ExhaustedOnlyWhenFull'
  BY <1>1 DEF IInv, Ring, N, OneBufPerBlock, ExhaustedOnlyWhenFull
<1> QED
  BY <1>1, <1>2, <1>3 DEF IInv

\* A buffer that is assigned to a number is locked: buf_read() can only panic
\* when it finds the number.
LEMMA ReadHitPanics ==
  ASSUME IInv, NEW p \in Procs, NEW k \in Blocks \cup {UNUSED}, ReadHit(p, k), slk[Hit(k)] \/ k # UNUSED
  PROVE  /\ IInv'
         /\ UNCHANGED <<list, block_num, slk, data, disk, pc, op, hold>>
<1>1. panicked = "no" /\ Cached(k) # {} /\ TypeOK /\ OneUser /\ Ring(list)
  BY DEF ReadHit, CanCall, IInv
<1>2. Hit(k) \in Bufs /\ block_num[Hit(k)] = k
  BY <1>1, HitIsFirst DEF Cached
<1>3. PICK b \in Bufs : b = Hit(k)
  BY <1>2
<1>4. slk[b]
  BY <1>1, <1>2, <1>3 DEF OneUser
<1>5. buf_ref' = [buf_ref EXCEPT ![b] = @ + 1] /\ Panic("acquire")
  BY <1>3, <1>4 DEF ReadHit
<1>6. buf_ref' \in [Bufs -> Nat]
  <2>1. buf_ref \in [Bufs -> Nat]
    BY <1>1 DEF TypeOK
  <2>2. buf_ref' = [buf_ref EXCEPT ![b] = buf_ref[b] + 1] /\ buf_ref[b] + 1 \in Nat
    BY <1>5, <2>1
  <2> QED
    BY <2>1, <2>2
<1> QED
  BY <1>5, <1>6, PanicStep DEF Panic

\* A process that asks for UNUSED gets the first free buffer as it is.  All the
\* free ones are behind it, so they still are when it is referenced.
LEMMA ReadHitUnused ==
  ASSUME IInv, NEW p \in Procs, ReadHit(p, UNUSED), ~slk[Hit(UNUSED)]
  PROVE  /\ IInv'
         /\ \E b \in Bufs : block_num[b] = UNUSED /\ hold' = [hold EXCEPT ![p] = @ \cup {b}]
         /\ UNCHANGED <<block_num, data, disk, panicked>>
<1>1. /\ panicked = "no" /\ pc[p] = "run" /\ Cached(UNUSED) # {}
      /\ TypeOK /\ Ring(list) /\ WaitsKnown /\ HeldOnDisk /\ OneUser /\ FreeAtBack
  BY DEF ReadHit, CanCall, IInv
<1>2. PICK i \in 1 .. N : /\ list[i] = Hit(UNUSED) /\ Hit(UNUSED) \in Cached(UNUSED)
                         /\ \A j \in 1 .. N : list[j] \in Cached(UNUSED) => i <= j
  BY <1>1, HitIsFirst
<1>3. PICK b \in Bufs : b = list[i] /\ b = Hit(UNUSED) /\ block_num[b] = UNUSED
  BY <1>2 DEF Cached
<1>4. ~slk[b] /\ buf_ref[b] = 0 /\ Users(b) = {}
  BY <1>1, <1>3 DEF OneUser
<1>5. /\ buf_ref' = [buf_ref EXCEPT ![b] = 1]
      /\ slk' = [slk EXCEPT ![b] = TRUE]
      /\ hold' = [hold EXCEPT ![p] = @ \cup {b}]
      /\ UNCHANGED <<list, block_num, data, disk, pc, op, panicked>>
  BY <1>3, <1>4 DEF ReadHit
<1>6. TypeOK'
  <2>1. hold' \in [Procs -> SUBSET Bufs]
    BY <1>1, <1>5 DEF TypeOK
  <2>2. buf_ref' \in [Bufs -> Nat] /\ slk' \in [Bufs -> BOOLEAN]
    BY <1>1, <1>5 DEF TypeOK
  <2> QED
    BY <1>1, <1>5, <2>1, <2>2 DEF TypeOK
<1>7. hold'[p] = hold[p] \cup {b} /\ \A q \in Procs \ {p} : hold'[q] = hold[q]
  BY <1>1, <1>5 DEF TypeOK
<1>8. \A q \in Procs : b \notin hold[q] /\ ~(pc[q] = "read" /\ op[q][1] = b)
  BY <1>4 DEF Users
<1>9. WaitsKnown' /\ HeldOnDisk'
  <2>1. WaitsKnown'
    BY <1>1, <1>5, <1>7 DEF WaitsKnown
  <2>2. HeldOnDisk'
    BY <1>1, <1>3, <1>5, <1>7 DEF HeldOnDisk
  <2> QED
    BY <2>1, <2>2
<1>10. Users(b)' = {p}
  BY <1>5, <1>7, <1>8 DEF Users
<1>11. \A c \in Bufs \ {b} : Users(c)' = Users(c)
  BY <1>5, <1>7 DEF Users
<1>12. slk'[b] /\ buf_ref'[b] = 1
  BY <1>1, <1>5 DEF TypeOK
<1>13. \A c \in Bufs \ {b} : slk'[c] = slk[c] /\ buf_ref'[c] = buf_ref[c]
  BY <1>1, <1>5 DEF TypeOK
<1>14. OneUser'
  <2> SUFFICES ASSUME NEW c \in Bufs
               PROVE  /\ slk'[c] <=> buf_ref'[c] = 1
                      /\ block_num'[c] # UNUSED => slk'[c]
                      /\ slk'[c] <=> Users(c)' # {}
                      /\ buf_ref'[c] \in {0, 1}
                      /\ \A q, r \in Users(c)' : q = r
    BY <1>5 DEF OneUser, UNUSED
  <2>1. CASE c = b
    BY <1>10, <1>12, <2>1
  <2>2. CASE c # b
    BY <1>1, <1>5, <1>11, <1>13, <2>2 DEF OneUser
  <2> QED
    BY <2>1, <2>2
<1>15. FreeAtBack'
  <2> SUFFICES ASSUME NEW x \in 1 .. N, NEW y \in 1 .. N, x < y, buf_ref'[list[x]] = 0
               PROVE  buf_ref'[list[y]] = 0
    BY <1>5 DEF FreeAtBack, N
  <2>1. list[x] \in Bufs \ {b} /\ list[y] \in Bufs
    BY <1>1, <1>12 DEF Ring
  <2>2. buf_ref[list[x]] = 0 /\ list[x] \in Cached(UNUSED)
    BY <1>1, <1>13, <2>1 DEF OneUser, Cached
  <2>3. i <= x
    BY <1>2, <2>2
  <2>4. list[y] # b
    <3>1. i # y
      BY <2>3
    <3>2. list[i] # list[y]
      BY <1>1, <3>1 DEF Ring
    <3> QED
      BY <1>3, <3>2, Zenon
  <2> QED
    BY <1>1, <1>13, <2>1, <2>2, <2>4 DEF FreeAtBack
<1>16. Ring(list)' /\ OneBufPerBlock' /\ ExhaustedOnlyWhenFull'
  BY <1>1, <1>5 DEF IInv, Ring, N, OneBufPerBlock, ExhaustedOnlyWhenFull, UNUSED
<1> QED
  BY <1>3, <1>5, <1>6, <1>9, <1>14, <1>15, <1>16 DEF IInv

\* The buffer at head_buf.prev, when it is unreferenced, becomes the first.
LEMMA ReadMissStep ==
  ASSUME IInv, NEW p \in Procs, NEW k \in Blocks \cup {UNUSED}, ReadMiss(p, k)
  PROVE  IInv'
<1>1. /\ panicked = "no" /\ pc[p] = "run" /\ Cached(k) = {}
      /\ TypeOK /\ Ring(list) /\ WaitsKnown /\ HeldOnDisk /\ OneUser /\ FreeAtBack
  BY DEF ReadMiss, CanCall, IInv
<1>2. PICK b \in Bufs : b = Last(list) /\ b = list[N] /\ N \in 1 .. N
  BY <1>1, SizeType, RingIsSeq DEF Ring, Last
<1>3. CASE buf_ref[b] # 0
  <2>1. /\ panicked' = "referenced"
        /\ UNCHANGED <<list, block_num, buf_ref, slk, data, disk, pc, op, hold>>
    BY <1>2, <1>3 DEF ReadMiss, Panic
  <2>2. \A i \in 1 .. N : buf_ref[list[i]] # 0
    BY <1>1, <1>2, <1>3, SizeType DEF FreeAtBack
  <2>3. \A c \in Bufs : buf_ref[c] > 0
    BY <1>1, <2>2 DEF Ring, TypeOK
  <2> QED
    BY <2>1, <2>3 DEF IInv, TypeOK, Ring, OneBufPerBlock, ExhaustedOnlyWhenFull
<1>4. CASE buf_ref[b] = 0
  <2>1. ~slk[b] /\ block_num[b] = UNUSED /\ Users(b) = {}
    BY <1>1, <1>2, <1>4 DEF OneUser, TypeOK
  <2>2. /\ buf_ref' = [buf_ref EXCEPT ![b] = 1]
        /\ block_num' = [block_num EXCEPT ![b] = k]
        /\ list' = ToFront(list, b)
        /\ slk' = [slk EXCEPT ![b] = TRUE]
        /\ pc' = [pc EXCEPT ![p] = "read"]
        /\ op' = [op EXCEPT ![p] = <<b, k>>]
        /\ UNCHANGED <<data, disk, hold, panicked>>
    BY <1>2, <1>4, <2>1 DEF ReadMiss
  <2>3. Ring(list')
    BY <1>1, <1>2, <2>2, MovedRings
  <2>4. TypeOK'
    <3>1. (list \in Seq(Bufs) /\ Len(list) = Cardinality(Bufs) /\ ToSet(list) = Bufs)'
      BY <2>3, RingIsSeq DEF N
    <3> QED
      BY <3>1, <2>2, <1>1, <1>2 DEF TypeOK
  <2>5. k # UNUSED /\ k \in Blocks /\ \A c \in Bufs : block_num[c] # k
    BY <1>1, <1>2, <2>1 DEF Cached
  <2>6. OneBufPerBlock'
    BY <2>2, <2>5, <1>1, <1>2 DEF IInv, OneBufPerBlock, TypeOK
  <2>7. \A q \in Procs : pc[q] # "run" => q # p /\ op[q][1] # b
    BY <1>1, <1>2, <2>1, UnusedIsNone DEF WaitsKnown, Users, TypeOK
  <2>8. \A q \in Procs : b \notin hold[q]
    BY <2>1 DEF Users
  <2>9. WaitsKnown'
    BY <1>1, <1>2, <2>2, <2>5, <2>7, <2>8 DEF WaitsKnown, TypeOK
  <2>15. HeldOnDisk'
    BY <1>1, <1>2, <2>2, <2>8 DEF HeldOnDisk, TypeOK
  <2>10. Users(b)' = {p}
    <3>1. pc'[p] = "read" /\ op'[p][1] = b
      BY <1>1, <2>2 DEF TypeOK
    <3>2. \A q \in Procs \ {p} : b \notin hold'[q] /\ ~(pc'[q] = "read" /\ op'[q][1] = b)
      BY <1>1, <2>2, <2>7, <2>8 DEF TypeOK
    <3>3. p \in Users(b)' /\ \A q \in Users(b)' : q = p
      BY <3>1, <3>2 DEF Users
    <3> QED
      BY <3>3
  <2>11. \A c \in Bufs \ {b} : Users(c)' = Users(c)
    BY <1>1, <1>2, <2>2 DEF Users, TypeOK
  <2>12. OneUser'
    <3>1. slk'[b] /\ buf_ref'[b] = 1 /\ block_num'[b] = k /\ k # UNUSED
      BY <1>1, <1>2, <2>2, <2>5 DEF TypeOK
    <3>2. \A c \in Bufs \ {b} : /\ slk'[c] = slk[c] /\ buf_ref'[c] = buf_ref[c]
                               /\ block_num'[c] = block_num[c]
      BY <1>1, <1>2, <2>2 DEF TypeOK
    <3> SUFFICES ASSUME NEW c \in Bufs
                 PROVE  /\ slk'[c] <=> buf_ref'[c] = 1
                        /\ block_num'[c] # UNUSED => slk'[c]
                        /\ slk'[c] <=> Users(c)' # {}
                        /\ buf_ref'[c] \in {0, 1}
                        /\ \A q, r \in Users(c)' : q = r
      BY <2>2 DEF OneUser, UNUSED
    <3>3. CASE c = b
      BY <2>10, <3>1, <3>3
    <3>4. CASE c # b
      BY <1>1, <2>11, <3>2, <3>4 DEF OneUser
    <3> QED
      BY <3>3, <3>4
  <2>13. list' = [i \in 1 .. N |-> IF i = 1 THEN list[N] ELSE IF i <= N THEN list[i - 1] ELSE list[i]]
    <3>1. list' = ToFront(list, list[N])
      BY <1>2, <2>2
    <3> QED
      BY <1>1, <1>2, <3>1, MovedShape, Zenon
  <2>14. FreeAtBack'
    <3> SUFFICES ASSUME NEW i \in 1 .. N, NEW j \in 1 .. N, i < j, buf_ref'[list'[i]] = 0
                 PROVE  buf_ref'[list'[j]] = 0
      BY DEF FreeAtBack, N
    <3>1. list'[1] = b /\ buf_ref'[b] = 1
      BY <1>1, <1>2, <2>2, <2>13 DEF TypeOK
    <3>2. i # 1 /\ i - 1 \in 1 .. N /\ j - 1 \in 1 .. N /\ i - 1 < j - 1 /\ j - 1 # N
      BY <3>1, SizeType
    <3>3. list'[i] = list[i - 1] /\ list'[j] = list[j - 1]
      BY <2>13, <3>2
    <3>4. list[i - 1] # b /\ list[j - 1] # b /\ list[i - 1] \in Bufs /\ list[j - 1] \in Bufs
      BY <1>1, <1>2, <3>2 DEF Ring
    <3>5. \A c \in Bufs \ {b} : buf_ref'[c] = buf_ref[c]
      BY <1>1, <1>2, <2>2 DEF TypeOK
    <3> QED
      BY <1>1, <3>2, <3>3, <3>4, <3>5 DEF FreeAtBack
  <2> QED
    BY <1>1, <2>2, <2>3, <2>4, <2>6, <2>9, <2>12, <2>14, <2>15 DEF IInv, ExhaustedOnlyWhenFull
<1> QED
  BY <1>3, <1>4

\* The disk read ends: the process that waited has the buffer, or the number
\* was off the disk.
LEMMA ReadDoneStep ==
  ASSUME IInv, NEW p \in Procs, ReadDone(p)
  PROVE  IInv'
<1> DEFINE b == op[p][1]
<1>1. /\ panicked = "no" /\ pc[p] = "read"
      /\ TypeOK /\ Ring(list) /\ WaitsKnown /\ HeldOnDisk /\ OneUser /\ FreeAtBack
  BY DEF ReadDone, IInv
<1>2. /\ op[p] \in Bufs \X Blocks /\ block_num[b] = op[p][2]
      /\ b \in Bufs /\ b \notin hold[p]
  BY <1>1 DEF WaitsKnown
<1>a. CASE Failed(p)
  <2>1. Panic("status") /\ UNCHANGED buf_ref /\ buf_ref \in [Bufs -> Nat]
    BY <1>1, <1>a DEF ReadDone, TypeOK
  <2> QED
    BY <2>1, PanicStep
<1>b. CASE ~Failed(p)
  <2>3. /\ data' = [data EXCEPT ![b] = disk[DiskBlock(op[p][2])]]
        /\ hold' = [hold EXCEPT ![p] = @ \cup {b}]
        /\ pc' = [pc EXCEPT ![p] = "run"]
        /\ op' = [op EXCEPT ![p] = None]
        /\ UNCHANGED <<list, block_num, buf_ref, slk, disk, panicked>>
    BY <1>b DEF ReadDone
  <2>a. DiskBlock(op[p][2]) \in OnDisk
    BY <1>b DEF Failed
  <2> HIDE DEF b
  <2>4. TypeOK'
    <3>1. data' \in [Bufs -> Values]
      BY <1>1, <1>2, <2>3, <2>a DEF TypeOK
    <3>2. hold' \in [Procs -> SUBSET Bufs]
      BY <1>1, <1>2, <2>3 DEF TypeOK
    <3> QED
      BY <1>1, <2>3, <3>1, <3>2 DEF TypeOK
  <2>5. hold'[p] = hold[p] \cup {b} /\ pc'[p] = "run"
    BY <1>1, <2>3 DEF TypeOK
  <2>6. \A q \in Procs \ {p} : hold'[q] = hold[q] /\ pc'[q] = pc[q] /\ op'[q] = op[q]
    BY <1>1, <2>3 DEF TypeOK
  <2>7. WaitsKnown'
    BY <1>1, <2>3, <2>5, <2>6 DEF WaitsKnown
  <2>b. HeldOnDisk'
    BY <1>1, <1>2, <2>3, <2>5, <2>6, <2>a DEF HeldOnDisk
  <2>8. \A c \in Bufs : Users(c)' = Users(c)
    <3> SUFFICES ASSUME NEW c \in Bufs, NEW q \in Procs
                 PROVE  q \in Users(c)' <=> q \in Users(c)
      BY DEF Users
    <3>1. CASE q = p
      BY <1>1, <2>5, <3>1 DEF Users, b
    <3>2. CASE q # p
      BY <2>6, <3>2 DEF Users
    <3> QED
      BY <3>1, <3>2
  <2>9. OneUser' /\ FreeAtBack'
    BY <1>1, <2>3, <2>8 DEF OneUser, FreeAtBack, N, UNUSED
  <2>10. Ring(list)' /\ OneBufPerBlock' /\ ExhaustedOnlyWhenFull'
    BY <1>1, <2>3 DEF IInv, Ring, N, OneBufPerBlock, ExhaustedOnlyWhenFull, UNUSED
  <2> QED
    BY <2>4, <2>7, <2>b, <2>9, <2>10 DEF IInv
<1> QED
  BY <1>a, <1>b

\* A process that writes has the buffer locked.
LEMMA WriteStartStep ==
  ASSUME IInv, NEW p \in Procs, NEW b \in Bufs, NEW v \in Values, WriteStart(p, b, v)
  PROVE  /\ IInv'
         /\ pc' = [pc EXCEPT ![p] = "write"]
         /\ UNCHANGED panicked
<1>1. /\ panicked = "no" /\ pc[p] = "run" /\ b \in hold[p]
      /\ TypeOK /\ Ring(list) /\ WaitsKnown /\ HeldOnDisk /\ OneUser /\ FreeAtBack
  BY DEF WriteStart, Handles, CanCall, IInv
<1>2. p \in Users(b) /\ slk[b] /\ block_num[b] \in Blocks \cup {UNUSED}
  BY <1>1 DEF Users, OneUser, TypeOK
<1>3. /\ data' = [data EXCEPT ![b] = v]
      /\ pc' = [pc EXCEPT ![p] = "write"]
      /\ op' = [op EXCEPT ![p] = <<b, block_num[b]>>]
      /\ UNCHANGED <<list, block_num, buf_ref, slk, disk, hold, panicked>>
  BY <1>2 DEF WriteStart
<1>4. TypeOK'
  BY <1>1, <1>2, <1>3 DEF TypeOK
<1>5. pc'[p] = "write" /\ op'[p] = <<b, block_num[b]>>
  BY <1>1, <1>3 DEF TypeOK
<1>6. \A q \in Procs \ {p} : pc'[q] = pc[q] /\ op'[q] = op[q]
  BY <1>1, <1>3 DEF TypeOK
<1>7. WaitsKnown'
  BY <1>1, <1>2, <1>3, <1>5, <1>6 DEF WaitsKnown
<1>11. HeldOnDisk'
  BY <1>1, <1>3 DEF HeldOnDisk
<1>8. \A c \in Bufs : Users(c)' = Users(c)
  <2> SUFFICES ASSUME NEW c \in Bufs, NEW q \in Procs
               PROVE  q \in Users(c)' <=> q \in Users(c)
    BY DEF Users
  <2>1. CASE q = p
    BY <1>1, <1>3, <1>5, <2>1 DEF Users
  <2>2. CASE q # p
    BY <1>3, <1>6, <2>2 DEF Users
  <2> QED
    BY <2>1, <2>2
<1>9. OneUser' /\ FreeAtBack'
  BY <1>1, <1>3, <1>8 DEF OneUser, FreeAtBack, N, UNUSED
<1>10. Ring(list)' /\ OneBufPerBlock' /\ ExhaustedOnlyWhenFull'
  BY <1>1, <1>3 DEF IInv, Ring, N, OneBufPerBlock, ExhaustedOnlyWhenFull, UNUSED
<1> QED
  BY <1>3, <1>4, <1>7, <1>9, <1>10, <1>11 DEF IInv

\* The disk write ends.
LEMMA WriteDoneStep ==
  ASSUME IInv, NEW p \in Procs, WriteDone(p)
  PROVE  IInv'
<1>1. /\ panicked = "no" /\ pc[p] = "write"
      /\ TypeOK /\ Ring(list) /\ WaitsKnown /\ HeldOnDisk /\ OneUser /\ FreeAtBack
  BY DEF WriteDone, IInv
<1>2. op[p] \in Bufs \X (Blocks \cup {UNUSED})
  BY <1>1 DEF WaitsKnown
<1>3. CASE Failed(p)
  <2>1. Panic("status") /\ UNCHANGED buf_ref /\ buf_ref \in [Bufs -> Nat]
    BY <1>1, <1>3 DEF WriteDone, TypeOK
  <2> QED
    BY <2>1, PanicStep
<1>4. CASE ~Failed(p)
  <2>3. /\ disk' = [disk EXCEPT ![DiskBlock(op[p][2])] = data[op[p][1]]]
        /\ pc' = [pc EXCEPT ![p] = "run"]
        /\ op' = [op EXCEPT ![p] = None]
        /\ UNCHANGED <<list, block_num, buf_ref, slk, data, hold, panicked>>
    BY <1>4 DEF WriteDone
  <2>4. TypeOK'
    BY <1>1, <1>2, <2>3 DEF TypeOK
  <2>5. pc'[p] = "run"
    BY <1>1, <2>3 DEF TypeOK
  <2>6. \A q \in Procs \ {p} : pc'[q] = pc[q] /\ op'[q] = op[q]
    BY <1>1, <2>3 DEF TypeOK
  <2>7. WaitsKnown' /\ HeldOnDisk'
    <3>1. WaitsKnown'
      BY <1>1, <2>3, <2>5, <2>6 DEF WaitsKnown
    <3>2. HeldOnDisk'
      BY <1>1, <2>3 DEF HeldOnDisk
    <3> QED
      BY <3>1, <3>2
  <2>8. \A c \in Bufs : Users(c)' = Users(c)
    BY <1>1, <2>3, <2>5, <2>6 DEF Users
  <2>9. OneUser' /\ FreeAtBack'
    BY <1>1, <2>3, <2>8 DEF OneUser, FreeAtBack, N, UNUSED
  <2>10. Ring(list)' /\ OneBufPerBlock' /\ ExhaustedOnlyWhenFull'
    BY <1>1, <2>3 DEF IInv, Ring, N, OneBufPerBlock, ExhaustedOnlyWhenFull, UNUSED
  <2> QED
    BY <2>4, <2>7, <2>9, <2>10 DEF IInv
<1> QED
  BY <1>3, <1>4

\* The only user of b releases it: b becomes the last of the ring.
LEMMA ReleaseStep ==
  ASSUME IInv, NEW p \in Procs, NEW b \in Bufs, Release(p, b)
  PROVE  /\ IInv'
         /\ hold' = [hold EXCEPT ![p] = @ \ {b}]
         /\ block_num' = [block_num EXCEPT ![b] = UNUSED]
         /\ UNCHANGED <<data, disk, panicked>>
<1>1. /\ panicked = "no" /\ pc[p] = "run" /\ b \in hold[p]
      /\ TypeOK /\ Ring(list) /\ WaitsKnown /\ HeldOnDisk /\ OneUser /\ FreeAtBack
  BY DEF Release, Handles, CanCall, IInv
<1>2. p \in Users(b) /\ slk[b] /\ buf_ref[b] = 1 /\ \A q \in Users(b) : q = p
  BY <1>1 DEF Users, OneUser
<1>3. /\ slk' = [slk EXCEPT ![b] = FALSE]
      /\ buf_ref' = [buf_ref EXCEPT ![b] = 0]
      /\ block_num' = [block_num EXCEPT ![b] = UNUSED]
      /\ list' = ToBack(list, b)
      /\ hold' = [hold EXCEPT ![p] = @ \ {b}]
      /\ UNCHANGED <<data, disk, pc, op, panicked>>
  BY <1>2 DEF Release
<1>4. Ring(list')
  BY <1>1, <1>3, MovedRings
<1>5. TypeOK'
  <2>1. (list \in Seq(Bufs) /\ Len(list) = Cardinality(Bufs) /\ ToSet(list) = Bufs)'
    BY <1>4, RingIsSeq DEF N
  <2>2. hold' \in [Procs -> SUBSET Bufs]
    BY <1>1, <1>3 DEF TypeOK
  <2> QED
    BY <2>1, <2>2, <1>1, <1>3 DEF TypeOK
<1>6. ~slk'[b] /\ buf_ref'[b] = 0 /\ block_num'[b] = UNUSED
  BY <1>1, <1>3 DEF TypeOK
<1>7. \A c \in Bufs \ {b} : /\ slk'[c] = slk[c] /\ buf_ref'[c] = buf_ref[c]
                            /\ block_num'[c] = block_num[c]
  BY <1>1, <1>3 DEF TypeOK
<1>8. hold'[p] = hold[p] \ {b} /\ \A q \in Procs \ {p} : hold'[q] = hold[q]
  BY <1>1, <1>3 DEF TypeOK
<1>9. OneBufPerBlock'
  BY <1>6, <1>7 DEF IInv, OneBufPerBlock, UNUSED
<1>10. \A q \in Procs : pc[q] # "run" => q # p /\ op[q][1] # b
  BY <1>1, <1>2 DEF WaitsKnown, Users, TypeOK
<1>11. WaitsKnown'
  BY <1>1, <1>3, <1>7, <1>8, <1>10 DEF WaitsKnown
<1>18. HeldOnDisk'
  <2>1. \A q \in Procs : hold'[q] \subseteq hold[q] /\ hold[q] \subseteq Bufs
    BY <1>1, <1>8 DEF TypeOK
  <2> QED
    BY <1>1, <1>6, <1>7, <2>1 DEF HeldOnDisk, UNUSED
<1>12. Users(b)' = {}
  BY <1>1, <1>2, <1>3, <1>8, <1>10 DEF Users, TypeOK
<1>13. \A c \in Bufs \ {b} : Users(c)' = Users(c)
  BY <1>3, <1>8 DEF Users
<1>14. OneUser'
  BY <1>1, <1>6, <1>7, <1>12, <1>13 DEF OneUser, UNUSED
<1>15. PICK k \in 1 .. N : list[k] = b
  BY <1>1 DEF Ring
<1>16. list' = [i \in 1 .. N |-> IF i = N THEN list[k] ELSE IF i < k THEN list[i] ELSE list[i + 1]]
  BY <1>1, <1>3, <1>15, MovedShape
<1>17. FreeAtBack'
  <2> SUFFICES ASSUME NEW i \in 1 .. N, NEW j \in 1 .. N, i < j, buf_ref'[list'[i]] = 0
               PROVE  buf_ref'[list'[j]] = 0
    BY DEF FreeAtBack, N
  <2>1. CASE j = N
    BY <1>6, <1>15, <1>16, <2>1
  <2>2. CASE j # N
    <3> DEFINE old(x) == IF x < k THEN x ELSE x + 1
    <3>1. old(i) \in 1 .. N /\ old(j) \in 1 .. N /\ old(i) < old(j) /\ old(i) # k /\ old(j) # k
      BY <2>2, SizeType
    <3>2. list'[i] = list[old(i)] /\ list'[j] = list[old(j)]
      BY <1>16, <2>2, SizeType
    <3> HIDE DEF old
    <3>3. list[old(i)] \in Bufs \ {b} /\ list[old(j)] \in Bufs \ {b}
      BY <1>1, <1>15, <3>1 DEF Ring
    <3> QED
      BY <1>1, <1>7, <3>1, <3>2, <3>3 DEF FreeAtBack
  <2> QED
    BY <2>1, <2>2
<1> QED
  BY <1>1, <1>3, <1>4, <1>5, <1>9, <1>11, <1>14, <1>17, <1>18 DEF IInv, ExhaustedOnlyWhenFull

\* Every step keeps the invariant.
LEMMA IInvNext == IInv /\ [Next]_vars => IInv'
<1> SUFFICES ASSUME IInv, [Next]_vars PROVE IInv'
  OBVIOUS
<1>1. ASSUME NEW p \in Procs, NEW k \in Blocks \cup {UNUSED}, ReadHit(p, k) PROVE IInv'
  <2>1. CASE slk[Hit(k)] \/ k # UNUSED
    BY <1>1, <2>1, ReadHitPanics
  <2>2. CASE ~slk[Hit(k)] /\ k = UNUSED
    BY <1>1, <2>2, ReadHitUnused
  <2> QED
    BY <2>1, <2>2
<1>2. ASSUME NEW p \in Procs, NEW k \in Blocks \cup {UNUSED}, ReadMiss(p, k) PROVE IInv'
  BY <1>2, ReadMissStep
<1>3. ASSUME NEW p \in Procs, ReadDone(p) PROVE IInv'
  BY <1>3, ReadDoneStep
<1>4. ASSUME NEW p \in Procs, WriteDone(p) PROVE IInv'
  BY <1>4, WriteDoneStep
<1>5. ASSUME NEW p \in Procs, NEW b \in Bufs, Release(p, b) PROVE IInv'
  BY <1>5, ReleaseStep
<1>6. ASSUME NEW p \in Procs, NEW b \in Bufs, NEW v \in Values, WriteStart(p, b, v) PROVE IInv'
  BY <1>6, WriteStartStep
<1>7. CASE UNCHANGED vars
  <2>1. UNCHANGED <<TypeOK, Ring(list), OneBufPerBlock, ExhaustedOnlyWhenFull, panicked>>
    BY <1>7, Zenon DEF vars, TypeOK, Ring, N, OneBufPerBlock, ExhaustedOnlyWhenFull
  <2>2. (WaitsKnown => WaitsKnown') /\ (HeldOnDisk => HeldOnDisk')
    BY <1>7 DEF vars, WaitsKnown, HeldOnDisk, UNUSED
  <2>3. FreeAtBack => FreeAtBack'
    BY <1>7 DEF vars, FreeAtBack, N
  <2>4. \A b \in Bufs : Users(b)' = Users(b)
    BY <1>7 DEF vars, Users
  <2>5. OneUser => OneUser'
    BY <1>7, <2>4 DEF vars, OneUser, UNUSED
  <2> QED
    BY <2>1, <2>2, <2>3, <2>5 DEF IInv
<1> QED
  BY <1>1, <1>2, <1>3, <1>4, <1>5, <1>6, <1>7 DEF Next

\* The inductive invariant holds in every reachable state.
THEOREM Inductive == Spec => []IInv
BY IInvInit, IInvNext, PTL DEF Spec

\* buf_init() and every operation of buf.c keep the types: the ring has all
\* the buffers, each once, and a reference count never goes below zero.
THEOREM TypeCorrect == Spec => []TypeOK
<1>1. IInv => TypeOK
  BY DEF IInv
<1> QED
  BY <1>1, Inductive, PTL

\* No block is ever in two buffers.
THEOREM OneCopy == Spec => []OneBufPerBlock
<1>1. IInv => OneBufPerBlock
  BY DEF IInv
<1> QED
  BY <1>1, Inductive, PTL

\* Until a panic, buf_ref is the number of processes that use the buffer.
THEOREM CountsExact == Spec => []RefCountsUsers
<1>1. IInv => RefCountsUsers
  <2> SUFFICES ASSUME IInv, panicked = "no", NEW b \in Bufs
               PROVE  buf_ref[b] = Cardinality(Users(b))
    BY DEF RefCountsUsers, Users
  <2>1. OneUser
    BY DEF IInv
  <2>2. CASE Users(b) = {}
    BY <2>1, <2>2, FS_EmptySet DEF OneUser
  <2>3. CASE Users(b) # {}
    <3>1. PICK p \in Users(b) : Users(b) = {p}
      BY <2>1, <2>3 DEF OneUser
    <3>2. Cardinality({p}) = 1
      BY FS_Singleton
    <3>3. buf_ref[b] = 1
      BY <2>1, <2>3 DEF OneUser
    <3> QED
      BY <3>1, <3>2, <3>3
  <2> QED
    BY <2>2, <2>3
<1> QED
  BY <1>1, Inductive, PTL

\* buf_read() gives up only when every buffer is referenced.
THEOREM GivesUpWhenFull == Spec => []ExhaustedOnlyWhenFull
<1>1. IInv => ExhaustedOnlyWhenFull
  BY DEF IInv
<1> QED
  BY <1>1, Inductive, PTL
-----------------------------------------------------------------------------
(* buf.c implements BlockStore.                                            *)

Owner == [k \in Blocks |-> IF UserOf(k) = {} THEN None ELSE CHOOSE p \in UserOf(k) : TRUE]
Copy == [k \in Blocks |-> IF UserOf(k) = {} THEN None
                          ELSE data[CHOOSE b \in Bufs : block_num[b] = k]]

\* A process that has the buffer of a number owns the number, and sees the
\* buffer's data.
HoldersOwn ==
  \A p \in Procs : \A b \in hold[p] : block_num[b] # UNUSED =>
    /\ b \in Bufs /\ block_num[b] \in Blocks
    /\ UserOf(block_num[b]) = {p}
    /\ Owner[block_num[b]] = p
    /\ Copy[block_num[b]] = data[b]

\* It follows from the invariant.
LEMMA HolderOwns == IInv /\ panicked = "no" => HoldersOwn
<1> SUFFICES ASSUME IInv, panicked = "no", NEW p \in Procs, NEW b \in hold[p],
                    block_num[b] # UNUSED
             PROVE  /\ b \in Bufs /\ block_num[b] \in Blocks
                    /\ UserOf(block_num[b]) = {p}
                    /\ Owner[block_num[b]] = p
                    /\ Copy[block_num[b]] = data[b]
  BY DEF HoldersOwn
<1> DEFINE k == block_num[b]
<1>1. TypeOK /\ OneUser /\ OneBufPerBlock
  BY DEF IInv
<1>2. b \in Bufs /\ p \in Users(b)
  BY <1>1 DEF TypeOK, Users
<1>3. k \in Blocks /\ k # UNUSED
  BY <1>1, <1>2 DEF OneUser, TypeOK
<1>4. \A c \in Bufs : block_num[c] = k => c = b
  BY <1>1, <1>2, <1>3 DEF OneBufPerBlock
<1>5. \A q \in UserOf(k) : q = p
  BY <1>1, <1>2, <1>4 DEF UserOf, Users, OneUser, TypeOK
<1>6. p \in UserOf(k)
  BY DEF UserOf
<1>7. UserOf(k) = {p}
  BY <1>5, <1>6
<1>8. (CHOOSE c \in Bufs : block_num[c] = k) = b
  BY <1>2, <1>4
<1>9. (CHOOSE q \in UserOf(k) : TRUE) = p
  BY <1>7
<1>10. UserOf(k) # {}
  BY <1>7
<1> HIDE DEF k
<1>11. Owner[k] = p
  BY <1>3, <1>9, <1>10 DEF Owner
<1>12. Copy[k] = data[b]
  BY <1>3, <1>8, <1>10 DEF Copy
<1> QED
  BY <1>2, <1>3, <1>7, <1>11, <1>12 DEF k

\* The same after a step.
LEMMA HolderOwnsNext == (IInv /\ panicked = "no" => HoldersOwn)'
BY HolderOwns, PTL

\* A step that changes neither who has the buffer of block k nor the data in
\* it changes nothing that is seen of k.
LEMMA Unaffected ==
  ASSUME IInv, IInv', panicked = "no", panicked' = "no", NEW k \in Blocks,
         \A q \in Procs : \A c \in Bufs :
           (c \in hold'[q] /\ block_num'[c] = k) <=> (c \in hold[q] /\ block_num[c] = k),
         \A c \in Bufs : block_num[c] = k => data'[c] = data[c]
  PROVE  Owner'[k] = Owner[k] /\ Copy'[k] = Copy[k]
<1>1. TypeOK /\ HoldersOwn /\ TypeOK' /\ HoldersOwn'
  BY HolderOwns, HolderOwnsNext DEF IInv
<1>2. \A q \in Procs : hold[q] \subseteq Bufs /\ hold'[q] \subseteq Bufs
  BY <1>1 DEF TypeOK
<1>3. UserOf(k)' = UserOf(k)
  BY <1>2 DEF UserOf
<1>4. CASE UserOf(k) = {}
  BY <1>3, <1>4 DEF Owner, Copy
<1>5. CASE UserOf(k) # {}
  <2>1. PICK p \in Procs : \E b \in hold[p] : block_num[b] = k
    BY <1>5 DEF UserOf
  <2>2. PICK b \in hold[p] : block_num[b] = k
    BY <2>1
  <2>3. b \in Bufs /\ b \in hold'[p] /\ block_num'[b] = k /\ data'[b] = data[b]
    BY <1>2, <2>2
  <2>4. Owner[k] = p /\ Copy[k] = data[b]
    BY <1>1, <2>2, UnusedIsNone DEF HoldersOwn
  <2>5. Owner'[k] = p /\ Copy'[k] = data'[b]
    BY <1>1, <2>3, UnusedIsNone DEF HoldersOwn, UNUSED
  <2> QED
    BY <2>3, <2>4, <2>5
<1> QED
  BY <1>4, <1>5

\* buf_read() up to its disk wait, or to a panic, is not seen.
LEMMA ReadsUnseen ==
  ASSUME IInv, IInv', NEW p \in Procs, NEW k \in Blocks \cup {UNUSED},
         ReadHit(p, k) \/ ReadMiss(p, k)
  PROVE  UNCHANGED <<disk, Owner, Copy>>
<1>1. CASE UNCHANGED <<block_num, hold, data, disk>>
  <2>1. Owner' = Owner
    BY <1>1 DEF Owner, UserOf
  <2>2. Copy' = Copy
    BY <1>1 DEF Copy, UserOf
  <2> QED
    BY <1>1, <2>1, <2>2
<1>2. CASE ReadHit(p, k)
  <2>1. CASE slk[Hit(k)] \/ k # UNUSED
    BY <1>1, <1>2, <2>1, ReadHitPanics
  <2>2. CASE ~slk[Hit(k)] /\ k = UNUSED
    <3>1. PICK b \in Bufs : block_num[b] = UNUSED /\ hold' = [hold EXCEPT ![p] = @ \cup {b}]
      BY <1>2, <2>2, ReadHitUnused
    <3>2. UNCHANGED <<block_num, data, disk, panicked>> /\ panicked = "no" /\ TypeOK
      BY <1>2, <2>2, ReadHitUnused DEF ReadHit, CanCall, IInv
    <3>3. \A q \in Procs : hold'[q] \ {b} = hold[q] \ {b}
      BY <3>1, <3>2 DEF TypeOK
    <3>4. \A j \in Blocks : Owner'[j] = Owner[j] /\ Copy'[j] = Copy[j]
      BY <3>1, <3>2, <3>3, UnusedIsNone, Unaffected
    <3> QED
      BY <3>2, <3>4 DEF Owner, Copy
  <2> QED
    BY <2>1, <2>2
<1>3. CASE ReadMiss(p, k) /\ block_num' # block_num
  <2>1. /\ panicked = "no" /\ Cached(k) = {}
        /\ TypeOK /\ Ring(list) /\ OneUser
    BY <1>3 DEF ReadMiss, CanCall, IInv
  <2>2. PICK b \in Bufs : b = Last(list)
    BY <2>1, SizeType, RingIsSeq DEF Ring, Last
  <2>3. buf_ref[b] = 0
    BY <1>3, <2>2 DEF ReadMiss, Panic
  <2>4. ~slk[b] /\ block_num[b] = UNUSED /\ Users(b) = {}
    BY <2>1, <2>3 DEF OneUser, TypeOK
  <2>5. block_num' = [block_num EXCEPT ![b] = k] /\ UNCHANGED <<data, disk, hold, panicked>>
    BY <1>3, <2>2, <2>3, <2>4 DEF ReadMiss
  <2>6. \A q \in Procs : b \notin hold[q]
    BY <2>4 DEF Users
  <2>7. \A c \in Bufs \ {b} : block_num'[c] = block_num[c]
    BY <2>1, <2>5 DEF TypeOK
  <2>8. \A j \in Blocks : Owner'[j] = Owner[j] /\ Copy'[j] = Copy[j]
    BY <2>1, <2>4, <2>5, <2>6, <2>7, UnusedIsNone, Unaffected
  <2> QED
    BY <2>5, <2>8 DEF Owner, Copy
<1>4. CASE ReadMiss(p, k) /\ block_num' = block_num
  BY <1>1, <1>4 DEF ReadMiss, Panic
<1> QED
  BY <1>2, <1>3, <1>4

\* Owner and Copy are functions, changed at one block when every other block is
\* unaffected.
LEMMA ChangedAt ==
  ASSUME NEW k \in Blocks, \A j \in Blocks \ {k} : Owner'[j] = Owner[j] /\ Copy'[j] = Copy[j]
  PROVE  /\ Owner' = [Owner EXCEPT ![k] = Owner'[k]]
         /\ Copy' = [Copy EXCEPT ![k] = Copy'[k]]
<1>1. Owner = [j \in Blocks |-> Owner[j]]
  BY DEF Owner
<1>2. Owner' = [j \in Blocks |-> Owner'[j]]
  BY DEF Owner
<1>3. Copy = [j \in Blocks |-> Copy[j]]
  BY DEF Copy
<1>4. Copy' = [j \in Blocks |-> Copy'[j]]
  BY DEF Copy
<1> QED
  BY <1>1, <1>2, <1>3, <1>4

\* A status panic is not seen.
LEMMA FailedUnseen ==
  ASSUME NEW p \in Procs, ReadDone(p) \/ WriteDone(p), Failed(p)
  PROVE  UNCHANGED <<disk, Owner, Copy>>
<1>1. UNCHANGED <<block_num, hold, data, disk>>
  BY DEF ReadDone, WriteDone, Panic
<1>2. Owner' = Owner
  BY <1>1 DEF Owner, UserOf
<1>3. Copy' = Copy
  BY <1>1 DEF Copy, UserOf
<1> QED
  BY <1>1, <1>2, <1>3

\* The end of buf_read() takes the block and sees what the disk holds.
LEMMA ReadDoneTakes ==
  ASSUME IInv, IInv', NEW p \in Procs, ReadDone(p), ~Failed(p)
  PROVE  \E k \in Blocks : Store!Take(p, k)
<1>1. /\ panicked = "no" /\ pc[p] = "read"
      /\ TypeOK /\ WaitsKnown /\ OneUser /\ OneBufPerBlock
  BY DEF ReadDone, IInv
<1>2. PICK b \in Bufs, k \in Blocks : op[p] = <<b, k>>
  BY <1>1 DEF WaitsKnown
<1>3. block_num[b] = k /\ b \notin hold[p] /\ p \in Users(b) /\ k # UNUSED
  BY <1>1, <1>2, UnusedIsNone DEF WaitsKnown, Users
<1>4. /\ data' = [data EXCEPT ![b] = disk[DiskBlock(k)]]
      /\ hold' = [hold EXCEPT ![p] = @ \cup {b}]
      /\ UNCHANGED <<block_num, disk, panicked>>
      /\ DiskBlock(k) \in OnDisk
  BY <1>2 DEF ReadDone, Failed
<1>5. \A c \in Bufs : block_num[c] = k => c = b
  BY <1>1, <1>3 DEF OneBufPerBlock
<1>6. \A q \in Procs : b \notin hold[q]
  BY <1>1, <1>3 DEF OneUser, Users
<1>7. UserOf(k) = {}
  BY <1>1, <1>5, <1>6 DEF UserOf, TypeOK
<1>8. Owner[k] = None
  BY <1>7 DEF Owner
<1>9. \A j \in Blocks \ {k} : Owner'[j] = Owner[j] /\ Copy'[j] = Copy[j]
  <2>1. \A q \in Procs : hold'[q] \ {b} = hold[q] \ {b}
    BY <1>1, <1>4 DEF TypeOK
  <2>2. \A c \in Bufs : c # b => data'[c] = data[c]
    BY <1>1, <1>4 DEF TypeOK
  <2> QED
    BY <1>1, <1>3, <1>4, <2>1, <2>2, Unaffected
<1>10. Owner'[k] = p /\ Copy'[k] = disk[DiskBlock(k)]
  <2>1. b \in hold'[p] /\ data'[b] = disk[DiskBlock(k)] /\ block_num'[b] = k
    BY <1>1, <1>3, <1>4 DEF TypeOK
  <2> QED
    BY <1>1, <1>3, <1>4, <2>1, HolderOwnsNext DEF HoldersOwn, UNUSED
<1> QED
  BY <1>4, <1>8, <1>9, <1>10, ChangedAt DEF Store!Take, Owner, Copy

\* copyin of sys_write_block changes the owner's copy.
LEMMA WriteStartModifies ==
  ASSUME IInv, IInv', NEW p \in Procs, NEW b \in Bufs, NEW v \in Values,
         WriteStart(p, b, v), block_num[b] # UNUSED
  PROVE  \E k \in Blocks : Store!Modify(p, k, v)
<1>1. panicked = "no" /\ panicked' = "no" /\ b \in hold[p] /\ TypeOK /\ OneBufPerBlock
  BY WriteStartStep DEF WriteStart, Handles, CanCall, IInv
<1>2. HoldersOwn /\ HoldersOwn'
  BY <1>1, HolderOwns, HolderOwnsNext
<1>3. PICK k \in Blocks : block_num[b] = k
  BY <1>1, <1>2 DEF HoldersOwn
<1>4. data' = [data EXCEPT ![b] = v] /\ UNCHANGED <<block_num, disk, hold>>
  BY DEF WriteStart
<1>5. Owner[k] = p /\ Owner'[k] = p /\ Copy'[k] = v
  <2>1. data'[b] = v
    BY <1>1, <1>4 DEF TypeOK
  <2> QED
    BY <1>1, <1>2, <1>3, <1>4, <2>1 DEF HoldersOwn, UNUSED
<1>6. \A j \in Blocks \ {k} : Owner'[j] = Owner[j] /\ Copy'[j] = Copy[j]
  <2>1. \A c \in Bufs : c # b => data'[c] = data[c]
    BY <1>1, <1>4 DEF TypeOK
  <2> QED
    BY <1>1, <1>3, <1>4, <2>1, Unaffected
<1>7. Owner' = Owner /\ Copy' = [Copy EXCEPT ![k] = v]
  <2>1. Owner' = [Owner EXCEPT ![k] = Owner'[k]] /\ Copy' = [Copy EXCEPT ![k] = Copy'[k]]
    BY <1>6, ChangedAt
  <2>2. Owner' = [Owner EXCEPT ![k] = Owner[k]]
    BY <1>5, <2>1
  <2>3. Owner' = Owner
    BY <2>2 DEF Owner
  <2> QED
    BY <1>5, <2>1, <2>3
<1> QED
  BY <1>4, <1>5, <1>7 DEF Store!Modify, Owner, Copy

\* A buffer without a number is not seen.
LEMMA NamelessUnseen ==
  ASSUME IInv, IInv', NEW p \in Procs, NEW b \in Bufs, block_num[b] = UNUSED,
         Release(p, b) \/ \E v \in Values : WriteStart(p, b, v)
  PROVE  UNCHANGED <<disk, Owner, Copy>>
<1>1. /\ panicked = "no" /\ panicked' = "no" /\ TypeOK
      /\ UNCHANGED disk /\ block_num' = block_num
      /\ \A q \in Procs : hold'[q] \ {b} = hold[q] \ {b}
      /\ \A c \in Bufs \ {b} : data'[c] = data[c]
  <2>1. panicked = "no" /\ TypeOK
    BY DEF Release, WriteStart, CanCall, IInv
  <2>2. CASE Release(p, b)
    <3>1. /\ hold' = [hold EXCEPT ![p] = @ \ {b}]
          /\ block_num' = [block_num EXCEPT ![b] = UNUSED]
          /\ UNCHANGED <<data, disk, panicked>>
      BY <2>2, ReleaseStep
    <3> QED
      BY <2>1, <3>1 DEF TypeOK
  <2>3. ASSUME NEW v \in Values, WriteStart(p, b, v)
        PROVE  /\ UNCHANGED <<disk, block_num, hold, panicked>>
               /\ \A c \in Bufs \ {b} : data'[c] = data[c]
    <3>1. UNCHANGED panicked
      BY <2>3, WriteStartStep
    <3> QED
      BY <2>1, <2>3, <3>1 DEF WriteStart, TypeOK
  <2> QED
    BY <2>1, <2>2, <2>3
<1>2. \A k \in Blocks : Owner'[k] = Owner[k] /\ Copy'[k] = Copy[k]
  BY <1>1, UnusedIsNone, Unaffected
<1> QED
  BY <1>1, <1>2 DEF Owner, Copy

\* The end of buf_write() commits the copy to the block it was read from.
LEMMA WriteDoneCommits ==
  ASSUME IInv, NEW p \in Procs, WriteDone(p), ~Failed(p)
  PROVE  \E k \in Blocks : Store!Commit(p, k)
<1>1. panicked = "no" /\ pc[p] = "write" /\ WaitsKnown /\ DiskBlock(op[p][2]) \in OnDisk
  BY DEF WriteDone, IInv, Failed
<1>2. op[p][2] # UNUSED
  BY <1>1, NumbersAssumption
<1>3. PICK b \in Bufs, k \in Blocks : op[p] = <<b, k>> /\ b \in hold[p] /\ block_num[b] = k
  BY <1>1, <1>2 DEF WaitsKnown
<1>4. disk' = [disk EXCEPT ![DiskBlock(k)] = data[b]] /\ UNCHANGED <<block_num, data, hold>>
  BY <1>3 DEF WriteDone
<1>5. Owner[k] = p /\ Copy[k] = data[b]
  BY <1>1, <1>3, UnusedIsNone, HolderOwns DEF HoldersOwn
<1>6. Owner' = Owner
  BY <1>4 DEF Owner, UserOf
<1>7. Copy' = Copy
  BY <1>4 DEF Copy, UserOf
<1> QED
  BY <1>4, <1>5, <1>6, <1>7 DEF Store!Commit, Owner, Copy

\* buf_release() drops the block.
LEMMA ReleaseDrops ==
  ASSUME IInv, IInv', NEW p \in Procs, NEW b \in Bufs, Release(p, b), block_num[b] # UNUSED
  PROVE  \E k \in Blocks : Store!Drop(p, k)
<1>1. panicked = "no" /\ panicked' = "no" /\ b \in hold[p] /\ TypeOK /\ OneBufPerBlock
  BY ReleaseStep DEF Release, Handles, CanCall, IInv
<1>2. HoldersOwn
  BY <1>1, HolderOwns
<1>3. PICK k \in Blocks : block_num[b] = k
  BY <1>1, <1>2 DEF HoldersOwn
<1>4. /\ hold' = [hold EXCEPT ![p] = @ \ {b}]
      /\ block_num' = [block_num EXCEPT ![b] = UNUSED]
      /\ UNCHANGED <<data, disk>>
  BY ReleaseStep
<1>5. Owner[k] = p
  BY <1>1, <1>2, <1>3 DEF HoldersOwn
<1>6. /\ block_num'[b] = UNUSED /\ \A c \in Bufs \ {b} : block_num'[c] = block_num[c]
      /\ \A q \in Procs : hold'[q] \ {b} = hold[q] \ {b} /\ hold'[q] \subseteq Bufs
  BY <1>1, <1>4 DEF TypeOK
<1>7. k # UNUSED /\ \A c \in Bufs : block_num'[c] # k
  BY <1>1, <1>3, <1>6, UnusedIsNone DEF OneBufPerBlock
<1>8. UserOf(k)' = {}
  BY <1>6, <1>7 DEF UserOf
<1>9. Owner'[k] = None /\ Copy'[k] = None
  BY <1>8 DEF Owner, Copy
<1>10. \A j \in Blocks \ {k} : Owner'[j] = Owner[j] /\ Copy'[j] = Copy[j]
  BY <1>1, <1>3, <1>4, <1>6, UnusedIsNone, Unaffected
<1>11. Owner' = [Owner EXCEPT ![k] = None] /\ Copy' = [Copy EXCEPT ![k] = None]
  BY <1>9, <1>10, ChangedAt
<1> QED
  BY <1>4, <1>5, <1>11 DEF Store!Drop, Owner, Copy

\* buf.c implements the block store: a process that buf_read() gives the block
\* of a number sees the last value committed to that disk block and is the
\* number's only owner until it releases it, and what it writes reaches that
\* disk block and no other.
THEOREM Implements == Spec => StoreSpec
<1>1. Init => Store!Init
  <2> SUFFICES ASSUME Init PROVE Store!Init
    OBVIOUS
  <2>1. \A k \in Blocks : UserOf(k) = {}
    BY DEF Init, UserOf
  <2> QED
    BY <2>1 DEF Init, Store!Init
<1>2. IInv /\ IInv' /\ [Next]_vars => [Store!Next]_<<disk, Owner, Copy>>
  <2> SUFFICES ASSUME IInv, IInv', [Next]_vars
               PROVE  Store!Next \/ UNCHANGED <<disk, Owner, Copy>>
    OBVIOUS
  <2>1. ASSUME NEW p \in Procs, NEW k \in Blocks \cup {UNUSED}, ReadHit(p, k) \/ ReadMiss(p, k)
        PROVE  UNCHANGED <<disk, Owner, Copy>>
    BY <2>1, ReadsUnseen
  <2>2. ASSUME NEW p \in Procs, ReadDone(p) PROVE Store!Next \/ UNCHANGED <<disk, Owner, Copy>>
    BY <2>2, ReadDoneTakes, FailedUnseen DEF Store!Next
  <2>3. ASSUME NEW p \in Procs, WriteDone(p) PROVE Store!Next \/ UNCHANGED <<disk, Owner, Copy>>
    BY <2>3, WriteDoneCommits, FailedUnseen DEF Store!Next
  <2>4. ASSUME NEW p \in Procs, NEW b \in Bufs, Release(p, b)
        PROVE  Store!Next \/ UNCHANGED <<disk, Owner, Copy>>
    BY <2>4, ReleaseDrops, NamelessUnseen DEF Store!Next
  <2>5. ASSUME NEW p \in Procs, NEW b \in Bufs, NEW v \in Values, WriteStart(p, b, v)
        PROVE  Store!Next \/ UNCHANGED <<disk, Owner, Copy>>
    BY <2>5, WriteStartModifies, NamelessUnseen DEF Store!Next
  <2>6. CASE UNCHANGED vars
    <3>1. Owner' = Owner
      BY <2>6 DEF vars, Owner, UserOf
    <3>2. Copy' = Copy
      BY <2>6 DEF vars, Copy, UserOf
    <3> QED
      BY <2>6, <3>1, <3>2 DEF vars
  <2> QED
    BY <2>1, <2>2, <2>3, <2>4, <2>5, <2>6 DEF Next
<1> QED
  BY <1>1, <1>2, Inductive, PTL DEF Spec, StoreSpec, Store!Spec, Owner, Copy
=============================================================================
