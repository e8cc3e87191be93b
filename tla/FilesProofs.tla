----------------------------- MODULE FilesProofs -----------------------------
(***************************************************************************)
(* Proofs about Files, for any processes, names and table sizes.           *)
(***************************************************************************)
EXTENDS Files, FiniteSetTheorems, NaturalsInduction, WellFoundedInduction, TLAPS

(* What the inode table has to satisfy, stated of a table ic, the waits lc *)
(* of the processes, a file table ft and the losses dl, because the calls  *)
(* pass through intermediate tables within one step.                       *)

IcacheType == [Slots -> [num : Inums \cup {None}, ref : Nat, slk : BOOLEAN]]
LocType == [Procs -> [at : Waits, ip : Slots \cup {None}, name : Names \cup {"none"}]]
FtableType == [FileIds -> [ref : Nat, ip : Slots \cup {None}, of : Inums \cup {None}]]

\* What a process in wait r holds: slot s, the root, the lock of s.
Slotted == {"inode", "dir", "both", "gone"}
HoldsIn(r, s) == r.ip = s /\ r.at \in Slotted
RootIn(r) == r.at \in {"lookup", "dir", "both"}
LocksIn(r, s) == HoldsIn(r, s) \/ (r.at = "io" /\ r.ip = s) \/ (RootIn(r) /\ s = 0)

\* The open files on slot s, and the references to its inode that are lost.
Opens(ft, s) == {f \in FileIds : ft[f].ref > 0 /\ ft[f].ip = s}
Lost(ic, dl, s) == IF ic[s].num = None THEN 0 ELSE dl[ic[s].num]
One(b) == IF b THEN 1 ELSE 0

\* No inode is in two slots, the root is in the first, and an inode with lost
\* references is in one.
Placed(ic, dl) ==
  /\ ic[0].num = Root
  /\ \A s, t \in Slots : ic[s].num = ic[t].num /\ ic[s].num # None => s = t
  /\ \A i \in Inums : dl[i] > 0 => \E s \in Slots : ic[s].num = i

\* slk is set exactly while one process holds the lock.
Locked(ic, lc) ==
  /\ \A s \in Slots : ic[s].slk <=> \E p \in Procs : LocksIn(lc[p], s)
  /\ \A s \in Slots : \A p, q \in Procs : LocksIn(lc[p], s) /\ LocksIn(lc[q], s) => p = q

\* References are exact.
Counted(ic, lc, ft, dl) ==
  \A s \in Slots :
    ic[s].ref = Cardinality(Opens(ft, s)) + One(\E p \in Procs : HoldsIn(lc[p], s))
                + One(s = 0) + One(s = 0 /\ \E p \in Procs : RootIn(lc[p])) + Lost(ic, dl, s)

\* A process that holds a slot holds one with an inode, never the root's; a
\* slot that is read or written belongs to an open file.
Pointed(ic, lc, ft) ==
  \A p \in Procs :
    /\ lc[p].at \in Slotted => lc[p].ip \in Slots \ {0} /\ ic[lc[p].ip].num # None
    /\ lc[p].at = "io" => lc[p].ip \in Slots /\ Opens(ft, lc[p].ip) # {}

\* An open file points to the slot of its inode.
Filed(ic, ft) ==
  \A f \in FileIds : ft[f].ref > 0 => ft[f].ip \in Slots /\ ic[ft[f].ip].num = ft[f].of

Table(ic, lc, ft, dl) ==
  /\ ic \in IcacheType /\ lc \in LocType /\ ft \in FtableType /\ dl \in [Inums -> Nat]
  /\ Placed(ic, dl) /\ Locked(ic, lc) /\ Counted(ic, lc, ft, dl)
  /\ Pointed(ic, lc, ft) /\ Filed(ic, ft)

-----------------------------------------------------------------------------
(* What descriptors and the directory have to satisfy.                     *)

\* The descriptors that name f.
Users(f) == {x \in Procs \X Fds : filelist[x[1]][x[2]] = f}

\* File references are exact; a free slot of procs[] has no descriptors; only a
\* live process is inside a call, and keeps the file it works on.
Descriptors ==
  /\ \A f \in FileIds : ftable[f].ref = dupLost[f] + Cardinality(Users(f))
  /\ \A p \in Procs : state[p] = "unused" => \A d \in Fds : filelist[p][d] = None
  /\ \A p \in Procs : loc[p].at # "run" => state[p] = "live"
  /\ \A p \in Procs : loc[p].at = "io" =>
       \E d \in Fds : filelist[p][d] # None /\ ftable[filelist[p][d]].ip = loc[p].ip

\* The inode that p holds.
Num(p) == icache[loc[p].ip].num

\* Entries and slots name allocated inodes; fs_init()'s test directory stays as
\* it is; what a call has found out about its inode remains true in its waits.
Directory ==
  /\ {Root, 2} \subseteq ibits /\ \A i \in ibits : inode[i].type # "unused"
  /\ \A n \in Names : entries[n] = None \/ entries[n] \in ibits \ {Root}
  /\ \A s \in Slots : icache[s].num = None \/ icache[s].num \in ibits
  /\ inode[2].type = DIR /\ ~inode[2].empty
  /\ \A p \in Procs :
       /\ loc[p].at = "dir" => inode[Num(p)].type = FILE
       /\ loc[p].at = "both" => loc[p].name \in Names /\ entries[loc[p].name] = Num(p)
       /\ loc[p].at = "gone" => Num(p) # 2

\* The names of i, the process about to count off a name of i, and the names
\* the root counts.
NamesOf(i) == {n \in Names : entries[n] = i}
Counting(i) == \E p \in Procs : loc[p].at = "gone" /\ Num(p) = i
SubDirs == {n \in Names : entries[n] \notin {None, 2} /\ inode[entries[n]].type = DIR}

Links ==
  /\ \A i \in Inums \ {Root, 2} : inode[i].nlink = Cardinality(NamesOf(i)) + One(Counting(i))
  /\ inode[Root].nlink = 1 + Cardinality(SubDirs)

Core == Table(icache, loc, ftable, dirLost) /\ Descriptors /\ Directory /\ Links

\* The inductive invariant: a panic freezes what is there.
IInv == TypeOK /\ (panicked = "no" => Core)
-----------------------------------------------------------------------------
(* The tables and their sizes.                                             *)

\* The first slot exists, and None is no slot, file or inode number.
LEMMA Sizes ==
  /\ 0 \in Slots /\ None \notin Slots /\ None \notin FileIds /\ None \notin Inums /\ Root # None
  /\ {0, 1, 2, 3} \subseteq Inums /\ Root = 0
  /\ Slots \subseteq Nat /\ FileIds \subseteq Nat /\ Fds \subseteq Nat /\ Inums \subseteq Nat
BY FilesAssumption DEF Slots, FileIds, Inums, Fds, None, Root

\* Every table and every set of names is finite.
LEMMA Finite ==
  IsFiniteSet(Procs) /\ IsFiniteSet(Names) /\ IsFiniteSet(FileIds) /\ IsFiniteSet(Fds)
<1>1. 0 \in Int /\ NFILE - 1 \in Int /\ NFD - 1 \in Int
  BY FilesAssumption
<1>2. IsFiniteSet(0 .. NFILE - 1) /\ IsFiniteSet(0 .. NFD - 1)
  BY <1>1, FS_Interval
<1> QED
  BY <1>2, FilesAssumption DEF FileIds, Fds

\* The loops of inode_alloc(), file_alloc() and fd_alloc() find the first entry
\* they look for.
LEMMA MinFound ==
  ASSUME NEW S, S \subseteq Nat, S # {}
  PROVE  Min(S) \in S
<1>1. PICK n \in S : \A m \in S : ~(<<m, n>> \in OpToRel(<, Nat))
  BY NatLessThanWellFounded, WFMin
<1>2. \A m \in S : <<m, n>> \in Nat \X Nat /\ (m < n => <<m, n>> \in OpToRel(<, Nat))
  BY DEF OpToRel
<1>3. \A m \in S : ~(m < n)
  BY <1>1, <1>2, Zenon
<1>4. \A m \in S : n <= m
  BY <1>3
<1> QED
  BY <1>4 DEF Min

\* The files open on a slot can be counted.
LEMMA OpensFinite ==
  ASSUME NEW ft, NEW s
  PROVE  /\ IsFiniteSet(Opens(ft, s)) /\ Cardinality(Opens(ft, s)) \in Nat
         /\ Cardinality(Opens(ft, s)) = 0 <=> Opens(ft, s) = {}
<1>1. Opens(ft, s) \subseteq FileIds
  BY DEF Opens
<1> QED
  BY <1>1, Finite, FS_Subset, FS_CardinalityType, FS_EmptySet
-----------------------------------------------------------------------------
(* One change of the inode table.                                          *)

\* A call takes the root: inode_alloc(INODE_ROOT) and inode_lock().
LEMMA RootGet ==
  ASSUME NEW ic, NEW lc, NEW ft, NEW dl, Table(ic, lc, ft, dl), NEW p \in Procs,
         NEW ic2 \in IcacheType, NEW lc2 \in LocType,
         ~ic[0].slk, lc[p].at \in {"run", "inode"},
         ic2[0].num = ic[0].num, ic2[0].ref = ic[0].ref + 1, ic2[0].slk,
         \A s \in Slots \ {0} : ic2[s] = ic[s],
         \A q \in Procs \ {p} : lc2[q] = lc[q],
         lc2[p].ip = lc[p].ip,
         lc2[p].at = IF lc[p].at = "run" THEN "lookup" ELSE "dir"
  PROVE  Table(ic2, lc2, ft, dl)
<1>1. /\ ic \in IcacheType /\ lc \in LocType /\ ft \in FtableType /\ dl \in [Inums -> Nat]
      /\ Placed(ic, dl) /\ Locked(ic, lc) /\ Counted(ic, lc, ft, dl)
      /\ Pointed(ic, lc, ft) /\ Filed(ic, ft)
  BY DEF Table
<1>2. \A s \in Slots : ic2[s].num = ic[s].num
  OBVIOUS
<1>3. \A q \in Procs : ~LocksIn(lc[q], 0)
  BY <1>1, Sizes DEF Locked
<1>4. /\ \A s \in Slots : HoldsIn(lc2[p], s) <=> HoldsIn(lc[p], s)
      /\ \A q \in Procs \ {p} : \A s : LocksIn(lc2[q], s) = LocksIn(lc[q], s)
      /\ \A s \in Slots : LocksIn(lc2[p], s) <=> LocksIn(lc[p], s) \/ s = 0
  BY Sizes DEF HoldsIn, RootIn, LocksIn, Slotted
<1>5. Placed(ic2, dl)
  BY <1>1, <1>2, Sizes DEF Placed
<1>6. Locked(ic2, lc2)
  <2>1. \A s \in Slots : ic2[s].slk <=> \E q \in Procs : LocksIn(lc2[q], s)
    BY <1>1, <1>4 DEF Locked
  <2>2. ASSUME NEW s \in Slots, NEW q \in Procs, NEW r \in Procs,
               LocksIn(lc2[q], s), LocksIn(lc2[r], s)
        PROVE  q = r
    BY <1>1, <1>3, <1>4, <2>2 DEF Locked
  <2> QED
    BY <2>1, <2>2 DEF Locked
<1>7. Counted(ic2, lc2, ft, dl)
  <2>1. \A s \in Slots : (\E q \in Procs : HoldsIn(lc2[q], s)) <=> \E q \in Procs : HoldsIn(lc[q], s)
    BY <1>4
  <2>2. (\E q \in Procs : RootIn(lc2[q])) /\ ~\E q \in Procs : RootIn(lc[q])
    BY <1>3 DEF RootIn, LocksIn
  <2>3. \A s \in Slots : Lost(ic2, dl, s) = Lost(ic, dl, s) /\ Lost(ic, dl, s) \in Nat
    BY <1>1, <1>2 DEF Lost, IcacheType
  <2>4. \A s \in Slots : Cardinality(Opens(ft, s)) \in Nat
    BY OpensFinite
  <2> QED
    BY <1>1, <2>1, <2>2, <2>3, <2>4 DEF Counted, One
<1>8. Pointed(ic2, lc2, ft)
  BY <1>1, <1>2 DEF Pointed, Slotted
<1>9. Filed(ic2, ft)
  BY <1>1, <1>2 DEF Filed
<1> QED
  BY <1>1, <1>5, <1>6, <1>7, <1>8, <1>9 DEF Table

\* A call gives the root back: inode_unlock_free().  What it keeps is its slot.
LEMMA RootPut ==
  ASSUME NEW ic, NEW lc, NEW ft, NEW dl, Table(ic, lc, ft, dl), NEW p \in Procs,
         NEW ic2 \in IcacheType, NEW lc2 \in LocType,
         lc[p].at \in {"lookup", "dir", "both"},
         ic2[0].num = ic[0].num, ic2[0].ref = ic[0].ref - 1, ~ic2[0].slk,
         \A s \in Slots \ {0} : ic2[s] = ic[s],
         \A q \in Procs \ {p} : lc2[q] = lc[q],
         lc[p].at = "lookup" => lc2[p].at = "run",
         lc[p].at # "lookup" => lc2[p].at \in {"inode", "gone"} /\ lc2[p].ip = lc[p].ip
  PROVE  Table(ic2, lc2, ft, dl)
<1>1. /\ ic \in IcacheType /\ lc \in LocType /\ ft \in FtableType /\ dl \in [Inums -> Nat]
      /\ Placed(ic, dl) /\ Locked(ic, lc) /\ Counted(ic, lc, ft, dl)
      /\ Pointed(ic, lc, ft) /\ Filed(ic, ft)
  BY DEF Table
<1>2. \A s \in Slots : ic2[s].num = ic[s].num
  OBVIOUS
<1>3. RootIn(lc[p]) /\ \A q \in Procs \ {p} : ~LocksIn(lc[q], 0)
  BY <1>1, Sizes DEF Locked, RootIn, LocksIn
<1>4. lc[p].at \in Slotted => lc[p].ip # 0
  BY <1>1 DEF Pointed
<1>5. /\ \A s \in Slots : HoldsIn(lc2[p], s) <=> HoldsIn(lc[p], s)
      /\ \A q \in Procs \ {p} : \A s : LocksIn(lc2[q], s) = LocksIn(lc[q], s)
      /\ \A s \in Slots : LocksIn(lc2[p], s) <=> LocksIn(lc[p], s) /\ s # 0
  BY <1>4, Sizes DEF HoldsIn, RootIn, LocksIn, Slotted
<1>6. Placed(ic2, dl)
  BY <1>1, <1>2, Sizes DEF Placed
<1>7. Locked(ic2, lc2)
  <2>1. \A s \in Slots : ic2[s].slk <=> \E q \in Procs : LocksIn(lc2[q], s)
    BY <1>1, <1>3, <1>5 DEF Locked
  <2>2. ASSUME NEW s \in Slots, NEW q \in Procs, NEW r \in Procs,
               LocksIn(lc2[q], s), LocksIn(lc2[r], s)
        PROVE  q = r
    BY <1>1, <1>5, <2>2 DEF Locked
  <2> QED
    BY <2>1, <2>2 DEF Locked
<1>8. Counted(ic2, lc2, ft, dl)
  <2>1. \A s \in Slots : (\E q \in Procs : HoldsIn(lc2[q], s)) <=> \E q \in Procs : HoldsIn(lc[q], s)
    BY <1>5
  <2>2. (\E q \in Procs : RootIn(lc[q])) /\ ~\E q \in Procs : RootIn(lc2[q])
    BY <1>3 DEF RootIn, LocksIn
  <2>3. \A s \in Slots : Lost(ic2, dl, s) = Lost(ic, dl, s) /\ Lost(ic, dl, s) \in Nat
    BY <1>1, <1>2 DEF Lost, IcacheType
  <2>4. \A s \in Slots : Cardinality(Opens(ft, s)) \in Nat
    BY OpensFinite
  <2> QED
    BY <1>1, <2>1, <2>2, <2>3, <2>4 DEF Counted, One
<1>9. Pointed(ic2, lc2, ft)
  BY <1>1, <1>2 DEF Pointed, Slotted
<1>10. Filed(ic2, ft)
  BY <1>1, <1>2 DEF Filed
<1> QED
  BY <1>1, <1>6, <1>7, <1>8, <1>9, <1>10 DEF Table

\* Who holds a slot, or works on it, has a reference to it; so does the root.
LEMMA HeldCounted ==
  ASSUME NEW ic, NEW lc, NEW ft, NEW dl, Table(ic, lc, ft, dl), NEW s \in Slots
  PROVE  /\ ic[s].slk \/ s = 0 \/ Opens(ft, s) # {} \/ Lost(ic, dl, s) > 0 => ic[s].ref > 0
         /\ ic[0].slk => ic[0].ref > 1
         /\ \A p \in Procs : HoldsIn(lc[p], s) => ic[s].ref > Cardinality(Opens(ft, s))
<1>1. /\ ic \in IcacheType /\ dl \in [Inums -> Nat] /\ Locked(ic, lc)
      /\ Counted(ic, lc, ft, dl) /\ Pointed(ic, lc, ft)
  BY DEF Table
<1>2. \A t \in Slots : /\ Cardinality(Opens(ft, t)) \in Nat /\ Lost(ic, dl, t) \in Nat
                       /\ Opens(ft, t) # {} => Cardinality(Opens(ft, t)) > 0
  BY <1>1, OpensFinite DEF Lost, IcacheType
<1>3. ASSUME ic[s].slk \/ s = 0 \/ Opens(ft, s) # {} \/ Lost(ic, dl, s) > 0 PROVE ic[s].ref > 0
  BY <1>1, <1>2, <1>3 DEF Locked, LocksIn, Counted, One, Pointed
<1>4. ASSUME ic[0].slk PROVE ic[0].ref > 1
  <2>1. PICK p \in Procs : LocksIn(lc[p], 0)
    BY <1>1, <1>4, Sizes DEF Locked
  <2>2. RootIn(lc[p]) \/ Opens(ft, 0) # {}
    BY <1>1, <2>1 DEF LocksIn, HoldsIn, Pointed
  <2> QED
    BY <1>1, <1>2, <2>2, Sizes DEF Counted, One
<1>5. ASSUME NEW p \in Procs, HoldsIn(lc[p], s) PROVE ic[s].ref > Cardinality(Opens(ft, s))
  BY <1>1, <1>2, <1>5 DEF Counted, One
<1> QED
  BY <1>3, <1>4, <1>5

\* A call looks up inode i and locks it: the slot is that of i, or a free one
\* that nobody has locked.
LEMMA SlotGet ==
  ASSUME NEW ic, NEW lc, NEW ft, NEW dl, Table(ic, lc, ft, dl), NEW p \in Procs,
         NEW ic2 \in IcacheType, NEW lc2 \in LocType,
         NEW i \in Inums \ {Root}, NEW s \in Slots,
         lc[p].at \in {"run", "lookup"}, ~ic[s].slk,
         \/ ic[s].num = i /\ ic2[s].ref = ic[s].ref + 1
         \/ (\A t \in Slots : ic[t].num # i) /\ ic[s].ref = 0 /\ ic2[s].ref = 1,
         ic2[s].num = i, ic2[s].slk,
         \A t \in Slots \ {s} : ic2[t] = ic[t],
         \A q \in Procs \ {p} : lc2[q] = lc[q],
         lc2[p].ip = s,
         lc2[p].at = IF lc[p].at = "run" THEN "inode" ELSE "both"
  PROVE  Table(ic2, lc2, ft, dl)
<1>1. /\ ic \in IcacheType /\ lc \in LocType /\ ft \in FtableType /\ dl \in [Inums -> Nat]
      /\ Placed(ic, dl) /\ Locked(ic, lc) /\ Counted(ic, lc, ft, dl)
      /\ Pointed(ic, lc, ft) /\ Filed(ic, ft)
  BY DEF Table
<1>2. \A t \in Slots : /\ ic[t].slk \/ t = 0 \/ Opens(ft, t) # {} \/ Lost(ic, dl, t) > 0 => ic[t].ref > 0
                       /\ ic[t].ref \in Nat
  BY <1>1, HeldCounted DEF IcacheType
<1>3. s # 0 /\ \A t \in Slots : ic[t].ref > 0 => ic2[t].num = ic[t].num
  BY <1>1, <1>2, Sizes DEF Placed
<1>4. \A q \in Procs : ~LocksIn(lc[q], s)
  BY <1>1 DEF Locked
<1>5. /\ \A t \in Slots : HoldsIn(lc2[p], t) <=> t = s
      /\ \A q \in Procs \ {p} : \A t : LocksIn(lc2[q], t) = LocksIn(lc[q], t)
      /\ \A t \in Slots : LocksIn(lc2[p], t) <=> LocksIn(lc[p], t) \/ t = s
      /\ \A t \in Slots : ~HoldsIn(lc[p], t)
      /\ RootIn(lc2[p]) <=> RootIn(lc[p])
  BY <1>3, Sizes DEF HoldsIn, RootIn, LocksIn, Slotted
<1>6. Placed(ic2, dl)
  <2>1. \A t, u \in Slots : ic2[t].num = ic2[u].num /\ ic2[t].num # None => t = u
    BY <1>1 DEF Placed
  <2>2. \A j \in Inums : dl[j] > 0 => \E t \in Slots : ic2[t].num = j
    <3> SUFFICES ASSUME NEW j \in Inums, dl[j] > 0 PROVE \E t \in Slots : ic2[t].num = j
      OBVIOUS
    <3>1. PICK t \in Slots : ic[t].num = j
      BY <1>1 DEF Placed
    <3>2. ic[t].ref > 0
      BY <1>2, <3>1, Sizes DEF Lost
    <3> QED
      BY <1>3, <3>1, <3>2
  <2> QED
    BY <1>1, <1>3, <2>1, <2>2, Sizes DEF Placed
<1>7. Locked(ic2, lc2)
  <2>1. \A t \in Slots : ic2[t].slk <=> \E q \in Procs : LocksIn(lc2[q], t)
    BY <1>1, <1>5 DEF Locked
  <2>2. ASSUME NEW t \in Slots, NEW q \in Procs, NEW r \in Procs,
               LocksIn(lc2[q], t), LocksIn(lc2[r], t)
        PROVE  q = r
    BY <1>1, <1>4, <1>5, <2>2 DEF Locked
  <2> QED
    BY <2>1, <2>2 DEF Locked
<1>8. Counted(ic2, lc2, ft, dl)
  <2>1. \A t \in Slots \ {s} : (\E q \in Procs : HoldsIn(lc2[q], t)) <=> \E q \in Procs : HoldsIn(lc[q], t)
    BY <1>5
  <2>2. (\E q \in Procs : HoldsIn(lc2[q], s)) /\ ~\E q \in Procs : HoldsIn(lc[q], s)
    BY <1>4, <1>5 DEF LocksIn
  <2>3. (\E q \in Procs : RootIn(lc2[q])) <=> \E q \in Procs : RootIn(lc[q])
    BY <1>5
  <2>4. \A t \in Slots : Cardinality(Opens(ft, t)) \in Nat /\ Lost(ic, dl, t) \in Nat
    BY <1>1, OpensFinite DEF Lost, IcacheType
  <2>5. \A t \in Slots \ {s} : Lost(ic2, dl, t) = Lost(ic, dl, t)
    BY DEF Lost
  <2>6. CASE ic[s].num = i /\ ic2[s].ref = ic[s].ref + 1
    <3>1. Lost(ic2, dl, s) = Lost(ic, dl, s)
      BY <2>6 DEF Lost
    <3> QED
      BY <1>1, <1>3, <2>1, <2>2, <2>3, <2>4, <2>5, <2>6, <3>1 DEF Counted, One
  <2>7. CASE (\A t \in Slots : ic[t].num # i) /\ ic[s].ref = 0 /\ ic2[s].ref = 1
    <3>1. dl[i] = 0 /\ Lost(ic2, dl, s) = 0
      BY <1>1, <2>7, Sizes DEF Lost, Placed
    <3>2. Cardinality(Opens(ft, s)) = 0
      BY <1>2, <2>7, OpensFinite
    <3>3. ic2[s].ref = Cardinality(Opens(ft, s)) + One(\E q \in Procs : HoldsIn(lc2[q], s))
                + One(s = 0) + One(s = 0 /\ \E q \in Procs : RootIn(lc2[q])) + Lost(ic2, dl, s)
      BY <1>3, <2>2, <2>7, <3>1, <3>2 DEF One
    <3> QED
      BY <1>1, <2>1, <2>3, <2>4, <2>5, <3>3 DEF Counted, One
  <2> QED
    BY <2>6, <2>7
<1>9. Pointed(ic2, lc2, ft)
  <2>1. lc2[p].at \in Slotted /\ lc2[p].ip \in Slots \ {0} /\ ic2[lc2[p].ip].num # None
    BY <1>3, Sizes DEF Slotted
  <2>2. ASSUME NEW q \in Procs \ {p}, lc[q].at \in Slotted
        PROVE  lc2[q].ip \in Slots \ {0} /\ ic2[lc2[q].ip].num # None
    <3>1. lc[q].ip \in Slots \ {0} /\ ic[lc[q].ip].num # None
      BY <1>1, <2>2 DEF Pointed
    <3>2. ic[lc[q].ip].slk
      BY <1>1, <2>2, <3>1 DEF Locked, LocksIn, HoldsIn
    <3> QED
      BY <1>2, <1>3, <3>1, <3>2
  <2>3. ASSUME NEW q \in Procs \ {p}, lc[q].at = "io"
        PROVE  lc2[q].ip \in Slots /\ Opens(ft, lc2[q].ip) # {}
    BY <1>1, <2>3 DEF Pointed
  <2> QED
    BY <2>1, <2>2, <2>3 DEF Pointed, Slotted
<1>10. Filed(ic2, ft)
  <2> SUFFICES ASSUME NEW f \in FileIds, ft[f].ref > 0
               PROVE  ft[f].ip \in Slots /\ ic2[ft[f].ip].num = ft[f].of
    BY DEF Filed
  <2>1. ft[f].ip \in Slots /\ ic[ft[f].ip].num = ft[f].of
    BY <1>1 DEF Filed
  <2>2. Opens(ft, ft[f].ip) # {}
    BY DEF Opens
  <2> QED
    BY <1>2, <1>3, <2>1, <2>2
<1> QED
  BY <1>1, <1>6, <1>7, <1>8, <1>9, <1>10 DEF Table

\* A call ends its hold on its slot s: it gives the reference back, or leaves
\* it to a file that is now open on s, or loses it.
LEMMA SlotEnd ==
  ASSUME NEW ic, NEW lc, NEW ft, NEW dl, Table(ic, lc, ft, dl), NEW p \in Procs,
         NEW ic2 \in IcacheType, NEW lc2 \in LocType, NEW ft2 \in FtableType,
         NEW dl2 \in [Inums -> Nat], NEW s,
         lc[p].at \in {"inode", "gone"}, s = lc[p].ip,
         ic2[s].num = ic[s].num, ~ic2[s].slk,
         \A t \in Slots \ {s} : ic2[t] = ic[t],
         \A q \in Procs \ {p} : lc2[q] = lc[q],
         lc2[p].at = "run",
         \A t \in Slots : Opens(ft, t) \subseteq Opens(ft2, t),
         Filed(ic, ft2),
         \A j \in Inums : dl2[j] > 0 => dl[j] > 0 \/ j = ic[s].num,
         \A t \in Slots \ {s} : Opens(ft2, t) = Opens(ft, t) /\ Lost(ic, dl2, t) = Lost(ic, dl, t),
         Cardinality(Opens(ft2, s)) + Lost(ic, dl2, s) - ic2[s].ref
           = Cardinality(Opens(ft, s)) + Lost(ic, dl, s) - ic[s].ref + 1
  PROVE  Table(ic2, lc2, ft2, dl2)
<1>1. /\ ic \in IcacheType /\ lc \in LocType /\ ft \in FtableType /\ dl \in [Inums -> Nat]
      /\ Placed(ic, dl) /\ Locked(ic, lc) /\ Counted(ic, lc, ft, dl) /\ Pointed(ic, lc, ft)
  BY DEF Table
<1>2. s \in Slots \ {0}
  BY <1>1 DEF Pointed, Slotted
<1>3. \A t \in Slots : ic2[t].num = ic[t].num /\ Lost(ic2, dl2, t) = Lost(ic, dl2, t)
  BY <1>2 DEF Lost
<1>4. HoldsIn(lc[p], s) /\ \A q \in Procs \ {p} : ~LocksIn(lc[q], s)
  BY <1>1, <1>2 DEF Locked, HoldsIn, LocksIn, Slotted
<1>5. /\ \A q \in Procs \ {p} : \A t : LocksIn(lc2[q], t) = LocksIn(lc[q], t)
      /\ \A t \in Slots : ~LocksIn(lc2[p], t) /\ ~HoldsIn(lc2[p], t)
      /\ \A t \in Slots : LocksIn(lc[p], t) \/ HoldsIn(lc[p], t) <=> t = s
      /\ ~RootIn(lc[p]) /\ ~RootIn(lc2[p])
  BY <1>2 DEF HoldsIn, RootIn, LocksIn, Slotted
<1>6. Placed(ic2, dl2)
  BY <1>1, <1>2, <1>3, Sizes DEF Placed
<1>7. Locked(ic2, lc2)
  <2>1. \A t \in Slots : ic2[t].slk <=> \E q \in Procs : LocksIn(lc2[q], t)
    <3> SUFFICES ASSUME NEW t \in Slots PROVE ic2[t].slk <=> \E q \in Procs : LocksIn(lc2[q], t)
      OBVIOUS
    <3>1. CASE t = s
      BY <1>4, <1>5, <3>1
    <3>2. CASE t # s
      BY <1>1, <1>5, <3>2 DEF Locked
    <3> QED
      BY <3>1, <3>2
  <2>2. ASSUME NEW t \in Slots, NEW q \in Procs, NEW r \in Procs,
               LocksIn(lc2[q], t), LocksIn(lc2[r], t)
        PROVE  q = r
    BY <1>1, <1>5, <2>2 DEF Locked
  <2> QED
    BY <2>1, <2>2 DEF Locked
<1>8. Counted(ic2, lc2, ft2, dl2)
  <2>1. \A t \in Slots \ {s} : (\E q \in Procs : HoldsIn(lc2[q], t)) <=> \E q \in Procs : HoldsIn(lc[q], t)
    BY <1>5
  <2>2. (\E q \in Procs : HoldsIn(lc[q], s)) /\ ~\E q \in Procs : HoldsIn(lc2[q], s)
    BY <1>2, <1>4, <1>5 DEF LocksIn
  <2>3. (\E q \in Procs : RootIn(lc2[q])) <=> \E q \in Procs : RootIn(lc[q])
    BY <1>5
  <2>4. \A t \in Slots : /\ Cardinality(Opens(ft, t)) \in Nat /\ Lost(ic, dl, t) \in Nat
                         /\ Cardinality(Opens(ft2, t)) \in Nat /\ Lost(ic, dl2, t) \in Nat
                         /\ ic[t].ref \in Nat /\ ic2[t].ref \in Nat
    BY <1>1, OpensFinite DEF Lost, IcacheType
  <2>5. ic[s].ref = Cardinality(Opens(ft, s)) + 1 + Lost(ic, dl, s)
    BY <1>1, <1>2, <2>2, <2>4 DEF Counted, One
  <2>6. ic2[s].ref = Cardinality(Opens(ft2, s)) + Lost(ic2, dl2, s)
    BY <1>2, <1>3, <2>4, <2>5
  <2>7. ASSUME NEW t \in Slots
        PROVE  ic2[t].ref = Cardinality(Opens(ft2, t)) + One(\E q \in Procs : HoldsIn(lc2[q], t))
                 + One(t = 0) + One(t = 0 /\ \E q \in Procs : RootIn(lc2[q])) + Lost(ic2, dl2, t)
    <3>1. CASE t = s
      BY <1>2, <2>2, <2>4, <2>6, <3>1 DEF One
    <3>2. CASE t # s
      BY <1>1, <1>3, <2>1, <2>3, <3>2 DEF Counted, One
    <3> QED
      BY <3>1, <3>2
  <2> QED
    BY <2>7 DEF Counted
<1>9. Pointed(ic2, lc2, ft2)
  BY <1>1, <1>3 DEF Pointed, Slotted
<1>10. Filed(ic2, ft2)
  BY <1>3 DEF Filed
<1> QED
  BY <1>6, <1>7, <1>8, <1>9, <1>10 DEF Table

\* A call locks the inode of an open file for reading or writing, or unlocks it.
LEMMA IoChange ==
  ASSUME NEW ic, NEW lc, NEW ft, NEW dl, Table(ic, lc, ft, dl), NEW p \in Procs,
         NEW ic2 \in IcacheType, NEW lc2 \in LocType, NEW s \in Slots,
         ic2[s].num = ic[s].num, ic2[s].ref = ic[s].ref, ic2[s].slk = ~ic[s].slk,
         \A t \in Slots \ {s} : ic2[t] = ic[t],
         \A q \in Procs \ {p} : lc2[q] = lc[q],
         Opens(ft, s) # {},
         \/ lc[p].at = "run" /\ lc2[p].at = "io" /\ lc2[p].ip = s /\ ~ic[s].slk
         \/ lc2[p].at = "run" /\ lc[p].at = "io" /\ lc[p].ip = s /\ ic[s].slk
  PROVE  Table(ic2, lc2, ft, dl)
<1>1. /\ ic \in IcacheType /\ lc \in LocType /\ ft \in FtableType /\ dl \in [Inums -> Nat]
      /\ Placed(ic, dl) /\ Locked(ic, lc) /\ Counted(ic, lc, ft, dl)
      /\ Pointed(ic, lc, ft) /\ Filed(ic, ft)
  BY DEF Table
<1>2. \A t \in Slots : /\ ic2[t].num = ic[t].num /\ ic2[t].ref = ic[t].ref
                       /\ Lost(ic2, dl, t) = Lost(ic, dl, t)
  BY DEF Lost
<1>3. /\ \A q \in Procs \ {p} : \A t : LocksIn(lc2[q], t) = LocksIn(lc[q], t)
      /\ \A q \in Procs : \A t : HoldsIn(lc2[q], t) = HoldsIn(lc[q], t) /\ RootIn(lc2[q]) = RootIn(lc[q])
      /\ \A t \in Slots \ {s} : ~LocksIn(lc2[p], t) /\ ~LocksIn(lc[p], t)
  BY DEF HoldsIn, RootIn, LocksIn, Slotted
<1>4. LocksIn(lc2[p], s) = ic2[s].slk /\ LocksIn(lc[p], s) = ic[s].slk
  BY <1>1 DEF IcacheType, HoldsIn, RootIn, LocksIn, Slotted
<1>5. Placed(ic2, dl)
  BY <1>1, <1>2, Sizes DEF Placed
<1>6. Locked(ic2, lc2)
  <2>1. \A q \in Procs \ {p} : ~LocksIn(lc[q], s)
    BY <1>1, <1>4 DEF Locked
  <2>2. \A t \in Slots : ic2[t].slk <=> \E q \in Procs : LocksIn(lc2[q], t)
    <3> SUFFICES ASSUME NEW t \in Slots PROVE ic2[t].slk <=> \E q \in Procs : LocksIn(lc2[q], t)
      OBVIOUS
    <3>1. CASE t = s
      BY <1>3, <1>4, <2>1, <3>1
    <3>2. CASE t # s
      BY <1>1, <1>3, <3>2 DEF Locked
    <3> QED
      BY <3>1, <3>2
  <2>3. ASSUME NEW t \in Slots, NEW q \in Procs, NEW r \in Procs,
               LocksIn(lc2[q], t), LocksIn(lc2[r], t)
        PROVE  q = r
    BY <1>1, <1>3, <2>1, <2>3 DEF Locked
  <2> QED
    BY <2>2, <2>3 DEF Locked
<1>7. Counted(ic2, lc2, ft, dl)
  <2>1. \A t \in Slots : (\E q \in Procs : HoldsIn(lc2[q], t)) <=> \E q \in Procs : HoldsIn(lc[q], t)
    BY <1>3
  <2>2. (\E q \in Procs : RootIn(lc2[q])) <=> \E q \in Procs : RootIn(lc[q])
    BY <1>3
  <2> QED
    BY <1>1, <1>2, <2>1, <2>2 DEF Counted, One
<1>8. Pointed(ic2, lc2, ft)
  BY <1>1, <1>2 DEF Pointed, Slotted
<1>9. Filed(ic2, ft)
  BY <1>1, <1>2 DEF Filed
<1> QED
  BY <1>1, <1>5, <1>6, <1>7, <1>8, <1>9 DEF Table

\* Files are closed, or get more references: a slot loses the references of the
\* files that no longer exist.
FilesTo(ic, lc, ft, ic2, ft2) ==
  /\ \A s \in Slots : /\ ic2[s].num = ic[s].num /\ ic2[s].slk = ic[s].slk
                      /\ ic2[s].ref - Cardinality(Opens(ft2, s))
                           = ic[s].ref - Cardinality(Opens(ft, s))
  /\ \A f \in FileIds : ft2[f].ref > 0 =>
       ft[f].ref > 0 /\ ft2[f].ip = ft[f].ip /\ ft2[f].of = ft[f].of
  /\ \A p \in Procs : lc[p].at = "io" => Opens(ft2, lc[p].ip) # {}

\* Such a change keeps the table's counts.
LEMMA FilesChange ==
  ASSUME NEW ic, NEW lc, NEW ft, NEW dl, Table(ic, lc, ft, dl),
         NEW ic2 \in IcacheType, NEW ft2 \in FtableType, FilesTo(ic, lc, ft, ic2, ft2)
  PROVE  Table(ic2, lc, ft2, dl)
<1> USE DEF FilesTo
<1>1. /\ ic \in IcacheType /\ lc \in LocType /\ ft \in FtableType /\ dl \in [Inums -> Nat]
      /\ Placed(ic, dl) /\ Locked(ic, lc) /\ Counted(ic, lc, ft, dl)
      /\ Pointed(ic, lc, ft) /\ Filed(ic, ft)
  BY DEF Table
<1>2. Placed(ic2, dl)
  BY <1>1, Sizes DEF Placed
<1>3. Locked(ic2, lc)
  BY <1>1 DEF Locked
<1>4. Counted(ic2, lc, ft2, dl)
  <2>1. \A s \in Slots : /\ Cardinality(Opens(ft, s)) \in Nat /\ Lost(ic, dl, s) \in Nat
                         /\ Cardinality(Opens(ft2, s)) \in Nat
                         /\ ic[s].ref \in Nat /\ ic2[s].ref \in Nat
    BY <1>1, OpensFinite DEF Lost, IcacheType
  <2>2. \A s \in Slots : Lost(ic2, dl, s) = Lost(ic, dl, s)
    BY DEF Lost
  <2> QED
    BY <1>1, <2>1, <2>2 DEF Counted, One
<1>5. Pointed(ic2, lc, ft2)
  BY <1>1 DEF Pointed, Slotted
<1>6. Filed(ic2, ft2)
  BY <1>1 DEF Filed
<1> QED
  BY <1>1, <1>2, <1>3, <1>4, <1>5, <1>6 DEF Table
-----------------------------------------------------------------------------
(* The operations on the inode table, slot by slot.                        *)

\* inode_lock() of slot s ...
LEMMA LockOps ==
  ASSUME NEW ic \in IcacheType, NEW s \in Slots
  PROVE  /\ Lock(ic, s) \in IcacheType
         /\ \A t \in Slots \ {s} : Lock(ic, s)[t] = ic[t]
         /\ Lock(ic, s)[s].num = ic[s].num /\ Lock(ic, s)[s].ref = ic[s].ref
         /\ Lock(ic, s)[s].slk = TRUE
BY DEF Lock, IcacheType

\* ... inode_unlock() ...
LEMMA UnlockOps ==
  ASSUME NEW ic \in IcacheType, NEW s \in Slots
  PROVE  /\ Unlock(ic, s) \in IcacheType
         /\ \A t \in Slots \ {s} : Unlock(ic, s)[t] = ic[t]
         /\ Unlock(ic, s)[s].num = ic[s].num /\ Unlock(ic, s)[s].ref = ic[s].ref
         /\ Unlock(ic, s)[s].slk = FALSE
BY DEF Unlock, IcacheType

\* ... and inode_unlock_free().
LEMMA UnlockFreeOps ==
  ASSUME NEW ic \in IcacheType, NEW s \in Slots
  PROVE  /\ \A t \in Slots \ {s} : UnlockFree(ic, s)[t] = ic[t]
         /\ UnlockFree(ic, s)[s].num = ic[s].num /\ UnlockFree(ic, s)[s].ref = ic[s].ref - 1
         /\ UnlockFree(ic, s)[s].slk = FALSE
         /\ ic[s].ref > 0 => UnlockFree(ic, s) \in IcacheType
<1>1. PICK jc \in IcacheType :
        /\ jc = Unlock(ic, s)
        /\ \A t \in Slots \ {s} : jc[t] = ic[t]
        /\ jc[s].num = ic[s].num /\ jc[s].ref = ic[s].ref /\ jc[s].slk = FALSE
  BY UnlockOps
<1>2. UnlockFree(ic, s) = [jc EXCEPT ![s].ref = @ - 1]
  BY <1>1 DEF UnlockFree
<1>3. /\ \A t \in Slots \ {s} : [jc EXCEPT ![s].ref = @ - 1][t] = jc[t]
      /\ [jc EXCEPT ![s].ref = @ - 1][s].num = jc[s].num
      /\ [jc EXCEPT ![s].ref = @ - 1][s].ref = jc[s].ref - 1
      /\ [jc EXCEPT ![s].ref = @ - 1][s].slk = jc[s].slk
      /\ jc[s].ref > 0 => [jc EXCEPT ![s].ref = @ - 1] \in IcacheType
  BY DEF IcacheType
<1> QED
  BY <1>1, <1>2, <1>3

\* inode_alloc() of inode i, in the slot it has or in a free one.
LEMMA AllocOps ==
  ASSUME NEW ic \in IcacheType, NEW i \in Inums, CanAlloc(ic, i)
  PROVE  /\ SlotFor(ic, i) \in Slots /\ InodeAlloc(ic, i) \in IcacheType
         /\ \A t \in Slots \ {SlotFor(ic, i)} : InodeAlloc(ic, i)[t] = ic[t]
         /\ InodeAlloc(ic, i)[SlotFor(ic, i)].num = i
         /\ InodeAlloc(ic, i)[SlotFor(ic, i)].slk = ic[SlotFor(ic, i)].slk
         /\ \/ /\ ic[SlotFor(ic, i)].num = i
               /\ InodeAlloc(ic, i)[SlotFor(ic, i)].ref = ic[SlotFor(ic, i)].ref + 1
            \/ /\ \A t \in Slots : ic[t].num # i
               /\ ic[SlotFor(ic, i)].ref = 0 /\ InodeAlloc(ic, i)[SlotFor(ic, i)].ref = 1
<1>1. PICK s : s = SlotFor(ic, i)
  OBVIOUS
<1>2. /\ InCache(ic, i) # {} => s \in InCache(ic, i)
      /\ InCache(ic, i) = {} => s \in FreeSlots(ic)
  <2>1. InCache(ic, i) \subseteq Nat /\ FreeSlots(ic) \subseteq Nat
    BY Sizes DEF InCache, FreeSlots
  <2> QED
    BY <1>1, <2>1, MinFound DEF SlotFor, CanAlloc
<1>3. s \in Slots
  BY <1>2 DEF InCache, FreeSlots
<1>4. InodeAlloc(ic, i) = [ic EXCEPT ![s] = [num |-> i, ref |-> IF InCache(ic, i) # {}
                                             THEN ic[s].ref + 1 ELSE 1, slk |-> ic[s].slk]]
  BY <1>1, <1>3 DEF InodeAlloc, IcacheType
<1>5. CASE InCache(ic, i) # {}
  BY <1>1, <1>2, <1>3, <1>4, <1>5 DEF InCache, IcacheType
<1>6. CASE InCache(ic, i) = {}
  BY <1>1, <1>2, <1>3, <1>4, <1>6 DEF InCache, FreeSlots, IcacheType
<1> QED
  BY <1>5, <1>6

\* The root is always in the first slot, so that inode_alloc() finds it there.
LEMMA RootOps ==
  ASSUME NEW ic \in IcacheType, NEW dl, Placed(ic, dl)
  PROVE  /\ SlotFor(ic, Root) = 0 /\ InodeAlloc(ic, Root) \in IcacheType
         /\ \A t \in Slots \ {0} : InodeAlloc(ic, Root)[t] = ic[t]
         /\ InodeAlloc(ic, Root)[0].num = Root /\ InodeAlloc(ic, Root)[0].ref = ic[0].ref + 1
         /\ InodeAlloc(ic, Root)[0].slk = ic[0].slk
<1>1. InCache(ic, Root) = {0}
  <2>1. 0 \in Slots /\ ic[0].num = Root /\ Root # None
    BY Sizes DEF Placed
  <2>2. \A s \in Slots : ic[s].num = Root => s = 0
    BY <2>1 DEF Placed
  <2> QED
    BY <2>1, <2>2 DEF InCache
<1>2. CanAlloc(ic, Root) /\ Root \in Inums
  BY <1>1, Sizes DEF CanAlloc
<1>3. SlotFor(ic, Root) = 0
  <2>1. {0} \subseteq Nat /\ {0} # {}
    OBVIOUS
  <2>2. Min({0}) = 0
    BY <2>1, MinFound
  <2> QED
    BY <1>1, <2>2 DEF SlotFor
<1> QED
  BY <1>1, <1>2, <1>3, AllocOps, Sizes DEF InCache
-----------------------------------------------------------------------------
(* What a call leaves alone.                                               *)

\* A step of p that changes neither descriptors nor files keeps their counts.
LEMMA DescriptorsKept ==
  ASSUME Descriptors, NEW p \in Procs, state[p] = "live",
         UNCHANGED <<ftable, filelist, state, dupLost>>,
         \A q \in Procs \ {p} : loc'[q] = loc[q], loc'[p].at # "io"
  PROVE  Descriptors'
<1>1. \A f \in FileIds : Users(f)' = Users(f)
  BY DEF Users
<1> QED
  BY <1>1 DEF Descriptors

\* A slot that a process holds keeps its inode.
LEMMA HeldKept ==
  ASSUME Table(icache, loc, ftable, dirLost), NEW q \in Procs, loc[q].at \in Slotted,
         \A s \in Slots : icache'[s].num = icache[s].num \/ icache[s].ref = 0
  PROVE  loc[q].ip \in Slots /\ icache'[loc[q].ip].num = icache[loc[q].ip].num
<1>1. /\ loc[q].ip \in Slots /\ HoldsIn(loc[q], loc[q].ip)
      /\ \A s \in Slots : Cardinality(Opens(ftable, s)) \in Nat
  BY OpensFinite DEF Table, Pointed, HoldsIn
<1>2. icache[loc[q].ip].ref > Cardinality(Opens(ftable, loc[q].ip))
  BY <1>1, HeldCounted
<1>3. icache[loc[q].ip].ref # 0
  BY <1>1, <1>2
<1> QED
  BY <1>1, <1>3

\* A step of p that changes nothing on the disk keeps what is known of it.
LEMMA DirectoryKept ==
  ASSUME Table(icache, loc, ftable, dirLost), Directory, Links, NEW p \in Procs,
         UNCHANGED <<entries, inode, ibits>>,
         \A q \in Procs \ {p} : loc'[q] = loc[q],
         loc[p].at # "gone", loc'[p].at # "gone",
         loc'[p].at = "dir" => inode[icache'[loc'[p].ip].num].type = FILE,
         loc'[p].at = "both" =>
           loc'[p].name \in Names /\ entries[loc'[p].name] = icache'[loc'[p].ip].num,
         \A s \in Slots : \/ icache'[s].num = icache[s].num
                          \/ icache[s].ref = 0 /\ icache'[s].num \in ibits
  PROVE  Directory' /\ Links'
<1>1. \A q \in Procs \ {p} : loc[q].at \in Slotted => Num(q)' = Num(q)
  BY HeldKept DEF Num
<1>2. Directory'
  <2>1. \A s \in Slots : icache'[s].num = None \/ icache'[s].num \in ibits
    BY DEF Directory
  <2>2. ASSUME NEW q \in Procs
        PROVE  /\ loc'[q].at = "dir" => inode[Num(q)'].type = FILE
               /\ loc'[q].at = "both" => loc'[q].name \in Names /\ entries[loc'[q].name] = Num(q)'
               /\ loc'[q].at = "gone" => Num(q)' # 2
    <3>1. CASE q = p
      BY <3>1 DEF Num
    <3>2. CASE q # p
      BY <1>1, <3>2 DEF Directory, Slotted
    <3> QED
      BY <3>1, <3>2
  <2> QED
    BY <2>1, <2>2 DEF Directory
<1>3. \A i \in Inums : Counting(i)' = Counting(i)
  BY <1>1 DEF Counting, Slotted
<1>4. \A i \in Inums : NamesOf(i)' = NamesOf(i)
  BY DEF NamesOf
<1>5. SubDirs' = SubDirs
  BY DEF SubDirs
<1> QED
  BY <1>2, <1>3, <1>4, <1>5 DEF Links

\* Together: a step of a call that changes only waits and the inode table.
LEMMA CallKept ==
  ASSUME TypeOK, Core, NEW p \in Procs, state[p] = "live",
         UNCHANGED <<entries, inode, ibits, ftable, filelist, state, dupLost, dirLost, panicked>>,
         Table(icache', loc', ftable, dirLost),
         \A q \in Procs \ {p} : loc'[q] = loc[q],
         loc[p].at # "gone", loc'[p].at \notin {"gone", "io"},
         loc'[p].at = "dir" => inode[icache'[loc'[p].ip].num].type = FILE,
         loc'[p].at = "both" =>
           loc'[p].name \in Names /\ entries[loc'[p].name] = icache'[loc'[p].ip].num,
         \A s \in Slots : \/ icache'[s].num = icache[s].num
                          \/ icache[s].ref = 0 /\ icache'[s].num \in ibits
  PROVE  IInv'
<1>1. Table(icache, loc, ftable, dirLost) /\ Descriptors /\ Directory /\ Links
  BY DEF Core
<1>2. Descriptors'
  BY <1>1, DescriptorsKept
<1>3. Directory' /\ Links'
  BY <1>1, DirectoryKept
<1>4. Table(icache, loc, ftable, dirLost)'
  OBVIOUS
<1>5. icache' \in IcacheType /\ loc' \in LocType
  BY DEF Table
<1>6. TypeOK'
  BY <1>5 DEF TypeOK, IcacheType, LocType
<1> QED
  BY <1>2, <1>3, <1>4, <1>6 DEF IInv, Core
-----------------------------------------------------------------------------
(* Path calls.                                                             *)

\* The parts of the invariant in a state without panic.
LEMMA Facts ==
  ASSUME IInv, panicked = "no"
  PROVE  /\ TypeOK /\ Core /\ Table(icache, loc, ftable, dirLost)
         /\ Descriptors /\ Directory /\ Links
         /\ icache \in IcacheType /\ loc \in LocType /\ ftable \in FtableType
         /\ dirLost \in [Inums -> Nat] /\ Placed(icache, dirLost) /\ RootSlot = 0
<1>1. TypeOK /\ Core /\ Table(icache, loc, ftable, dirLost) /\ Descriptors /\ Directory /\ Links
  BY DEF IInv, Core
<1>2. /\ icache \in IcacheType /\ loc \in LocType /\ ftable \in FtableType
      /\ dirLost \in [Inums -> Nat] /\ Placed(icache, dirLost)
  BY <1>1 DEF Table
<1> QED
  BY <1>1, <1>2, RootOps DEF RootSlot

\* A panic freezes everything.
LEMMA PanicStep ==
  ASSUME IInv, NEW why \in {"acquire", "no inode", "no file", "destroy", "no lock",
                            "close", "dup", "page fault"}, Panic(why)
  PROVE  IInv'
<1>1. /\ panicked' = why
      /\ UNCHANGED <<entries, inode, ibits, icache, ftable, filelist, state, loc, dupLost, dirLost>>
  BY DEF Panic
<1>2. TypeOK'
  BY <1>1 DEF IInv, TypeOK
<1> QED
  BY <1>1, <1>2 DEF IInv

\* A call returns.
LEMMA Returned ==
  ASSUME loc \in LocType, NEW p \in Procs, Return(p)
  PROVE  /\ loc' \in LocType /\ loc'[p].at = "run"
         /\ \A q \in Procs \ {p} : loc'[q] = loc[q]
BY DEF LocType, Return, Idle, Waits

\* A call goes on to wait w, with slot s.
LEMMA LocMoved ==
  ASSUME NEW lc \in LocType, NEW p \in Procs, NEW w \in Waits, NEW s \in Slots
  PROVE  [lc EXCEPT ![p].at = w, ![p].ip = s] \in LocType
<1>1. [lc EXCEPT ![p].at = w] \in LocType
  BY DEF LocType
<1>2. PICK kc \in LocType : kc = [lc EXCEPT ![p].at = w]
  BY <1>1
<1>3. [kc EXCEPT ![p].ip = s] \in LocType
  BY DEF LocType
<1> QED
  BY <1>2, <1>3

\* A path call locks the root and waits for its block.
LEMMA LookupStep ==
  ASSUME IInv, NEW p \in Procs, Lookup(p)
  PROVE  IInv'
<1>1. panicked = "no" /\ state[p] = "live" /\ loc[p].at = "run"
  BY DEF Lookup, At
<1>2. Table(icache, loc, ftable, dirLost) /\ icache \in IcacheType /\ loc \in LocType /\ RootSlot = 0
  BY <1>1, Facts
<1>3. CASE icache[RootSlot].slk
  BY <1>3, PanicStep DEF Lookup
<1>4. CASE ~icache[RootSlot].slk
  <2>1. /\ icache' = Lock(InodeAlloc(icache, Root), 0)
        /\ loc' = [loc EXCEPT ![p].at = "lookup"]
        /\ UNCHANGED <<entries, inode, ibits, ftable, filelist, state, dupLost, dirLost, panicked>>
    BY <1>2, <1>4 DEF Lookup, Disk, Open
  <2>2. /\ icache' \in IcacheType /\ \A t \in Slots \ {0} : icache'[t] = icache[t]
        /\ icache'[0].num = icache[0].num /\ icache'[0].ref = icache[0].ref + 1 /\ icache'[0].slk
    <3>1. PICK jc \in IcacheType :
             /\ jc = InodeAlloc(icache, Root) /\ \A t \in Slots \ {0} : jc[t] = icache[t]
             /\ jc[0].num = icache[0].num /\ jc[0].ref = icache[0].ref + 1
      BY <1>1, <1>2, Facts, RootOps DEF Placed
    <3>2. icache' = Lock(jc, 0)
      BY <2>1, <3>1
    <3>3. /\ Lock(jc, 0) \in IcacheType /\ \A t \in Slots \ {0} : Lock(jc, 0)[t] = jc[t]
          /\ Lock(jc, 0)[0].num = jc[0].num /\ Lock(jc, 0)[0].ref = jc[0].ref /\ Lock(jc, 0)[0].slk
      BY LockOps, Sizes
    <3> QED
      BY <3>1, <3>2, <3>3
  <2>3. /\ loc' \in LocType /\ loc'[p].at = "lookup" /\ loc'[p].ip = loc[p].ip
        /\ \A q \in Procs \ {p} : loc'[q] = loc[q]
    BY <1>2, <2>1 DEF LocType, Waits
  <2>4. Table(icache', loc', ftable, dirLost)
    BY <1>1, <1>2, <1>4, <2>2, <2>3, RootGet
  <2>5. \A s \in Slots : icache'[s].num = icache[s].num
    BY <2>2
  <2> QED
    BY <1>1, <2>1, <2>3, <2>4, <2>5, Facts, CallKept
<1> QED
  BY <1>3, <1>4

\* The root is given back: the inode table after UnlockFree(icache, RootSlot).
LEMMA RootFreed ==
  ASSUME IInv, panicked = "no", NEW ic, ic = UnlockFree(icache, RootSlot)
  PROVE  /\ ic \in IcacheType /\ \A t \in Slots \ {0} : ic[t] = icache[t]
         /\ ic[0].num = icache[0].num /\ ic[0].ref = icache[0].ref - 1 /\ ~ic[0].slk
<1>1. Table(icache, loc, ftable, dirLost) /\ icache \in IcacheType /\ RootSlot = 0
  BY Facts
<1>2. icache[0].ref > 0 /\ 0 \in Slots
  BY <1>1, Sizes, HeldCounted
<1> QED
  BY <1>1, <1>2, UnlockFreeOps

\* The call ends after the search of the root, with or without an error.
LEMMA RootReturn ==
  ASSUME IInv, NEW p \in Procs, At(p, "lookup"), icache' = UnlockFree(icache, RootSlot),
         Return(p), UNCHANGED <<Disk, Open, dirLost, panicked>>
  PROVE  IInv'
<1>1. panicked = "no" /\ state[p] = "live" /\ loc[p].at = "lookup"
  BY DEF At
<1>2. TypeOK /\ Core /\ Table(icache, loc, ftable, dirLost) /\ loc \in LocType
  BY <1>1, Facts
<1>3. UNCHANGED <<entries, inode, ibits, ftable, filelist, state, dupLost, dirLost, panicked>>
  BY DEF Disk, Open
<1>4. /\ icache' \in IcacheType /\ \A t \in Slots \ {0} : icache'[t] = icache[t]
      /\ icache'[0].num = icache[0].num /\ icache'[0].ref = icache[0].ref - 1 /\ ~icache'[0].slk
  BY <1>1, RootFreed
<1>5. /\ loc' \in LocType /\ loc'[p].at = "run" /\ \A q \in Procs \ {p} : loc'[q] = loc[q]
  BY <1>2, Returned
<1>6. Table(icache', loc', ftable, dirLost)
  BY <1>1, <1>2, <1>4, <1>5, RootPut
<1>7. \A s \in Slots : icache'[s].num = icache[s].num
  BY <1>4
<1> QED
  BY <1>1, <1>2, <1>3, <1>5, <1>6, <1>7, CallKept

\* search_inode() has found the name: the root is given back, its inode taken.
LEMMA LookupFindsStep ==
  ASSUME IInv, NEW p \in Procs, NEW n \in Names, LookupFinds(p, n)
  PROVE  IInv'
<1>1. panicked = "no" /\ state[p] = "live" /\ loc[p].at = "lookup"
  BY DEF LookupFinds, At
<1>2. TypeOK /\ Core /\ Table(icache, loc, ftable, dirLost) /\ loc \in LocType /\ Directory
  BY <1>1, Facts
<1>3. PICK i : i = entries[n] /\ i \in Inums \ {Root} /\ i \in ibits
  BY <1>2 DEF LookupFinds, Directory, TypeOK
<1>4. PICK ic \in IcacheType :
        /\ ic = UnlockFree(icache, RootSlot) /\ \A t \in Slots \ {0} : ic[t] = icache[t]
        /\ ic[0].num = icache[0].num /\ ic[0].ref = icache[0].ref - 1 /\ ~ic[0].slk
  BY <1>1, RootFreed
<1>5. CASE ~CanAlloc(ic, i) \/ ic[SlotFor(ic, i)].slk
  BY <1>3, <1>4, <1>5, PanicStep DEF LookupFinds
<1>6. CASE CanAlloc(ic, i) /\ ~ic[SlotFor(ic, i)].slk
  <2>1. PICK s : s = SlotFor(ic, i)
    OBVIOUS
  <2>2. /\ icache' = Lock(InodeAlloc(ic, i), s)
        /\ loc' = [loc EXCEPT ![p].at = "inode", ![p].ip = s]
        /\ UNCHANGED <<entries, inode, ibits, ftable, filelist, state, dupLost, dirLost, panicked>>
    BY <1>3, <1>4, <1>6, <2>1 DEF LookupFinds, Disk, Open
  <2>3. PICK jc \in IcacheType :
          /\ jc = InodeAlloc(ic, i) /\ s \in Slots
          /\ \A t \in Slots \ {s} : jc[t] = ic[t]
          /\ jc[s].num = i
          /\ \/ ic[s].num = i /\ jc[s].ref = ic[s].ref + 1
             \/ (\A t \in Slots : ic[t].num # i) /\ ic[s].ref = 0 /\ jc[s].ref = 1
    BY <1>3, <1>4, <1>6, <2>1, AllocOps
  <2>4. /\ icache' \in IcacheType /\ icache'[s].num = i /\ icache'[s].slk
        /\ \A t \in Slots \ {s} : icache'[t] = ic[t]
        /\ \/ ic[s].num = i /\ icache'[s].ref = ic[s].ref + 1
           \/ (\A t \in Slots : ic[t].num # i) /\ ic[s].ref = 0 /\ icache'[s].ref = 1
    <3>1. icache' = Lock(jc, s)
      BY <2>2, <2>3
    <3>2. /\ Lock(jc, s) \in IcacheType /\ \A t \in Slots \ {s} : Lock(jc, s)[t] = jc[t]
          /\ Lock(jc, s)[s].num = jc[s].num /\ Lock(jc, s)[s].ref = jc[s].ref /\ Lock(jc, s)[s].slk
      BY <2>3, LockOps
    <3> QED
      BY <2>3, <3>1, <3>2
  <2>5. PICK lc \in LocType : lc = [loc EXCEPT ![p] = Idle]
    BY <1>2 DEF LocType, Idle, Waits
  <2>6. lc[p].at = "run" /\ \A q \in Procs \ {p} : lc[q] = loc[q]
    BY <1>2, <2>5 DEF LocType, Idle
  <2>7. Table(ic, lc, ftable, dirLost)
    BY <1>1, <1>2, <1>4, <2>6, RootPut
  <2>8. /\ loc' \in LocType /\ loc'[p].at = "inode" /\ loc'[p].ip = s
        /\ \A q \in Procs \ {p} : loc'[q] = loc[q]
    <3>1. loc'[p].at = "inode" /\ loc'[p].ip = s /\ \A q \in Procs \ {p} : loc'[q] = loc[q]
      BY <1>2, <2>2 DEF LocType
    <3>2. loc' \in LocType
      BY <1>2, <2>2, <2>3, LocMoved DEF Waits
    <3> QED
      BY <3>1, <3>2
  <2>9. Table(icache', loc', ftable, dirLost)
    BY <1>3, <1>6, <2>1, <2>3, <2>4, <2>6, <2>7, <2>8, SlotGet
  <2>10. ic[0].ref > 0
    BY <2>7, HeldCounted, Sizes
  <2>11. \A t \in Slots : \/ icache'[t].num = icache[t].num
                          \/ icache[t].ref = 0 /\ icache'[t].num \in ibits
    BY <1>3, <1>4, <2>3, <2>4, <2>10
  <2> QED
    BY <1>1, <1>2, <2>2, <2>8, <2>9, <2>11, CallKept
<1> QED
  BY <1>5, <1>6

\* The slot of a call is given back: the inode table after UnlockFree(ic, s).
LEMMA SlotFreed ==
  ASSUME NEW ic, NEW lc, NEW ft, NEW dl, Table(ic, lc, ft, dl), NEW p \in Procs,
         lc[p].at \in {"inode", "gone"}, NEW lc2 \in LocType, lc2[p].at = "run",
         \A q \in Procs \ {p} : lc2[q] = lc[q],
         NEW ic2, ic2 = UnlockFree(ic, lc[p].ip)
  PROVE  /\ Table(ic2, lc2, ft, dl)
         /\ \A t \in Slots : ic2[t].num = ic[t].num
<1>1. /\ ic \in IcacheType /\ ft \in FtableType /\ dl \in [Inums -> Nat]
      /\ Filed(ic, ft) /\ Pointed(ic, lc, ft)
  BY DEF Table
<1>2. PICK s \in Slots : s = lc[p].ip
  BY <1>1 DEF Pointed, Slotted
<1>3. \A t \in Slots : Cardinality(Opens(ft, t)) \in Nat /\ Lost(ic, dl, t) \in Nat /\ ic[t].ref \in Nat
  BY <1>1, OpensFinite DEF Lost, IcacheType
<1>4. ic[s].ref > Cardinality(Opens(ft, s))
  <2>1. HoldsIn(lc[p], s)
    BY <1>2 DEF HoldsIn, Slotted
  <2> QED
    BY <1>2, <2>1, HeldCounted
<1>5. ic[s].ref > 0
  BY <1>3, <1>4
<1>6. /\ ic2 \in IcacheType /\ \A t \in Slots \ {s} : ic2[t] = ic[t]
      /\ ic2[s].num = ic[s].num /\ ic2[s].ref = ic[s].ref - 1 /\ ~ic2[s].slk
  BY <1>1, <1>2, <1>5, UnlockFreeOps
<1>7. Cardinality(Opens(ft, s)) + Lost(ic, dl, s) - ic2[s].ref
           = Cardinality(Opens(ft, s)) + Lost(ic, dl, s) - ic[s].ref + 1
  BY <1>3, <1>6
<1>8. Table(ic2, lc2, ft, dl)
  BY <1>1, <1>2, <1>6, <1>7, SlotEnd
<1> QED
  BY <1>6, <1>8

\* A call ends and gives back its inode.
LEMMA PutInodeStep ==
  ASSUME IInv, NEW p \in Procs, At(p, "inode"), PutInode(p)
  PROVE  IInv'
<1>1. panicked = "no" /\ state[p] = "live" /\ loc[p].at = "inode"
  BY DEF At
<1>2. TypeOK /\ Core /\ Table(icache, loc, ftable, dirLost) /\ loc \in LocType
  BY <1>1, Facts
<1>3. CASE Destroys(icache, loc[p].ip, inode)
  BY <1>3, PanicStep DEF PutInode
<1>4. CASE ~Destroys(icache, loc[p].ip, inode)
  <2>1. /\ icache' = UnlockFree(icache, loc[p].ip) /\ Return(p)
        /\ UNCHANGED <<entries, inode, ibits, ftable, filelist, state, dupLost, dirLost, panicked>>
    BY <1>4 DEF PutInode, Disk, Open
  <2>2. loc' \in LocType /\ loc'[p].at = "run" /\ \A q \in Procs \ {p} : loc'[q] = loc[q]
    BY <1>2, <2>1, Returned
  <2>3. Table(icache', loc', ftable, dirLost) /\ \A t \in Slots : icache'[t].num = icache[t].num
    BY <1>1, <1>2, <2>1, <2>2, SlotFreed
  <2> QED
    BY <1>1, <1>2, <2>1, <2>2, <2>3, CallKept
<1> QED
  BY <1>3, <1>4

\* path_link() takes the root as well.
LEMMA LinkDirStep ==
  ASSUME IInv, NEW p \in Procs, LinkDir(p)
  PROVE  IInv'
<1>1. panicked = "no" /\ state[p] = "live" /\ loc[p].at = "inode" /\ At(p, "inode")
  BY DEF LinkDir, At
<1>2. /\ TypeOK /\ Core /\ Table(icache, loc, ftable, dirLost) /\ Directory
      /\ icache \in IcacheType /\ loc \in LocType /\ RootSlot = 0
  BY <1>1, Facts
<1>3. CASE TypeAt(p) = DIR
  BY <1>1, <1>3, PutInodeStep DEF LinkDir
<1>4. CASE TypeAt(p) # DIR /\ icache[RootSlot].slk
  BY <1>4, PanicStep DEF LinkDir
<1>5. CASE TypeAt(p) # DIR /\ ~icache[RootSlot].slk
  <2>1. /\ icache' = Lock(InodeAlloc(icache, Root), 0)
        /\ loc' = [loc EXCEPT ![p].at = "dir"]
        /\ UNCHANGED <<entries, inode, ibits, ftable, filelist, state, dupLost, dirLost, panicked>>
    BY <1>2, <1>5 DEF LinkDir, Disk, Open
  <2>2. /\ icache' \in IcacheType /\ \A t \in Slots \ {0} : icache'[t] = icache[t]
        /\ icache'[0].num = icache[0].num /\ icache'[0].ref = icache[0].ref + 1 /\ icache'[0].slk
    <3>1. PICK jc \in IcacheType :
             /\ jc = InodeAlloc(icache, Root) /\ \A t \in Slots \ {0} : jc[t] = icache[t]
             /\ jc[0].num = icache[0].num /\ jc[0].ref = icache[0].ref + 1
      BY <1>1, <1>2, Facts, RootOps DEF Placed
    <3>2. icache' = Lock(jc, 0)
      BY <2>1, <3>1
    <3>3. /\ Lock(jc, 0) \in IcacheType /\ \A t \in Slots \ {0} : Lock(jc, 0)[t] = jc[t]
          /\ Lock(jc, 0)[0].num = jc[0].num /\ Lock(jc, 0)[0].ref = jc[0].ref /\ Lock(jc, 0)[0].slk
      BY LockOps, Sizes
    <3> QED
      BY <3>1, <3>2, <3>3
  <2>3. /\ loc' \in LocType /\ loc'[p].at = "dir" /\ loc'[p].ip = loc[p].ip
        /\ \A q \in Procs \ {p} : loc'[q] = loc[q]
    BY <1>2, <2>1 DEF LocType, Waits
  <2>4. Table(icache', loc', ftable, dirLost)
    BY <1>1, <1>2, <1>5, <2>2, <2>3, RootGet
  <2>5. \A s \in Slots : icache'[s].num = icache[s].num
    BY <2>2
  <2>6. inode[icache'[loc'[p].ip].num].type = FILE
    <3>1. loc[p].ip \in Slots /\ icache[loc[p].ip].num \in Inums \cap ibits
      BY <1>1, <1>2 DEF Table, Pointed, Slotted, IcacheType, Directory
    <3>2. inode[icache[loc[p].ip].num].type \in {"unused", FILE, DIR}
      BY <1>2, <3>1 DEF TypeOK
    <3>3. inode[icache[loc[p].ip].num].type # "unused"
      BY <1>2, <3>1 DEF Directory
    <3> QED
      BY <1>5, <2>3, <2>5, <3>1, <3>2, <3>3 DEF TypeAt
  <2> QED
    BY <1>1, <1>2, <2>1, <2>3, <2>4, <2>5, <2>6, CallKept
<1> QED
  BY <1>3, <1>4, <1>5

\* path_unlink() takes the inode of the name as well.
LEMMA UnlinkFoundStep ==
  ASSUME IInv, NEW p \in Procs, NEW n \in Names, UnlinkFound(p, n)
  PROVE  IInv'
<1>1. panicked = "no" /\ state[p] = "live" /\ loc[p].at = "lookup"
  BY DEF UnlinkFound, At
<1>2. /\ TypeOK /\ Core /\ Table(icache, loc, ftable, dirLost) /\ Directory
      /\ icache \in IcacheType /\ loc \in LocType
  BY <1>1, Facts
<1>3. PICK i : i = entries[n] /\ i \in Inums \ {Root} /\ i \in ibits
  BY <1>2 DEF UnlinkFound, Directory, TypeOK
<1>4. CASE ~CanAlloc(icache, i) \/ icache[SlotFor(icache, i)].slk
  BY <1>3, <1>4, PanicStep DEF UnlinkFound
<1>5. CASE CanAlloc(icache, i) /\ ~icache[SlotFor(icache, i)].slk
  <2>1. PICK s : s = SlotFor(icache, i)
    OBVIOUS
  <2>2. /\ icache' = Lock(InodeAlloc(icache, i), s)
        /\ loc' = [loc EXCEPT ![p] = [at |-> "both", ip |-> s, name |-> n]]
        /\ UNCHANGED <<entries, inode, ibits, ftable, filelist, state, dupLost, dirLost, panicked>>
    BY <1>3, <1>5, <2>1 DEF UnlinkFound, Disk, Open
  <2>3. PICK jc \in IcacheType :
          /\ jc = InodeAlloc(icache, i) /\ s \in Slots
          /\ \A t \in Slots \ {s} : jc[t] = icache[t]
          /\ jc[s].num = i
          /\ \/ icache[s].num = i /\ jc[s].ref = icache[s].ref + 1
             \/ (\A t \in Slots : icache[t].num # i) /\ icache[s].ref = 0 /\ jc[s].ref = 1
    BY <1>2, <1>3, <1>5, <2>1, AllocOps
  <2>4. /\ icache' \in IcacheType /\ icache'[s].num = i /\ icache'[s].slk
        /\ \A t \in Slots \ {s} : icache'[t] = icache[t]
        /\ \/ icache[s].num = i /\ icache'[s].ref = icache[s].ref + 1
           \/ (\A t \in Slots : icache[t].num # i) /\ icache[s].ref = 0 /\ icache'[s].ref = 1
    <3>1. icache' = Lock(jc, s)
      BY <2>2, <2>3
    <3>2. /\ Lock(jc, s) \in IcacheType /\ \A t \in Slots \ {s} : Lock(jc, s)[t] = jc[t]
          /\ Lock(jc, s)[s].num = jc[s].num /\ Lock(jc, s)[s].ref = jc[s].ref /\ Lock(jc, s)[s].slk
      BY <2>3, LockOps
    <3> QED
      BY <2>3, <3>1, <3>2
  <2>5. /\ loc' \in LocType /\ loc'[p].at = "both" /\ loc'[p].ip = s /\ loc'[p].name = n
        /\ \A q \in Procs \ {p} : loc'[q] = loc[q]
    BY <1>2, <2>2, <2>3 DEF LocType, Waits
  <2>6. Table(icache', loc', ftable, dirLost)
    BY <1>1, <1>2, <1>3, <1>5, <2>1, <2>3, <2>4, <2>5, SlotGet
  <2>7. \A t \in Slots : \/ icache'[t].num = icache[t].num
                         \/ icache[t].ref = 0 /\ icache'[t].num \in ibits
    BY <1>3, <2>3, <2>4
  <2>8. entries[loc'[p].name] = icache'[loc'[p].ip].num
    BY <1>3, <2>4, <2>5
  <2> QED
    BY <1>1, <1>2, <2>2, <2>5, <2>6, <2>7, <2>8, CallKept
<1> QED
  BY <1>4, <1>5

-----------------------------------------------------------------------------
(* Opening a file.                                                         *)

\* The descriptors of a file can be counted, and a file has as many as it has
\* references, apart from the lost ones: one that a descriptor names is open.
LEMMA UsersFinite ==
  ASSUME NEW f
  PROVE  /\ IsFiniteSet(Users(f)) /\ Cardinality(Users(f)) \in Nat
         /\ Cardinality(Users(f)) = 0 <=> Users(f) = {}
<1>1. Users(f) \subseteq Procs \X Fds
  BY DEF Users
<1>2. IsFiniteSet(Procs \X Fds)
  BY Finite, FS_Product
<1> QED
  BY <1>1, <1>2, FS_Subset, FS_CardinalityType, FS_EmptySet

\* A descriptor names a file that has references.
LEMMA NamedOpen ==
  ASSUME TypeOK, Descriptors, NEW q \in Procs, NEW d \in Fds, filelist[q][d] # None
  PROVE  filelist[q][d] \in FileIds /\ ftable[filelist[q][d]].ref > 0
<1>1. filelist[q][d] \in FileIds
  <2>1. filelist \in [Procs -> [Fds -> FileIds \cup {None}]]
    BY DEF TypeOK
  <2> QED
    BY <2>1
<1>2. <<q, d>> \in Users(filelist[q][d])
  BY DEF Users
<1>3. Cardinality(Users(filelist[q][d])) \in Nat \ {0}
  BY <1>2, UsersFinite
<1>4. dupLost[filelist[q][d]] \in Nat
  <2>1. dupLost \in [FileIds -> 0 .. MaxLeak]
    BY DEF TypeOK
  <2> QED
    BY <1>1, <2>1, FilesAssumption
<1> QED
  BY <1>1, <1>3, <1>4 DEF Descriptors

\* The file takes over the reference of the call to slot s.
LEMMA OpenTable ==
  ASSUME NEW ic, NEW lc, NEW ft, NEW dl, Table(ic, lc, ft, dl), NEW p \in Procs,
         lc[p].at = "inode", NEW s, s = lc[p].ip,
         NEW lc2 \in LocType, lc2[p].at = "run", \A q \in Procs \ {p} : lc2[q] = lc[q],
         NEW f \in FileIds, ft[f].ref = 0,
         NEW ft2 \in FtableType, \A g \in FileIds \ {f} : ft2[g] = ft[g],
         ft2[f].ref = 1, ft2[f].ip = s, ft2[f].of = ic[s].num,
         NEW ic2, ic2 = Unlock(ic, s)
  PROVE  /\ Table(ic2, lc2, ft2, dl)
         /\ \A t \in Slots : ic2[t].num = ic[t].num
<1>1. /\ ic \in IcacheType /\ ft \in FtableType /\ dl \in [Inums -> Nat]
      /\ Filed(ic, ft) /\ Pointed(ic, lc, ft)
  BY DEF Table
<1>2. s \in Slots /\ ic[s].num \in Inums \cup {None}
  BY <1>1 DEF Pointed, Slotted, IcacheType
<1>3. /\ ic2 \in IcacheType /\ \A t \in Slots \ {s} : ic2[t] = ic[t]
      /\ ic2[s].num = ic[s].num /\ ic2[s].ref = ic[s].ref /\ ic2[s].slk = FALSE
  BY <1>1, <1>2, UnlockOps
<1>4. /\ Opens(ft2, s) = Opens(ft, s) \cup {f} /\ f \notin Opens(ft, s)
      /\ \A t \in Slots \ {s} : Opens(ft2, t) = Opens(ft, t)
  BY DEF Opens
<1>5. Cardinality(Opens(ft2, s)) = Cardinality(Opens(ft, s)) + 1
  <2>1. IsFiniteSet(Opens(ft, s))
    BY OpensFinite
  <2>2. Cardinality(Opens(ft, s) \cup {f}) = Cardinality(Opens(ft, s)) + 1
    BY <1>4, <2>1, FS_AddElement
  <2> QED
    BY <1>4, <2>2
<1>6. Filed(ic, ft2)
  BY <1>1, <1>2 DEF Filed
<1>7. \A t \in Slots : Cardinality(Opens(ft, t)) \in Nat /\ Lost(ic, dl, t) \in Nat /\ ic[t].ref \in Nat
  BY <1>1, OpensFinite DEF Lost, IcacheType
<1>8. Cardinality(Opens(ft2, s)) + Lost(ic, dl, s) - ic2[s].ref
           = Cardinality(Opens(ft, s)) + Lost(ic, dl, s) - ic[s].ref + 1
  BY <1>2, <1>3, <1>5, <1>7
<1>9. \A t \in Slots : Opens(ft, t) \subseteq Opens(ft2, t)
  BY <1>4
<1>10. Table(ic2, lc2, ft2, dl)
  <2>1. /\ lc[p].at \in {"inode", "gone"} /\ ~ic2[s].slk
        /\ \A j \in Inums : dl[j] > 0 => dl[j] > 0 \/ j = ic[s].num
        /\ \A t \in Slots \ {s} : Opens(ft2, t) = Opens(ft, t) /\ Lost(ic, dl, t) = Lost(ic, dl, t)
    BY <1>3, <1>4
  <2>2. /\ Table(ic, lc, ft, dl) /\ ic2 \in IcacheType /\ lc2 \in LocType /\ ft2 \in FtableType
        /\ dl \in [Inums -> Nat] /\ s = lc[p].ip /\ p \in Procs
    BY <1>1, <1>3
  <2>3. ic2[s].num = ic[s].num /\ ~ic2[s].slk /\ \A t \in Slots \ {s} : ic2[t] = ic[t]
    BY <1>3
  <2>4. /\ \A q \in Procs \ {p} : lc2[q] = lc[q]
        /\ lc2[p].at = "run"
    OBVIOUS
  <2>5. \A t \in Slots : Opens(ft, t) \subseteq Opens(ft2, t)
    BY <1>9
  <2> QED
    BY ONLY <2>1, <2>2, <2>3, <2>4, <2>5, <1>6, <1>8, SlotEnd
<1> QED
  BY <1>3, <1>10

\* The new descriptor is the only one of its file.
LEMMA OpenDescriptors ==
  ASSUME TypeOK, Descriptors, NEW p \in Procs, state[p] = "live",
         NEW f \in FileIds, ftable[f].ref = 0, NEW d \in Fds, filelist[p][d] = None,
         ftable'[f].ref = 1, \A g \in FileIds \ {f} : ftable'[g] = ftable[g],
         filelist' = [filelist EXCEPT ![p][d] = f],
         UNCHANGED <<state, dupLost>>,
         \A q \in Procs \ {p} : loc'[q] = loc[q], loc'[p].at = "run"
  PROVE  Descriptors' /\ filelist' \in [Procs -> [Fds -> FileIds \cup {None}]]
<1>1. filelist \in [Procs -> [Fds -> FileIds \cup {None}]] /\ f # None
  BY Sizes DEF TypeOK
<1>2. filelist' \in [Procs -> [Fds -> FileIds \cup {None}]]
  BY <1>1
<1>3. \A q \in Procs, e \in Fds :
        filelist'[q][e] = IF q = p /\ e = d THEN f ELSE filelist[q][e]
  BY <1>1
<1>4. dupLost[f] = 0 /\ Users(f) = {}
  <2>1. dupLost[f] \in Nat /\ Cardinality(Users(f)) \in Nat
    <3>1. dupLost \in [FileIds -> 0 .. MaxLeak]
      BY DEF TypeOK
    <3> QED
      BY <3>1, UsersFinite, FilesAssumption
  <2>2. 0 = dupLost[f] + Cardinality(Users(f))
    BY DEF Descriptors
  <2> QED
    BY <2>1, <2>2, UsersFinite
<1>5. Users(f)' = {<<p, d>>}
  BY <1>3, <1>4 DEF Users
<1>6. \A g \in FileIds \ {f} : Users(g)' = Users(g)
  <2>1. ASSUME NEW g \in FileIds \ {f}, NEW x \in Procs \X Fds
        PROVE  filelist'[x[1]][x[2]] = g <=> filelist[x[1]][x[2]] = g
    BY <1>3, Sizes
  <2> QED
    BY <2>1 DEF Users
<1>7. \A g \in FileIds : ftable'[g].ref = dupLost'[g] + Cardinality(Users(g)')
  <2>1. Cardinality(Users(f)') = 1
    BY <1>5, FS_Singleton
  <2> QED
    BY <1>4, <1>6, <2>1 DEF Descriptors
<1>8. ASSUME NEW q \in Procs, loc'[q].at = "io"
      PROVE  \E e \in Fds : filelist'[q][e] # None /\ ftable'[filelist'[q][e]].ip = loc'[q].ip
  <2>1. q # p /\ loc'[q] = loc[q]
    BY <1>8
  <2>2. PICK e \in Fds : filelist[q][e] # None /\ ftable[filelist[q][e]].ip = loc[q].ip
    BY <1>8, <2>1 DEF Descriptors
  <2>3. filelist[q][e] \in FileIds \ {f}
    BY <2>2, NamedOpen
  <2> QED
    BY <1>3, <2>1, <2>2, <2>3
<1>9. \A q \in Procs : state'[q] = "unused" => \A e \in Fds : filelist'[q][e] = None
  BY <1>3 DEF Descriptors
<1>10. \A q \in Procs : loc'[q].at # "run" => state'[q] = "live"
  BY DEF Descriptors
<1> QED
  BY <1>2, <1>7, <1>8, <1>9, <1>10 DEF Descriptors

\* file_open() from file_alloc() on, for a table jc and waits lc in which p holds
\* slot s: it panics, or p returns with everything counted.
LEMMA FileOpenStep ==
  ASSUME IInv, panicked = "no", NEW p \in Procs, state[p] = "live",
         NEW jc, NEW lc, Table(jc, lc, ftable, dirLost), NEW s, s = lc[p].ip,
         lc[p].at = "inode", \A q \in Procs \ {p} : lc[q] = loc[q],
         NEW dk, FileOpen(p, jc, s, dk)
  PROVE  \/ IInv'
         \/ /\ Table(icache', loc', ftable', dirLost) /\ Descriptors'
            /\ filelist' \in [Procs -> [Fds -> FileIds \cup {None}]]
            /\ \A t \in Slots : icache'[t].num = jc[t].num
            /\ \A q \in Procs \ {p} : loc'[q] = loc[q]
            /\ loc'[p].at = "run" /\ SetDisk(dk)
            /\ UNCHANGED <<state, dupLost, dirLost, panicked>>
<1>1. TypeOK /\ Descriptors /\ loc \in LocType /\ ftable \in FtableType
  BY Facts
<1>2. CASE FreeFiles = {} \/ (FreeFds(p) = {} /\ Destroys(jc, s, dk[2]))
  BY <1>2, PanicStep DEF FileOpen
<1>3. CASE FreeFiles # {} /\ ~(FreeFds(p) = {} /\ Destroys(jc, s, dk[2]))
  <2>1. SetDisk(dk) /\ Return(p) /\ UNCHANGED <<state, dupLost, dirLost, panicked>>
    BY <1>3 DEF FileOpen
  <2>2. /\ loc' \in LocType /\ loc'[p].at = "run"
        /\ \A q \in Procs \ {p} : loc'[q] = loc[q] /\ loc'[q] = lc[q]
    BY <1>1, <2>1, Returned
  <2>3. CASE FreeFds(p) = {}
    <3>1. icache' = UnlockFree(jc, s) /\ UNCHANGED <<ftable, filelist>>
      BY <1>3, <2>3 DEF FileOpen
    <3>2. PICK ic2 : ic2 = icache'
      OBVIOUS
    <3>3. Table(ic2, loc', ftable, dirLost) /\ \A t \in Slots : ic2[t].num = jc[t].num
      BY <2>2, <3>1, <3>2, SlotFreed
    <3>4. Descriptors'
      BY <1>1, <2>1, <2>2, <3>1, DescriptorsKept
    <3>5. filelist' \in [Procs -> [Fds -> FileIds \cup {None}]]
      BY <1>1, <3>1 DEF TypeOK
    <3> QED
      BY <2>1, <2>2, <3>1, <3>2, <3>3, <3>4, <3>5
  <2>4. CASE FreeFds(p) # {}
    <3>1. PICK f \in FileIds, d \in Fds :
            /\ f = Min(FreeFiles) /\ d = Min(FreeFds(p))
            /\ ftable[f].ref = 0 /\ filelist[p][d] = None
      <4>1. FreeFiles \subseteq Nat /\ FreeFds(p) \subseteq Nat
        BY Sizes DEF FreeFiles, FreeFds
      <4>2. Min(FreeFiles) \in FreeFiles /\ Min(FreeFds(p)) \in FreeFds(p)
        BY <1>3, <2>4, <4>1, MinFound
      <4> QED
        BY <4>2 DEF FreeFiles, FreeFds
    <3>2. /\ ftable' = [ftable EXCEPT ![f] = [ref |-> 1, ip |-> s, of |-> jc[s].num]]
          /\ filelist' = [filelist EXCEPT ![p][d] = f]
          /\ icache' = Unlock(jc, s)
      BY <1>3, <2>4, <3>1 DEF FileOpen
    <3>3. Table(icache', loc', ftable', dirLost) /\ \A t \in Slots : icache'[t].num = jc[t].num
      <4>1. PICK ft2, ic2, lc2 : ft2 = ftable' /\ ic2 = icache' /\ lc2 = loc'
        OBVIOUS
      <4>2. lc2 \in LocType /\ lc2[p].at = "run" /\ \A q \in Procs \ {p} : lc2[q] = lc[q]
        BY <2>2, <4>1
      <4>3. /\ ft2 \in FtableType /\ \A g \in FileIds \ {f} : ft2[g] = ftable[g]
            /\ ft2[f].ref = 1 /\ ft2[f].ip = s /\ ft2[f].of = jc[s].num
            /\ ic2 = Unlock(jc, s)
        <5>1. s \in Slots /\ jc[s].num \in Inums \cup {None}
          BY DEF Table, Pointed, Slotted, IcacheType
        <5> QED
          BY <1>1, <3>2, <4>1, <5>1 DEF FtableType
      <4>4. Table(ic2, lc2, ft2, dirLost) /\ \A t \in Slots : ic2[t].num = jc[t].num
        <5>1. /\ Table(jc, lc, ftable, dirLost) /\ p \in Procs /\ lc[p].at = "inode"
              /\ s = lc[p].ip /\ f \in FileIds /\ ftable[f].ref = 0
          BY <3>1
        <5> QED
          BY ONLY <4>2, <4>3, <5>1, OpenTable
      <4> QED
        BY <4>1, <4>4
    <3>4. ftable'[f].ref = 1 /\ \A g \in FileIds \ {f} : ftable'[g] = ftable[g]
      BY <1>1, <3>1, <3>2 DEF FtableType
    <3>5. Descriptors' /\ filelist' \in [Procs -> [Fds -> FileIds \cup {None}]]
      BY <1>1, <2>1, <2>2, <3>1, <3>2, <3>4, OpenDescriptors, ZenonT(60)
    <3> QED
      BY <2>1, <2>2, <3>3, <3>5
  <2> QED
    BY <2>3, <2>4
<1> QED
  BY <1>2, <1>3

\* The state after such a return.
LEMMA ReturnedInv ==
  ASSUME TypeOK, Table(icache', loc', ftable', dirLost'), Descriptors', Directory', Links',
         filelist' \in [Procs -> [Fds -> FileIds \cup {None}]],
         entries' \in [Names -> Inums \cup {None}],
         inode' \in [Inums -> [type : {"unused", FILE, DIR}, nlink : Nat, empty : BOOLEAN]],
         ibits' \subseteq Inums, UNCHANGED <<state, dupLost, panicked>>
  PROVE  IInv'
<1>1. /\ icache' \in IcacheType /\ loc' \in LocType /\ ftable' \in FtableType
      /\ dirLost' \in [Inums -> Nat]
  BY DEF Table
<1>2. TypeOK'
  BY <1>1 DEF TypeOK, IcacheType, LocType, FtableType
<1>3. Table(icache, loc, ftable, dirLost)'
  OBVIOUS
<1> QED
  BY <1>2, <1>3 DEF IInv, Core

\* file_open() of an existing name.
LEMMA OpenEndStep ==
  ASSUME IInv, NEW p \in Procs, NEW write \in BOOLEAN, OpenEnd(p, write)
  PROVE  IInv'
<1>1. panicked = "no" /\ state[p] = "live" /\ loc[p].at = "inode" /\ At(p, "inode")
  BY DEF OpenEnd, At
<1>2. TypeOK /\ Table(icache, loc, ftable, dirLost) /\ Directory /\ Links
  BY <1>1, Facts
<1>3. CASE TypeAt(p) = DIR /\ write
  BY <1>1, <1>3, PutInodeStep DEF OpenEnd
<1>4. CASE ~(TypeAt(p) = DIR /\ write)
  <2>1. FileOpen(p, icache, loc[p].ip, Disk)
    BY <1>4 DEF OpenEnd
  <2>2. CASE ~IInv'
    <3>1. /\ Table(icache', loc', ftable', dirLost) /\ Descriptors'
          /\ filelist' \in [Procs -> [Fds -> FileIds \cup {None}]]
          /\ \A t \in Slots : icache'[t].num = icache[t].num
          /\ \A q \in Procs \ {p} : loc'[q] = loc[q]
          /\ loc'[p].at = "run" /\ SetDisk(Disk)
          /\ UNCHANGED <<state, dupLost, dirLost, panicked>>
      BY <1>1, <1>2, <2>1, <2>2, FileOpenStep
    <3>2. UNCHANGED <<entries, inode, ibits>>
      BY <3>1 DEF SetDisk, Disk
    <3>3. Directory' /\ Links'
      BY <1>1, <1>2, <3>1, <3>2, DirectoryKept
    <3>4. /\ entries' \in [Names -> Inums \cup {None}] /\ ibits' \subseteq Inums
          /\ inode' \in [Inums -> [type : {"unused", FILE, DIR}, nlink : Nat, empty : BOOLEAN]]
      BY <1>2, <3>2 DEF TypeOK
    <3> QED
      BY <1>2, <3>1, <3>3, <3>4, ReturnedInv
  <2> QED
    BY <2>2
<1> QED
  BY <1>3, <1>4

-----------------------------------------------------------------------------
(* Changes of the directory.                                               *)

\* A set of names with one more or one less.
LEMMA NameCounts ==
  ASSUME NEW S, S \subseteq Names, NEW n
  PROVE  /\ Cardinality(S) \in Nat
         /\ n \notin S => Cardinality(S \cup {n}) = Cardinality(S) + 1
         /\ n \in S => Cardinality(S \ {n}) = Cardinality(S) - 1
<1>1. IsFiniteSet(S)
  BY Finite, FS_Subset
<1> QED
  BY <1>1, FS_CardinalityType, FS_AddElement, FS_RemoveElement

\* No two calls hold the same inode, and none holds the root as its inode.
LEMMA SoleHolder ==
  ASSUME Table(icache, loc, ftable, dirLost), NEW p \in Procs, loc[p].at \in Slotted
  PROVE  /\ loc[p].ip \in Slots \ {0} /\ Num(p) \in Inums \ {Root}
         /\ \A q \in Procs : loc[q].at \in Slotted /\ Num(q) = Num(p) => q = p
<1>1. icache \in IcacheType /\ Placed(icache, dirLost) /\ Locked(icache, loc)
  BY DEF Table
<1>2. \A q \in Procs : loc[q].at \in Slotted =>
        loc[q].ip \in Slots \ {0} /\ icache[loc[q].ip].num # None /\ LocksIn(loc[q], loc[q].ip)
  BY DEF Table, Pointed, LocksIn, HoldsIn
<1>3. Num(p) \in Inums \ {Root}
  <2>1. icache[loc[p].ip].num \in Inums \cup {None}
    BY <1>1, <1>2 DEF IcacheType
  <2>2. icache[loc[p].ip].num # icache[0].num
    BY <1>1, <1>2, Sizes DEF Placed
  <2> QED
    BY <1>1, <1>2, <2>1, <2>2 DEF Num, Placed
<1>4. ASSUME NEW q \in Procs, loc[q].at \in Slotted, Num(q) = Num(p) PROVE q = p
  <2>1. loc[q].ip = loc[p].ip
    BY <1>1, <1>2, <1>4 DEF Num, Placed
  <2> QED
    BY <1>1, <1>2, <1>4, <2>1 DEF Locked
<1> QED
  BY <1>2, <1>3, <1>4

\* What the other calls hold stays, in a step of p that moves no inode.
LEMMA OthersKept ==
  ASSUME Table(icache, loc, ftable, dirLost), NEW p \in Procs,
         \A q \in Procs \ {p} : loc'[q] = loc[q],
         \A s \in Slots : icache'[s].num = icache[s].num
  PROVE  /\ \A q \in Procs \ {p} : loc[q].at \in Slotted => Num(q)' = Num(q)
         /\ \A j : Counting(j)' <=> \/ \E q \in Procs \ {p} : loc[q].at = "gone" /\ Num(q) = j
                                    \/ loc'[p].at = "gone" /\ icache'[loc'[p].ip].num = j
<1>1. \A q \in Procs \ {p} : loc[q].at \in Slotted => Num(q)' = Num(q)
  BY HeldKept DEF Num
<1>2. \A q \in Procs \ {p} : loc[q].at = "gone" => Num(q)' = Num(q)
  BY <1>1 DEF Slotted
<1>3. Num(p)' = icache'[loc'[p].ip].num
  BY DEF Num
<1> QED
  BY <1>1, <1>2, <1>3 DEF Counting

\* path_link() ends: both inodes are given back, and the name counts.
LEMMA LinkEndStep ==
  ASSUME IInv, NEW p \in Procs, NEW n \in Names, LinkEnd(p, n)
  PROVE  IInv'
<1>1. panicked = "no" /\ state[p] = "live" /\ loc[p].at = "dir"
  BY DEF LinkEnd, At
<1>2. /\ TypeOK /\ Core /\ Table(icache, loc, ftable, dirLost) /\ Directory /\ Links
      /\ Descriptors /\ loc \in LocType /\ icache \in IcacheType
  BY <1>1, Facts
<1>3. PICK ic \in IcacheType :
        /\ ic = UnlockFree(icache, RootSlot) /\ \A t \in Slots \ {0} : ic[t] = icache[t]
        /\ ic[0].num = icache[0].num /\ ic[0].ref = icache[0].ref - 1 /\ ~ic[0].slk
  BY <1>1, RootFreed
<1>4. /\ icache' = UnlockFree(ic, loc[p].ip) /\ Return(p)
      /\ UNCHANGED <<ibits, ftable, filelist, state, dupLost, dirLost, panicked>>
  BY <1>3 DEF LinkEnd, Open
<1>5. PICK lc \in LocType : lc = [loc EXCEPT ![p].at = "inode"]
  BY <1>2 DEF LocType, Waits
<1>6. lc[p].at = "inode" /\ lc[p].ip = loc[p].ip /\ \A q \in Procs \ {p} : lc[q] = loc[q]
  BY <1>2, <1>5 DEF LocType
<1>7. Table(ic, lc, ftable, dirLost)
  BY <1>1, <1>2, <1>3, <1>6, RootPut
<1>8. loc' \in LocType /\ loc'[p].at = "run" /\ \A q \in Procs \ {p} : loc'[q] = loc[q]
  BY <1>2, <1>4, Returned
<1>9. Table(icache', loc', ftable, dirLost) /\ \A t \in Slots : icache'[t].num = ic[t].num
  BY <1>4, <1>6, <1>7, <1>8, SlotFreed
<1>10. \A t \in Slots : icache'[t].num = icache[t].num
  BY <1>3, <1>9
<1>11. CASE entries[n] # None \/ Cardinality(InUse) >= DirMax
  <2>1. UNCHANGED <<entries, inode>>
    BY <1>11 DEF LinkEnd
  <2> QED
    BY <1>1, <1>2, <1>4, <1>8, <1>9, <1>10, <2>1, CallKept
<1>12. CASE ~(entries[n] # None \/ Cardinality(InUse) >= DirMax)
  <2>1. PICK i : i = Num(p)
    OBVIOUS
  <2>2. /\ entries' = [entries EXCEPT ![n] = i] /\ entries[n] = None
        /\ inode' = [inode EXCEPT ![i].nlink = @ + 1]
    BY <1>12, <2>1 DEF LinkEnd, Num
  <2>3. i \in Inums \ {Root, 2} /\ inode[i].type = FILE /\ i \in ibits
    <3>1. i \in Inums \ {Root} /\ loc[p].ip \in Slots /\ i # None
      BY <1>1, <1>2, <2>1, SoleHolder, Sizes DEF Slotted
    <3>2. inode[i].type = FILE /\ i \in ibits
      BY <1>1, <1>2, <2>1, <3>1 DEF Directory, Num
    <3> QED
      BY <1>2, <3>1, <3>2 DEF Directory, FILE, DIR
  <2>4. /\ entries \in [Names -> Inums \cup {None}] /\ ibits \subseteq Inums
        /\ inode \in [Inums -> [type : {"unused", FILE, DIR}, nlink : Nat, empty : BOOLEAN]]
    BY <1>2 DEF TypeOK
  <2>5. /\ entries' \in [Names -> Inums \cup {None}] /\ entries'[n] = i
        /\ \A m \in Names \ {n} : entries'[m] = entries[m]
    BY <2>2, <2>3, <2>4
  <2>6. /\ inode' \in [Inums -> [type : {"unused", FILE, DIR}, nlink : Nat, empty : BOOLEAN]]
        /\ inode'[i].nlink = inode[i].nlink + 1
        /\ \A j \in Inums \ {i} : inode'[j].nlink = inode[j].nlink
        /\ \A j \in Inums : inode'[j].type = inode[j].type /\ inode'[j].empty = inode[j].empty
    BY <2>2, <2>3, <2>4
  <2>7. /\ \A q \in Procs \ {p} : loc[q].at \in Slotted => Num(q)' = Num(q)
        /\ \A j : Counting(j)' <=> Counting(j)
    <3>1. \A j : Counting(j)' <=> \E q \in Procs \ {p} : loc[q].at = "gone" /\ Num(q) = j
      BY <1>2, <1>8, <1>10, OthersKept
    <3> QED
      BY <1>1, <1>2, <1>8, <1>10, <3>1, OthersKept DEF Counting
  <2>8. Directory'
    <3>1. ASSUME NEW q \in Procs \ {p}
          PROVE  /\ loc[q].at = "dir" => inode'[Num(q)'].type = FILE
                 /\ loc[q].at = "both" => loc[q].name \in Names /\ entries'[loc[q].name] = Num(q)'
                 /\ loc[q].at = "gone" => Num(q)' # 2
      <4>1. loc[q].at \in Slotted => Num(q) \in Inums
        BY <1>2, SoleHolder
      <4> QED
        BY <1>2, <2>2, <2>5, <2>6, <2>7, <4>1, Sizes DEF Directory, Slotted
    <3>2. \A q \in Procs : /\ loc'[q].at = "dir" => inode'[Num(q)'].type = FILE
                           /\ loc'[q].at = "both" =>
                                loc'[q].name \in Names /\ entries'[loc'[q].name] = Num(q)'
                           /\ loc'[q].at = "gone" => Num(q)' # 2
      BY <1>8, <3>1
    <3>3. \A m \in Names : entries'[m] = None \/ entries'[m] \in ibits \ {Root}
      BY <1>2, <2>3, <2>5 DEF Directory
    <3>4. \A s \in Slots : icache'[s].num = None \/ icache'[s].num \in ibits
      BY <1>2, <1>10 DEF Directory
    <3>5. /\ {Root, 2} \subseteq ibits /\ \A j \in ibits : inode'[j].type # "unused"
          /\ inode'[2].type = DIR /\ ~inode'[2].empty
      BY <1>2, <2>4, <2>6, Sizes DEF Directory
    <3> QED
      BY <1>4, <3>2, <3>3, <3>4, <3>5 DEF Directory
  <2>9. Links'
    <3>1. NamesOf(i)' = NamesOf(i) \cup {n} /\ n \notin NamesOf(i) /\ NamesOf(i) \subseteq Names
      BY <2>2, <2>3, <2>5, Sizes DEF NamesOf
    <3>2. \A j \in Inums \ {i} : NamesOf(j)' = NamesOf(j)
      BY <2>2, <2>5, Sizes DEF NamesOf
    <3>3. Cardinality(NamesOf(i)') = Cardinality(NamesOf(i)) + 1 /\ Cardinality(NamesOf(i)) \in Nat
      BY <3>1, NameCounts
    <3>4. SubDirs' = SubDirs
      <4>1. ASSUME NEW m \in Names
            PROVE  entries'[m] \notin {None, 2} /\ inode'[entries'[m]].type = DIR
                     <=> entries[m] \notin {None, 2} /\ inode[entries[m]].type = DIR
        <5>1. CASE m = n
          BY <2>2, <2>3, <2>5, <2>6, <5>1 DEF FILE, DIR
        <5>2. CASE m # n
          BY <2>4, <2>5, <2>6, <5>2
        <5> QED
          BY <5>1, <5>2
      <4> QED
        BY <4>1 DEF SubDirs
    <3>5. inode'[Root].nlink = inode[Root].nlink
      BY <2>3, <2>6, Sizes
    <3>6. inode[i].nlink = Cardinality(NamesOf(i)) + One(Counting(i)) /\ One(Counting(i)) \in Nat
      BY <1>2, <2>3 DEF Links, One
    <3>7. ASSUME NEW j \in Inums \ {Root, 2}
          PROVE  inode'[j].nlink = Cardinality(NamesOf(j)') + One(Counting(j)')
      <4>1. CASE j = i
        BY <2>6, <2>7, <3>3, <3>6, <4>1 DEF One
      <4>2. CASE j # i
        BY <1>2, <2>6, <2>7, <3>2, <4>2 DEF Links, One
      <4> QED
        BY <4>1, <4>2
    <3> QED
      BY <1>2, <3>4, <3>5, <3>7 DEF Links
  <2>10. Descriptors'
    BY <1>1, <1>2, <1>4, <1>8, DescriptorsKept
  <2>11. filelist' \in [Procs -> [Fds -> FileIds \cup {None}]]
    BY <1>2, <1>4 DEF TypeOK
  <2> QED
    BY <1>2, <1>4, <1>9, <2>4, <2>5, <2>6, <2>8, <2>9, <2>10, <2>11, ReturnedInv
<1> QED
  BY <1>11, <1>12

\* path_unlink() counts the name off and gives the inode back.
LEMMA UnlinkEndStep ==
  ASSUME IInv, NEW p \in Procs, UnlinkEnd(p)
  PROVE  IInv'
<1>1. panicked = "no" /\ state[p] = "live" /\ loc[p].at = "gone"
  BY DEF UnlinkEnd, At
<1>2. /\ TypeOK /\ Core /\ Table(icache, loc, ftable, dirLost) /\ Directory /\ Links
      /\ Descriptors /\ loc \in LocType
  BY <1>1, Facts
<1>3. PICK i : i = Num(p)
  OBVIOUS
<1>4. PICK in : in = [inode EXCEPT ![i].nlink = @ - 1]
  OBVIOUS
<1>5. CASE Destroys(icache, loc[p].ip, in)
  BY <1>3, <1>4, <1>5, PanicStep DEF UnlinkEnd, Num
<1>6. CASE ~Destroys(icache, loc[p].ip, in)
  <2>1. /\ inode' = in /\ icache' = UnlockFree(icache, loc[p].ip) /\ Return(p)
        /\ UNCHANGED <<entries, ibits, ftable, filelist, state, dupLost, dirLost, panicked>>
    BY <1>3, <1>4, <1>6 DEF UnlinkEnd, Num, Open
  <2>2. i \in Inums \ {Root, 2}
    BY <1>1, <1>2, <1>3, SoleHolder DEF Directory, Slotted
  <2>3. loc' \in LocType /\ loc'[p].at = "run" /\ \A q \in Procs \ {p} : loc'[q] = loc[q]
    BY <1>2, <2>1, Returned
  <2>4. Table(icache', loc', ftable, dirLost) /\ \A t \in Slots : icache'[t].num = icache[t].num
    BY <1>1, <1>2, <2>1, <2>3, SlotFreed
  <2>5. /\ \A q \in Procs \ {p} : loc[q].at \in Slotted => Num(q)' = Num(q)
        /\ Counting(i) /\ ~Counting(i)' /\ \A j : j # i => (Counting(j)' <=> Counting(j))
    <3>1. \A j : Counting(j)' <=> \E q \in Procs \ {p} : loc[q].at = "gone" /\ Num(q) = j
      BY <1>2, <2>3, <2>4, OthersKept
    <3>2. \A q \in Procs \ {p} : ~(loc[q].at = "gone" /\ Num(q) = i)
      BY <1>1, <1>2, <1>3, SoleHolder DEF Slotted
    <3> QED
      BY <1>1, <1>2, <1>3, <2>3, <2>4, <3>1, <3>2, OthersKept DEF Counting
  <2>6. inode \in [Inums -> [type : {"unused", FILE, DIR}, nlink : Nat, empty : BOOLEAN]]
    BY <1>2 DEF TypeOK
  <2>7. inode[i].nlink = Cardinality(NamesOf(i)) + 1 /\ Cardinality(NamesOf(i)) \in Nat
    <3>1. NamesOf(i) \subseteq Names
      BY DEF NamesOf
    <3> QED
      BY <1>2, <2>2, <2>5, <3>1, NameCounts DEF Links, One
  <2>8. /\ inode' \in [Inums -> [type : {"unused", FILE, DIR}, nlink : Nat, empty : BOOLEAN]]
        /\ inode'[i].nlink = inode[i].nlink - 1
        /\ \A j \in Inums \ {i} : inode'[j].nlink = inode[j].nlink
        /\ \A j \in Inums : inode'[j].type = inode[j].type /\ inode'[j].empty = inode[j].empty
    BY <1>4, <2>1, <2>2, <2>6, <2>7
  <2>9. Directory'
    <3>1. ASSUME NEW q \in Procs \ {p}
          PROVE  /\ loc[q].at = "dir" => inode'[Num(q)'].type = FILE
                 /\ loc[q].at = "both" => loc[q].name \in Names /\ entries'[loc[q].name] = Num(q)'
                 /\ loc[q].at = "gone" => Num(q)' # 2
      <4>1. loc[q].at \in Slotted => Num(q) \in Inums
        BY <1>2, SoleHolder
      <4> QED
        BY <1>2, <2>1, <2>5, <2>8, <4>1, Sizes DEF Directory, Slotted
    <3>2. \A q \in Procs : /\ loc'[q].at = "dir" => inode'[Num(q)'].type = FILE
                           /\ loc'[q].at = "both" =>
                                loc'[q].name \in Names /\ entries'[loc'[q].name] = Num(q)'
                           /\ loc'[q].at = "gone" => Num(q)' # 2
      BY <2>3, <3>1
    <3>3. ibits \subseteq Inums
      BY <1>2 DEF TypeOK
    <3> QED
      BY <1>2, <2>1, <2>4, <2>8, <3>2, <3>3, Sizes DEF Directory
  <2>10. Links'
    <3>1. \A j \in Inums : NamesOf(j)' = NamesOf(j)
      BY <2>1 DEF NamesOf
    <3>2. SubDirs' = SubDirs
      <4>1. entries \in [Names -> Inums \cup {None}]
        BY <1>2 DEF TypeOK
      <4> QED
        BY <2>1, <2>8, <4>1 DEF SubDirs
    <3>3. inode'[Root].nlink = inode[Root].nlink
      BY <2>2, <2>8, Sizes
    <3>4. ASSUME NEW j \in Inums \ {Root, 2}
          PROVE  inode'[j].nlink = Cardinality(NamesOf(j)') + One(Counting(j)')
      <4>1. CASE j = i
        BY <2>5, <2>7, <2>8, <3>1, <4>1 DEF One
      <4>2. CASE j # i
        BY <1>2, <2>5, <2>8, <3>1, <4>2 DEF Links, One
      <4> QED
        BY <4>1, <4>2
    <3> QED
      BY <1>2, <3>2, <3>3, <3>4 DEF Links
  <2>11. Descriptors'
    BY <1>1, <1>2, <2>1, <2>3, DescriptorsKept
  <2>12. /\ filelist' \in [Procs -> [Fds -> FileIds \cup {None}]]
         /\ entries' \in [Names -> Inums \cup {None}] /\ ibits' \subseteq Inums
    BY <1>2, <2>1 DEF TypeOK
  <2> QED
    BY <1>2, <2>1, <2>4, <2>8, <2>9, <2>10, <2>11, <2>12, ReturnedInv
<1> QED
  BY <1>5, <1>6

\* path_unlink() refuses the name, or deletes it and gives the root back.
LEMMA UnlinkNameStep ==
  ASSUME IInv, NEW p \in Procs, UnlinkName(p)
  PROVE  IInv'
<1>1. panicked = "no" /\ state[p] = "live" /\ loc[p].at = "both"
  BY DEF UnlinkName, At
<1>2. /\ TypeOK /\ Core /\ Table(icache, loc, ftable, dirLost) /\ Directory /\ Links
      /\ Descriptors /\ loc \in LocType
  BY <1>1, Facts
<1>3. PICK ic \in IcacheType :
        /\ ic = UnlockFree(icache, RootSlot) /\ \A t \in Slots \ {0} : ic[t] = icache[t]
        /\ ic[0].num = icache[0].num /\ ic[0].ref = icache[0].ref - 1 /\ ~ic[0].slk
  BY <1>1, RootFreed
<1>4. PICK i : i = Num(p)
  OBVIOUS
<1>5. UNCHANGED <<ibits, ftable, filelist, state, dupLost, dirLost, panicked>>
  BY DEF UnlinkName, Open, Disk
<1>6. i \in Inums \ {Root} /\ \A q \in Procs \ {p} : loc[q].at \in Slotted => Num(q) # i
  BY <1>1, <1>2, <1>4, SoleHolder DEF Slotted
<1>7. CASE inode[i].type = DIR /\ ~inode[i].empty
  <2>1. /\ icache' = UnlockFree(ic, loc[p].ip) /\ Return(p)
        /\ UNCHANGED <<entries, inode>>
    BY <1>3, <1>4, <1>7 DEF UnlinkName, Num, Disk
  <2>2. PICK lc \in LocType : lc = [loc EXCEPT ![p].at = "inode"]
    BY <1>2 DEF LocType, Waits
  <2>3. lc[p].at = "inode" /\ lc[p].ip = loc[p].ip /\ \A q \in Procs \ {p} : lc[q] = loc[q]
    BY <1>2, <2>2 DEF LocType
  <2>4. Table(ic, lc, ftable, dirLost)
    BY <1>1, <1>2, <1>3, <2>3, RootPut
  <2>5. loc' \in LocType /\ loc'[p].at = "run" /\ \A q \in Procs \ {p} : loc'[q] = loc[q]
    BY <1>2, <2>1, Returned
  <2>6. Table(icache', loc', ftable, dirLost) /\ \A t \in Slots : icache'[t].num = ic[t].num
    BY <2>1, <2>3, <2>4, <2>5, SlotFreed
  <2>7. \A t \in Slots : icache'[t].num = icache[t].num
    BY <1>3, <2>6
  <2> QED
    BY <1>1, <1>2, <1>5, <2>1, <2>5, <2>6, <2>7, CallKept
<1>8. CASE ~(inode[i].type = DIR /\ ~inode[i].empty)
  <2>1. PICK n \in Names : n = loc[p].name /\ entries[n] = i
    BY <1>1, <1>2, <1>4 DEF Directory
  <2>2. /\ entries' = [entries EXCEPT ![n] = None]
        /\ inode' = IF inode[i].type = DIR THEN [inode EXCEPT ![Root].nlink = @ - 1] ELSE inode
        /\ icache' = ic
        /\ loc' = [loc EXCEPT ![p].at = "gone", ![p].name = "none"]
    BY <1>3, <1>4, <1>8, <2>1 DEF UnlinkName, Num
  <2>3. i # 2 /\ {Root, i} \subseteq Inums
    BY <1>2, <1>6, <1>8, Sizes DEF Directory
  <2>4. /\ loc' \in LocType /\ loc'[p].at = "gone" /\ loc'[p].ip = loc[p].ip
        /\ \A q \in Procs \ {p} : loc'[q] = loc[q]
    <3>1. PICK lc \in LocType : lc = [loc EXCEPT ![p].at = "gone"]
      BY <1>2 DEF LocType, Waits
    <3>2. loc' = [lc EXCEPT ![p].name = "none"]
      BY <1>2, <2>2, <3>1 DEF LocType
    <3>3. loc' \in LocType
      BY <3>2 DEF LocType
    <3> QED
      BY <1>2, <2>2, <3>3 DEF LocType
  <2>5. Table(icache', loc', ftable, dirLost)
    <3>1. PICK lc \in LocType : lc = loc'
      BY <2>4
    <3>2. lc[p].at = "gone" /\ lc[p].ip = loc[p].ip /\ \A q \in Procs \ {p} : lc[q] = loc[q]
      BY <2>4, <3>1
    <3>3. Table(ic, lc, ftable, dirLost)
      BY <1>1, <1>2, <1>3, <3>2, RootPut
    <3> QED
      BY <2>2, <3>1, <3>3
  <2>6. \A t \in Slots : icache'[t].num = icache[t].num
    BY <1>3, <2>2
  <2>7. /\ \A q \in Procs \ {p} : loc[q].at \in Slotted => Num(q)' = Num(q)
        /\ Num(p)' = i /\ ~Counting(i) /\ Counting(i)'
        /\ \A j : j # i => (Counting(j)' <=> Counting(j))
    <3>1. Num(p)' = i
      <4>1. loc[p].ip \in Slots
        BY <1>1, <1>2, SoleHolder DEF Slotted
      <4> QED
        BY <1>4, <2>4, <2>6, <4>1 DEF Num
    <3>2. \A j : Counting(j)' <=> (\E q \in Procs \ {p} : loc[q].at = "gone" /\ Num(q) = j) \/ j = i
      BY <1>2, <2>4, <2>6, <3>1, OthersKept DEF Num
    <3>3. ~\E q \in Procs : loc[q].at = "gone" /\ Num(q) = i
      BY <1>1, <1>6 DEF Slotted
    <3> QED
      BY <1>1, <1>2, <2>4, <2>6, <3>1, <3>2, <3>3, OthersKept DEF Counting
  <2>8. /\ entries \in [Names -> Inums \cup {None}] /\ ibits \subseteq Inums
        /\ inode \in [Inums -> [type : {"unused", FILE, DIR}, nlink : Nat, empty : BOOLEAN]]
    BY <1>2 DEF TypeOK
  <2>9. /\ entries' \in [Names -> Inums \cup {None}] /\ entries'[n] = None
        /\ \A m \in Names \ {n} : entries'[m] = entries[m]
    BY <2>2, <2>8
  <2>10. /\ SubDirs \subseteq Names /\ Cardinality(SubDirs) \in Nat
         /\ inode[Root].nlink = 1 + Cardinality(SubDirs)
         /\ inode[i].type = DIR => n \in SubDirs /\ Cardinality(SubDirs \ {n}) = Cardinality(SubDirs) - 1
    <3>1. SubDirs \subseteq Names /\ (inode[i].type = DIR => n \in SubDirs)
      BY <1>6, <2>1, <2>3, Sizes DEF SubDirs
    <3> QED
      BY <1>2, <3>1, NameCounts DEF Links
  <2>11. /\ inode' \in [Inums -> [type : {"unused", FILE, DIR}, nlink : Nat, empty : BOOLEAN]]
         /\ \A j \in Inums \ {Root} : inode'[j].nlink = inode[j].nlink
         /\ \A j \in Inums : inode'[j].type = inode[j].type /\ inode'[j].empty = inode[j].empty
         /\ inode'[Root].nlink = inode[Root].nlink - One(inode[i].type = DIR)
    <3>1. CASE inode[i].type = DIR
      <4>1. inode[Root].nlink - 1 \in Nat
        <5>1. IsFiniteSet(SubDirs \ {n})
          BY <2>10, Finite, FS_Subset
        <5>2. Cardinality(SubDirs \ {n}) \in Nat
          BY <5>1, FS_CardinalityType
        <5> QED
          BY <2>10, <3>1, <5>2
      <4> QED
        BY <2>2, <2>3, <2>8, <3>1, <4>1 DEF One
    <3>2. CASE inode[i].type # DIR
      BY <2>2, <2>3, <2>8, <3>2 DEF One
    <3> QED
      BY <3>1, <3>2
  <2>12. Directory'
    <3>1. ASSUME NEW q \in Procs \ {p}
          PROVE  /\ loc[q].at = "dir" => inode'[Num(q)'].type = FILE
                 /\ loc[q].at = "both" => loc[q].name \in Names /\ entries'[loc[q].name] = Num(q)'
                 /\ loc[q].at = "gone" => Num(q)' # 2
      <4>1. loc[q].at \in Slotted => Num(q) \in Inums /\ Num(q) # i
        BY <1>2, <1>6, SoleHolder
      <4>2. loc[q].at = "both" => loc[q].name \in Names \ {n} /\ entries[loc[q].name] = Num(q)
        BY <1>2, <2>1, <4>1 DEF Directory, Slotted
      <4>3. loc[q].at = "dir" => inode[Num(q)].type = FILE
        BY <1>2 DEF Directory
      <4>4. loc[q].at = "gone" => Num(q) # 2
        BY <1>2 DEF Directory
      <4> QED
        BY <2>7, <2>9, <2>11, <4>1, <4>2, <4>3, <4>4 DEF Slotted
    <3>2. \A q \in Procs : /\ loc'[q].at = "dir" => inode'[Num(q)'].type = FILE
                           /\ loc'[q].at = "both" =>
                                loc'[q].name \in Names /\ entries'[loc'[q].name] = Num(q)'
                           /\ loc'[q].at = "gone" => Num(q)' # 2
      BY <2>3, <2>4, <2>7, <3>1
    <3>3. \A m \in Names : entries'[m] = None \/ entries'[m] \in ibits \ {Root}
      BY <1>2, <2>9 DEF Directory
    <3>4. \A s \in Slots : icache'[s].num = None \/ icache'[s].num \in ibits
      BY <1>2, <2>6 DEF Directory
    <3>5. /\ {Root, 2} \subseteq ibits /\ \A j \in ibits : inode'[j].type # "unused"
          /\ inode'[2].type = DIR /\ ~inode'[2].empty
      BY <1>2, <2>8, <2>11, Sizes DEF Directory
    <3> QED
      BY <1>5, <3>2, <3>3, <3>4, <3>5 DEF Directory
  <2>13. Links'
    <3>1. NamesOf(i)' = NamesOf(i) \ {n} /\ n \in NamesOf(i) /\ NamesOf(i) \subseteq Names
      BY <1>6, <2>1, <2>9, Sizes DEF NamesOf
    <3>2. \A j \in Inums \ {i} : NamesOf(j)' = NamesOf(j)
      BY <2>1, <2>9, Sizes DEF NamesOf
    <3>3. Cardinality(NamesOf(i)') = Cardinality(NamesOf(i)) - 1 /\ Cardinality(NamesOf(i)) \in Nat
      BY <3>1, NameCounts
    <3>4. SubDirs' = SubDirs \ {n}
      <4>1. ASSUME NEW m \in Names
            PROVE  entries'[m] \notin {None, 2} /\ inode'[entries'[m]].type = DIR
                     <=> entries[m] \notin {None, 2} /\ inode[entries[m]].type = DIR /\ m # n
        <5>1. CASE m = n
          BY <2>9, <5>1
        <5>2. CASE m # n
          BY <2>8, <2>9, <2>11, <5>2
        <5> QED
          BY <5>1, <5>2
      <4> QED
        BY <4>1 DEF SubDirs
    <3>5. inode'[Root].nlink = 1 + Cardinality(SubDirs')
      <4>1. CASE inode[i].type = DIR
        BY <2>10, <2>11, <3>4, <4>1 DEF One
      <4>2. CASE inode[i].type # DIR
        <5>1. SubDirs' = SubDirs
          <6>1. n \notin SubDirs
            BY <2>1, <4>2 DEF SubDirs
          <6> QED
            BY <3>4, <6>1
        <5>2. One(inode[i].type = DIR) = 0
          BY <4>2 DEF One
        <5> QED
          BY <2>10, <2>11, <5>1, <5>2
      <4> QED
        BY <4>1, <4>2
    <3>6. inode[i].nlink = Cardinality(NamesOf(i)) + One(Counting(i))
      BY <1>2, <1>6, <2>3 DEF Links
    <3>7. ASSUME NEW j \in Inums \ {Root, 2}
          PROVE  inode'[j].nlink = Cardinality(NamesOf(j)') + One(Counting(j)')
      <4>1. CASE j = i
        BY <2>7, <2>11, <3>3, <3>6, <4>1 DEF One
      <4>2. CASE j # i
        BY <1>2, <2>7, <2>11, <3>2, <4>2 DEF Links, One
      <4> QED
        BY <4>1, <4>2
    <3> QED
      BY <3>5, <3>7 DEF Links
  <2>14. Descriptors'
    BY <1>1, <1>2, <1>5, <2>4, DescriptorsKept
  <2>15. filelist' \in [Procs -> [Fds -> FileIds \cup {None}]]
    BY <1>2, <1>5 DEF TypeOK
  <2> QED
    BY <1>2, <1>5, <2>5, <2>8, <2>9, <2>11, <2>12, <2>13, <2>14, <2>15, ReturnedInv
<1> QED
  BY <1>7, <1>8

\* path_create_inode() on the disk: the new inode i has its one name, and the
\* root counts it when it is a directory.
LEMMA CreateDisk ==
  ASSUME TypeOK, Table(icache, loc, ftable, dirLost), Directory, Links, NEW p \in Procs,
         loc[p].at = "lookup", loc'[p].at = "run", \A q \in Procs \ {p} : loc'[q] = loc[q],
         NEW n \in Names, entries[n] = None, NEW i \in Inums \ ibits, NEW type \in {FILE, DIR},
         entries' = [entries EXCEPT ![n] = i], ibits' = ibits \cup {i},
         inode'[i].type = type, inode'[i].nlink = 1,
         inode'[Root].nlink = inode[Root].nlink + One(type = DIR),
         \A j \in Inums \ {i} : inode'[j].type = inode[j].type /\ inode'[j].empty = inode[j].empty,
         \A j \in Inums \ {i, Root} : inode'[j].nlink = inode[j].nlink,
         \A s \in Slots : \/ icache'[s].num = icache[s].num
                          \/ icache[s].ref = 0 /\ icache'[s].num = i
  PROVE  Directory' /\ Links'
<1>1. entries \in [Names -> Inums \cup {None}] /\ ibits \subseteq Inums
  BY DEF TypeOK
<1>2. i \notin {None, Root, 2} /\ {Root, 2} \subseteq Inums
  BY Sizes DEF Directory
<1>3. entries'[n] = i /\ \A m \in Names \ {n} : entries'[m] = entries[m]
  BY <1>1
<1>4. \A q \in Procs \ {p} : loc[q].at \in Slotted => Num(q)' = Num(q) /\ Num(q) \in ibits
  <2>1. \A q \in Procs \ {p} : loc[q].at \in Slotted => Num(q)' = Num(q)
    BY HeldKept DEF Num
  <2>2. \A q \in Procs : loc[q].at \in Slotted => Num(q) \in ibits
    BY DEF Table, Pointed, Directory, Num
  <2> QED
    BY <2>1, <2>2
<1>5. \A j : Counting(j)' <=> Counting(j)
  BY <1>4 DEF Counting, Slotted
<1>6. ~Counting(i)
  BY <1>4 DEF Counting, Slotted
<1>7. Directory'
  <2>1. ASSUME NEW q \in Procs
        PROVE  /\ loc'[q].at = "dir" => inode'[Num(q)'].type = FILE
               /\ loc'[q].at = "both" => loc'[q].name \in Names /\ entries'[loc'[q].name] = Num(q)'
               /\ loc'[q].at = "gone" => Num(q)' # 2
    <3>1. CASE q = p
      BY <3>1
    <3>2. CASE q # p
      <4>1. loc[q].at \in Slotted => Num(q)' = Num(q) /\ Num(q) \in Inums \ {i} /\ Num(q) # None
        <5>1. loc[q].at \in Slotted => Num(q)' = Num(q) /\ Num(q) \in ibits
          BY <1>4, <3>2
        <5>2. \A j \in ibits : j \in Inums \ {i} /\ j # None
          BY <1>1, Sizes
        <5> QED
          BY <5>1, <5>2
      <4>2. loc'[q] = loc[q]
        BY <3>2
      <4>3. loc[q].at = "both" => loc[q].name \in Names \ {n} /\ entries[loc[q].name] = Num(q)
        BY <4>1 DEF Directory, Slotted
      <4>4. loc[q].at = "dir" => inode[Num(q)].type = FILE
        BY DEF Directory
      <4>5. loc[q].at = "gone" => Num(q) # 2
        BY DEF Directory
      <4> QED
        BY <1>3, <4>1, <4>2, <4>3, <4>4, <4>5 DEF Slotted
    <3> QED
      BY <3>1, <3>2
  <2>2. \A m \in Names : entries'[m] = None \/ entries'[m] \in ibits' \ {Root}
    BY <1>2, <1>3 DEF Directory
  <2>3. \A s \in Slots : icache'[s].num = None \/ icache'[s].num \in ibits'
    BY DEF Directory
  <2>4. /\ {Root, 2} \subseteq ibits' /\ \A j \in ibits' : inode'[j].type # "unused"
        /\ inode'[2].type = DIR /\ ~inode'[2].empty
    BY <1>1, <1>2 DEF Directory, FILE, DIR
  <2> QED
    BY <2>1, <2>2, <2>3, <2>4 DEF Directory
<1>8. Cardinality(NamesOf(i)') = 1
  <2>1. NamesOf(i)' = {n}
    BY <1>1, <1>2, <1>3 DEF NamesOf, Directory
  <2>2. Cardinality({n}) = 1
    BY FS_Singleton
  <2> QED
    BY <2>1, <2>2, Zenon
<1>9. \A j \in Inums \ {i} : NamesOf(j)' = NamesOf(j)
  BY <1>3, Sizes DEF NamesOf
<1>10. inode'[Root].nlink = 1 + Cardinality(SubDirs')
  <2>1. inode[Root].nlink = 1 + Cardinality(SubDirs)
    BY DEF Links
  <2>2. ASSUME NEW m \in Names
        PROVE  entries'[m] \notin {None, 2} /\ inode'[entries'[m]].type = DIR
                 <=> \/ entries[m] \notin {None, 2} /\ inode[entries[m]].type = DIR
                     \/ m = n /\ type = DIR
    <3>1. CASE m = n
      BY <1>2, <1>3, <3>1
    <3>2. CASE m # n
      <4>1. entries[m] = None \/ entries[m] \in Inums \ {i}
        BY <1>1, <3>2 DEF Directory
      <4> QED
        BY <1>3, <3>2, <4>1
    <3> QED
      BY <3>1, <3>2
  <2>3. SubDirs \subseteq Names /\ n \notin SubDirs
    BY DEF SubDirs
  <2>4. /\ Cardinality(SubDirs) \in Nat
        /\ Cardinality(SubDirs \cup {n}) = Cardinality(SubDirs) + 1
    BY <2>3, NameCounts
  <2>5. CASE type = DIR
    <3>1. SubDirs' = SubDirs \cup {n}
      BY <2>2, <2>5 DEF SubDirs
    <3>2. Cardinality(SubDirs') = Cardinality(SubDirs) + 1
      BY <2>4, <3>1
    <3> QED
      BY <2>1, <2>4, <2>5, <3>2 DEF One
  <2>6. CASE type # DIR
    <3>1. SubDirs' = SubDirs
      BY <2>2, <2>6 DEF SubDirs
    <3>2. One(type = DIR) = 0
      BY <2>6 DEF One
    <3> QED
      BY <2>1, <2>4, <3>1, <3>2
  <2> QED
    BY <2>5, <2>6
<1>11. ASSUME NEW j \in Inums \ {Root, 2}
       PROVE  inode'[j].nlink = Cardinality(NamesOf(j)') + One(Counting(j)')
  <2>1. CASE j = i
    BY <1>5, <1>6, <1>8, <2>1 DEF One
  <2>2. CASE j # i
    BY <1>5, <1>9, <2>2 DEF Links, One
  <2> QED
    BY <2>1, <2>2
<1> QED
  BY <1>7, <1>10, <1>11 DEF Links

\* path_create_inode() in the inode table: the new inode i gets a free slot s,
\* its lock and a reference, and the root is given back.  The table then is jc,
\* with p in a wait in which it holds s.
LEMMA CreateTable ==
  ASSUME IInv, panicked = "no", NEW p \in Procs, loc[p].at = "lookup",
         NEW i \in Inums \ ibits, CanAlloc(icache, i), NEW s, s = SlotFor(icache, i),
         NEW ic, ic = UnlockFree(InodeAlloc(icache, i), RootSlot)
  PROVE  /\ s \in Slots \ {0} /\ icache[s].ref = 0 /\ ic \in IcacheType
         /\ ic[s].num = i /\ ~ic[s].slk
         /\ \A t \in Slots \ {s} : ic[t].num = icache[t].num
         /\ \E lc \in LocType :
              /\ Table(Lock(ic, s), lc, ftable, dirLost)
              /\ lc[p].at = "inode" /\ lc[p].ip = s /\ \A q \in Procs \ {p} : lc[q] = loc[q]
<1>1. /\ Table(icache, loc, ftable, dirLost) /\ Directory /\ icache \in IcacheType
      /\ loc \in LocType /\ RootSlot = 0
  BY Facts
<1>2. i # Root /\ i # None /\ \A t \in Slots : icache[t].num # i
  BY <1>1, Sizes DEF Directory
<1>3. PICK jc \in IcacheType :
        /\ jc = InodeAlloc(icache, i) /\ s \in Slots /\ jc[s].num = i /\ jc[s].slk = icache[s].slk
        /\ \A t \in Slots \ {s} : jc[t] = icache[t]
        /\ icache[s].ref = 0 /\ jc[s].ref = 1
  <2>1. /\ s \in Slots /\ InodeAlloc(icache, i) \in IcacheType
        /\ \A t \in Slots \ {s} : InodeAlloc(icache, i)[t] = icache[t]
        /\ InodeAlloc(icache, i)[s].num = i /\ InodeAlloc(icache, i)[s].slk = icache[s].slk
        /\ \/ icache[s].num = i
           \/ icache[s].ref = 0 /\ InodeAlloc(icache, i)[s].ref = 1
    BY <1>1, AllocOps
  <2> QED
    BY <1>2, <2>1
<1>4. /\ \A t \in Slots : icache[t].slk \/ t = 0 => icache[t].ref > 0
      /\ icache[0].ref > 0 /\ 0 \in Slots
  BY <1>1, HeldCounted, Sizes
<1>5. s # 0 /\ ~icache[s].slk /\ ~jc[s].slk
  BY <1>3, <1>4
<1>6. /\ ic = UnlockFree(jc, 0) /\ ic \in IcacheType /\ \A t \in Slots \ {0} : ic[t] = jc[t]
      /\ ic[0].num = jc[0].num /\ ic[0].ref = jc[0].ref - 1 /\ ic[0].slk = FALSE
  <2>1. jc[0].ref > 0 /\ ic = UnlockFree(jc, 0)
    BY <1>1, <1>3, <1>4, <1>5
  <2>2. /\ \A t \in Slots \ {0} : UnlockFree(jc, 0)[t] = jc[t]
        /\ UnlockFree(jc, 0)[0].num = jc[0].num /\ UnlockFree(jc, 0)[0].ref = jc[0].ref - 1
        /\ UnlockFree(jc, 0)[0].slk = FALSE
        /\ UnlockFree(jc, 0) \in IcacheType
    BY <1>4, <2>1, UnlockFreeOps
  <2> QED
    BY <2>1, <2>2
<1>7. PICK kc \in IcacheType :
        /\ kc = Lock(jc, s) /\ \A t \in Slots \ {s} : kc[t] = jc[t]
        /\ kc[s].num = jc[s].num /\ kc[s].ref = jc[s].ref /\ kc[s].slk = TRUE
  BY <1>3, LockOps
<1>8. PICK mc \in IcacheType :
        /\ mc = Lock(ic, s) /\ \A t \in Slots \ {s} : mc[t] = ic[t]
        /\ mc[s].num = ic[s].num /\ mc[s].ref = ic[s].ref /\ mc[s].slk = TRUE
  BY <1>3, <1>6, LockOps
<1>9. mc[s] = kc[s]
  <2>1. ic[s] = jc[s]
    BY <1>3, <1>5, <1>6
  <2>2. mc[s] = [ic[s] EXCEPT !.slk = TRUE] /\ kc[s] = [jc[s] EXCEPT !.slk = TRUE]
    BY <1>3, <1>6, <1>7, <1>8 DEF Lock, IcacheType
  <2> QED
    BY <2>1, <2>2, Zenon
<1>10. PICK lc1 \in LocType :
         /\ lc1[p].at = "both" /\ lc1[p].ip = s /\ \A q \in Procs \ {p} : lc1[q] = loc[q]
  <2>1. PICK lc1 : lc1 = [loc EXCEPT ![p].at = "both", ![p].ip = s]
    OBVIOUS
  <2>2. lc1 \in LocType
    BY <1>1, <1>3, <2>1, LocMoved DEF Waits
  <2>3. lc1[p].at = "both" /\ lc1[p].ip = s /\ \A q \in Procs \ {p} : lc1[q] = loc[q]
    BY <1>1, <2>1 DEF LocType
  <2> QED
    BY <2>2, <2>3
<1>11. PICK lc2 \in LocType :
         /\ lc2[p].at = "inode" /\ lc2[p].ip = s /\ \A q \in Procs \ {p} : lc2[q] = loc[q]
  <2>1. PICK lc2 : lc2 = [loc EXCEPT ![p].at = "inode", ![p].ip = s]
    OBVIOUS
  <2>2. lc2 \in LocType
    BY <1>1, <1>3, <2>1, LocMoved DEF Waits
  <2>3. lc2[p].at = "inode" /\ lc2[p].ip = s /\ \A q \in Procs \ {p} : lc2[q] = loc[q]
    BY <1>1, <2>1 DEF LocType
  <2> QED
    BY <2>2, <2>3
<1>12. Table(kc, lc1, ftable, dirLost)
  <2>1. /\ i \in Inums \ {Root} /\ s \in Slots /\ loc[p].at \in {"run", "lookup"} /\ ~icache[s].slk
        /\ (\A t \in Slots : icache[t].num # i) /\ icache[s].ref = 0 /\ kc[s].ref = 1
        /\ kc[s].num = i /\ kc[s].slk /\ \A t \in Slots \ {s} : kc[t] = icache[t]
    BY <1>2, <1>3, <1>5, <1>7
  <2>2. lc1[p].at = IF loc[p].at = "run" THEN "inode" ELSE "both"
    BY <1>10
  <2> QED
    BY <1>1, <1>10, <2>1, <2>2, SlotGet
<1>13. Table(mc, lc2, ftable, dirLost)
  <2>1. /\ lc1[p].at \in {"lookup", "dir", "both"}
        /\ mc[0].num = kc[0].num /\ mc[0].ref = kc[0].ref - 1 /\ ~mc[0].slk
        /\ \A t \in Slots \ {0} : mc[t] = kc[t]
        /\ \A q \in Procs \ {p} : lc2[q] = lc1[q]
        /\ lc1[p].at = "lookup" => lc2[p].at = "run"
        /\ lc1[p].at # "lookup" => lc2[p].at \in {"inode", "gone"} /\ lc2[p].ip = lc1[p].ip
    BY <1>4, <1>5, <1>6, <1>7, <1>8, <1>9, <1>10, <1>11
  <2> QED
    BY <1>12, <2>1, RootPut
<1>14. \A t \in Slots \ {s} : ic[t].num = icache[t].num
  BY <1>3, <1>6
<1>15. ic[s].num = i /\ ~ic[s].slk
  BY <1>3, <1>5, <1>6
<1> QED
  BY <1>3, <1>5, <1>6, <1>8, <1>11, <1>13, <1>14, <1>15

\* path_create_inode() for sys_mkdir(), which keeps the reference it has got, and
\* for file_open(), which leaves it to the file.
LEMMA CreateEndStep ==
  ASSUME IInv, NEW p \in Procs, NEW n \in Names, NEW dir \in BOOLEAN, CreateEnd(p, n, dir)
  PROVE  IInv'
<1>1. /\ panicked = "no" /\ state[p] = "live" /\ loc[p].at = "lookup" /\ At(p, "lookup")
      /\ entries[n] = None
  BY DEF CreateEnd, At
<1>2. /\ TypeOK /\ Core /\ Table(icache, loc, ftable, dirLost) /\ Directory /\ Links
      /\ Descriptors /\ loc \in LocType /\ dirLost \in [Inums -> Nat] /\ ftable \in FtableType
  BY <1>1, Facts
<1>3. CASE FreeInums = {}
  BY <1>1, <1>3, RootReturn DEF CreateEnd
<1>4. CASE FreeInums # {}
  <2>1. PICK i \in Inums \ ibits : i = Min(FreeInums)
    <3>1. FreeInums \subseteq Nat
      BY Sizes DEF FreeInums
    <3> QED
      BY <1>4, <3>1, MinFound DEF FreeInums
  <2>2. PICK s, ic : s = SlotFor(icache, i) /\ ic = UnlockFree(InodeAlloc(icache, i), RootSlot)
    OBVIOUS
  <2>3. PICK in, dk :
          /\ in = IF dir THEN [NewInode(i, DIR) EXCEPT ![Root].nlink = @ + 1] ELSE NewInode(i, FILE)
          /\ dk = <<[entries EXCEPT ![n] = i], in, ibits \cup {i}>>
    OBVIOUS
  <2>4. \/ Panic("no inode") \/ Panic("no lock")
        \/ /\ CanAlloc(icache, i)
           /\ IF dir
              THEN /\ SetDisk(dk) /\ icache' = ic /\ Return(p)
                   /\ dirLost' = [dirLost EXCEPT ![i] = @ + 1]
                   /\ UNCHANGED <<Open, panicked>>
              ELSE FileOpen(p, Lock(ic, s), s, dk)
    BY <1>4, <2>1, <2>2, <2>3 DEF CreateEnd
  <2>5. CASE Panic("no inode") \/ Panic("no lock")
    BY <2>5, PanicStep
  <2>6. CASE ~(Panic("no inode") \/ Panic("no lock"))
    <3>1. CanAlloc(icache, i)
      BY <2>4, <2>6
    <3>2. PICK lc \in LocType :
            /\ s \in Slots \ {0} /\ icache[s].ref = 0 /\ ic \in IcacheType
            /\ ic[s].num = i /\ ~ic[s].slk
            /\ \A t \in Slots \ {s} : ic[t].num = icache[t].num
            /\ Table(Lock(ic, s), lc, ftable, dirLost)
            /\ lc[p].at = "inode" /\ lc[p].ip = s /\ \A q \in Procs \ {p} : lc[q] = loc[q]
      BY <1>1, <2>1, <2>2, <3>1, CreateTable
    <3>3. PICK mc \in IcacheType :
            /\ mc = Lock(ic, s) /\ \A t \in Slots \ {s} : mc[t] = ic[t]
            /\ mc[s].num = ic[s].num /\ mc[s].ref = ic[s].ref
      BY <3>2, LockOps
    <3>4. PICK type \in {FILE, DIR} : type = IF dir THEN DIR ELSE FILE
      BY DEF FILE, DIR
    <3>5. /\ entries \in [Names -> Inums \cup {None}] /\ ibits \subseteq Inums
          /\ inode \in [Inums -> [type : {"unused", FILE, DIR}, nlink : Nat, empty : BOOLEAN]]
          /\ i # Root /\ Root \in Inums
      BY <1>2, Sizes DEF TypeOK, Directory
    <3>6. /\ in \in [Inums -> [type : {"unused", FILE, DIR}, nlink : Nat, empty : BOOLEAN]]
          /\ in[i].type = type /\ in[i].nlink = 1
          /\ in[Root].nlink = inode[Root].nlink + One(type = DIR)
          /\ \A j \in Inums \ {i} : in[j].type = inode[j].type /\ in[j].empty = inode[j].empty
          /\ \A j \in Inums \ {i, Root} : in[j].nlink = inode[j].nlink
      <4>1. PICK jn : jn = NewInode(i, type)
        OBVIOUS
      <4>2. /\ jn \in [Inums -> [type : {"unused", FILE, DIR}, nlink : Nat, empty : BOOLEAN]]
            /\ jn[i].type = type /\ jn[i].nlink = 1
            /\ \A j \in Inums \ {i} : jn[j] = inode[j]
        BY <3>5, <4>1 DEF NewInode
      <4>3. CASE dir
        <5>1. type = DIR /\ in = [jn EXCEPT ![Root].nlink = @ + 1]
          BY <2>3, <3>4, <4>1, <4>3
        <5>2. One(type = DIR) = 1
          BY <5>1 DEF One
        <5> QED
          BY <3>5, <4>2, <5>1, <5>2
      <4>4. CASE ~dir
        <5>1. type = FILE /\ in = jn
          BY <2>3, <3>4, <4>1, <4>4
        <5>2. One(type = DIR) = 0 /\ inode[Root].nlink \in Nat
          BY <3>5, <5>1 DEF One, FILE, DIR
        <5> QED
          BY <3>5, <4>2, <5>1, <5>2
      <4> QED
        BY <4>3, <4>4
    <3>7. ASSUME SetDisk(dk), Table(icache', loc', ftable', dirLost'), Descriptors',
                 filelist' \in [Procs -> [Fds -> FileIds \cup {None}]],
                 \A t \in Slots : icache'[t].num = mc[t].num,
                 \A q \in Procs \ {p} : loc'[q] = loc[q], loc'[p].at = "run",
                 UNCHANGED <<state, dupLost, panicked>>
          PROVE  IInv'
      <4>1. /\ entries' = [entries EXCEPT ![n] = i] /\ inode' = in /\ ibits' = ibits \cup {i}
        BY <2>3, <3>7 DEF SetDisk
      <4>2. \A t \in Slots : \/ icache'[t].num = icache[t].num
                             \/ icache[t].ref = 0 /\ icache'[t].num = i
        BY <3>2, <3>3, <3>7
      <4>3. Directory' /\ Links'
        BY <1>1, <1>2, <3>4, <3>6, <3>7, <4>1, <4>2, CreateDisk, ZenonT(60)
      <4>4. entries' \in [Names -> Inums \cup {None}] /\ ibits' \subseteq Inums
        BY <3>5, <4>1
      <4> QED
        BY <1>2, <3>6, <3>7, <4>1, <4>3, <4>4, ReturnedInv
    <3>8. CASE dir
      <4>1. /\ SetDisk(dk) /\ icache' = ic /\ Return(p)
            /\ dirLost' = [dirLost EXCEPT ![i] = @ + 1]
            /\ UNCHANGED <<ftable, filelist, state, dupLost, panicked>>
        BY <2>4, <2>6, <3>8 DEF Open
      <4>2. loc' \in LocType /\ loc'[p].at = "run" /\ \A q \in Procs \ {p} : loc'[q] = loc[q]
        BY <1>2, <4>1, Returned
      <4>3. PICK dl \in [Inums -> Nat], lc2 \in LocType :
              /\ dl = dirLost' /\ lc2 = loc'
              /\ dl[i] = dirLost[i] + 1 /\ \A j \in Inums \ {i} : dl[j] = dirLost[j]
        BY <1>2, <4>1, <4>2
      <4>4. Table(ic, lc2, ftable, dl)
        <5>1. Table(mc, lc, ftable, dirLost) /\ Filed(mc, ftable) /\ Placed(mc, dirLost)
          BY <3>2, <3>3 DEF Table
        <5>2. /\ \A t \in Slots \ {s} : Lost(mc, dl, t) = Lost(mc, dirLost, t)
              /\ Lost(mc, dl, s) = Lost(mc, dirLost, s) + 1
          <6>1. mc[s].num = i /\ i # None /\ \A t \in Slots \ {s} : mc[t].num # i
            BY <3>2, <3>3, <5>1, Sizes DEF Placed
          <6>2. \A t \in Slots : mc[t].num = None \/ mc[t].num \in Inums
            BY DEF IcacheType
          <6> QED
            BY <3>2, <4>3, <6>1, <6>2 DEF Lost
        <5>3. Cardinality(Opens(ftable, s)) \in Nat /\ Lost(mc, dirLost, s) \in Nat /\ mc[s].ref \in Nat
          BY <1>2, <3>2, OpensFinite DEF Lost, IcacheType
        <5>4. /\ Cardinality(Opens(ftable, s)) + Lost(mc, dl, s) - ic[s].ref
                   = Cardinality(Opens(ftable, s)) + Lost(mc, dirLost, s) - mc[s].ref + 1
              /\ ic \in IcacheType /\ ic[s].num = mc[s].num /\ ~ic[s].slk
              /\ \A t \in Slots \ {s} : ic[t] = mc[t]
          BY <3>2, <3>3, <5>2, <5>3
        <5>5. /\ lc[p].at \in {"inode", "gone"} /\ s = lc[p].ip /\ p \in Procs
              /\ \A q \in Procs \ {p} : lc2[q] = lc[q]
              /\ lc2[p].at = "run" /\ lc2 \in LocType /\ dl \in [Inums -> Nat]
          BY <3>2, <4>2, <4>3
        <5>6. \A j \in Inums : dl[j] > 0 => dirLost[j] > 0 \/ j = mc[s].num
          BY <3>2, <3>3, <4>3
        <5>7. \A t \in Slots : Opens(ftable, t) \subseteq Opens(ftable, t)
          OBVIOUS
        <5>8. ftable \in FtableType
          BY <1>2
        <5> QED
          BY ONLY <5>1, <5>2, <5>4, <5>5, <5>6, <5>7, <5>8, SlotEnd
      <4>5. Table(icache', loc', ftable', dirLost')
        BY <4>1, <4>3, <4>4
      <4>6. Descriptors'
        BY <1>1, <1>2, <4>1, <4>2, DescriptorsKept
      <4>7. filelist' \in [Procs -> [Fds -> FileIds \cup {None}]]
        BY <1>2, <4>1 DEF TypeOK
      <4>8. \A t \in Slots : icache'[t].num = mc[t].num
        BY <3>2, <3>3, <4>1
      <4> QED
        BY <3>7, <4>1, <4>2, <4>5, <4>6, <4>7, <4>8
    <3>9. CASE ~dir
      <4>1. FileOpen(p, mc, s, dk)
        BY <2>4, <2>6, <3>3, <3>9
      <4>2. Table(mc, lc, ftable, dirLost)
        BY <3>2, <3>3
      <4>3. CASE ~IInv'
        <5>1. /\ Table(icache', loc', ftable', dirLost) /\ Descriptors'
              /\ filelist' \in [Procs -> [Fds -> FileIds \cup {None}]]
              /\ \A t \in Slots : icache'[t].num = mc[t].num
              /\ \A q \in Procs \ {p} : loc'[q] = loc[q]
              /\ loc'[p].at = "run" /\ SetDisk(dk)
              /\ UNCHANGED <<state, dupLost, dirLost, panicked>>
          BY <1>1, <3>2, <4>1, <4>2, <4>3, FileOpenStep
        <5> QED
          BY <3>7, <5>1
      <4> QED
        BY <4>3
    <3> QED
      BY <3>8, <3>9
  <2> QED
    BY <2>5, <2>6
<1> QED
  BY <1>3, <1>4

-----------------------------------------------------------------------------
(* Calls on descriptors.                                                   *)

\* The inode of an open file is locked.
LEMMA IoStartStep ==
  ASSUME IInv, NEW p \in Procs, NEW d \in Fds, IoStart(p, d)
  PROVE  IInv'
<1>1. panicked = "no" /\ state[p] = "live" /\ loc[p].at = "run" /\ filelist[p][d] # None
  BY DEF IoStart, At
<1>2. /\ TypeOK /\ Table(icache, loc, ftable, dirLost) /\ Directory /\ Links
      /\ Descriptors /\ loc \in LocType /\ icache \in IcacheType /\ Filed(icache, ftable)
  BY <1>1, Facts DEF Table
<1>3. PICK f \in FileIds : f = filelist[p][d] /\ ftable[f].ref > 0
  BY <1>1, <1>2, NamedOpen
<1>4. PICK s \in Slots : s = ftable[f].ip /\ Opens(ftable, s) # {}
  BY <1>2, <1>3 DEF Filed, Opens
<1>5. CASE icache[s].slk
  BY <1>3, <1>4, <1>5, PanicStep DEF IoStart
<1>6. CASE ~icache[s].slk
  <2>1. /\ icache' = Lock(icache, s)
        /\ loc' = [loc EXCEPT ![p] = [Idle EXCEPT !.at = "io", !.ip = s]]
        /\ UNCHANGED <<entries, inode, ibits, ftable, filelist, state, dupLost, dirLost, panicked>>
    BY <1>3, <1>4, <1>6 DEF IoStart, Disk, Open
  <2>2. PICK ic \in IcacheType :
          /\ ic = icache' /\ \A t \in Slots \ {s} : ic[t] = icache[t]
          /\ ic[s].num = icache[s].num /\ ic[s].ref = icache[s].ref /\ ic[s].slk = TRUE
    BY <1>2, <2>1, LockOps
  <2>3. PICK lc \in LocType :
          /\ lc = loc' /\ lc[p].at = "io" /\ lc[p].ip = s /\ \A q \in Procs \ {p} : lc[q] = loc[q]
    <3>1. PICK r : r = [Idle EXCEPT !.at = "io", !.ip = s]
      OBVIOUS
    <3>2. r \in [at : Waits, ip : Slots \cup {None}, name : Names \cup {"none"}] /\ r.at = "io" /\ r.ip = s
      BY <3>1 DEF Idle, Waits
    <3>3. loc' = [loc EXCEPT ![p] = r]
      BY <2>1, <3>1
    <3> QED
      BY <1>2, <3>2, <3>3 DEF LocType
  <2>4. Table(ic, lc, ftable, dirLost)
    <3>1. /\ ic[s].slk = ~icache[s].slk
          /\ \/ loc[p].at = "run" /\ lc[p].at = "io" /\ lc[p].ip = s /\ ~icache[s].slk
             \/ lc[p].at = "run" /\ loc[p].at = "io" /\ loc[p].ip = s /\ icache[s].slk
      BY <1>1, <1>6, <2>2, <2>3
    <3> QED
      BY <1>2, <1>4, <2>2, <2>3, <3>1, IoChange
  <2>5. \A t \in Slots : icache'[t].num = icache[t].num
    BY <2>2
  <2>6. Descriptors'
    <3>1. \A g \in FileIds : Users(g)' = Users(g)
      BY <2>1 DEF Users
    <3>2. ASSUME NEW q \in Procs, loc'[q].at = "io"
          PROVE  \E e \in Fds : filelist[q][e] # None /\ ftable[filelist[q][e]].ip = loc'[q].ip
      <4>1. CASE q = p
        BY <1>1, <1>3, <1>4, <2>3, <4>1
      <4>2. CASE q # p
        BY <1>2, <2>3, <3>2, <4>2 DEF Descriptors
      <4> QED
        BY <4>1, <4>2
    <3>3. \A q \in Procs : loc'[q].at # "run" => state[q] = "live"
      BY <1>1, <1>2, <2>3 DEF Descriptors
    <3> QED
      BY <1>2, <2>1, <3>1, <3>2, <3>3 DEF Descriptors
  <2>7. Directory' /\ Links'
    BY <1>1, <1>2, <2>1, <2>3, <2>5, DirectoryKept
  <2>8. /\ filelist' \in [Procs -> [Fds -> FileIds \cup {None}]]
        /\ entries' \in [Names -> Inums \cup {None}] /\ ibits' \subseteq Inums
        /\ inode' \in [Inums -> [type : {"unused", FILE, DIR}, nlink : Nat, empty : BOOLEAN]]
    BY <1>2, <2>1 DEF TypeOK
  <2>9. Table(icache', loc', ftable', dirLost')
    BY <2>1, <2>2, <2>3, <2>4
  <2> QED
    BY <1>2, <2>1, <2>6, <2>7, <2>8, <2>9, ReturnedInv
<1> QED
  BY <1>5, <1>6

\* The inode is unlocked again.
LEMMA IoEndStep ==
  ASSUME IInv, NEW p \in Procs, IoEnd(p)
  PROVE  IInv'
<1>1. panicked = "no" /\ state[p] = "live" /\ loc[p].at = "io"
  BY DEF IoEnd, At
<1>2. TypeOK /\ Core /\ Table(icache, loc, ftable, dirLost) /\ loc \in LocType /\ icache \in IcacheType
  BY <1>1, Facts
<1>3. /\ icache' = Unlock(icache, loc[p].ip) /\ Return(p)
      /\ UNCHANGED <<entries, inode, ibits, ftable, filelist, state, dupLost, dirLost, panicked>>
  BY DEF IoEnd, Disk, Open
<1>4. PICK s \in Slots : s = loc[p].ip /\ Opens(ftable, s) # {} /\ icache[s].slk
  BY <1>1, <1>2 DEF Table, Pointed, Locked, LocksIn
<1>5. PICK ic \in IcacheType :
        /\ ic = icache' /\ \A t \in Slots \ {s} : ic[t] = icache[t]
        /\ ic[s].num = icache[s].num /\ ic[s].ref = icache[s].ref /\ ic[s].slk = FALSE
  BY <1>2, <1>3, <1>4, UnlockOps
<1>6. PICK lc \in LocType : lc = loc' /\ lc[p].at = "run" /\ \A q \in Procs \ {p} : lc[q] = loc[q]
  BY <1>2, <1>3, Returned
<1>7. Table(ic, lc, ftable, dirLost)
  <2>1. /\ ic[s].slk = ~icache[s].slk
        /\ \/ loc[p].at = "run" /\ lc[p].at = "io" /\ lc[p].ip = s /\ ~icache[s].slk
           \/ lc[p].at = "run" /\ loc[p].at = "io" /\ loc[p].ip = s /\ icache[s].slk
    BY <1>1, <1>4, <1>5, <1>6
  <2> QED
    BY <1>2, <1>4, <1>5, <1>6, <2>1, IoChange
<1>8. \A t \in Slots : icache'[t].num = icache[t].num
  BY <1>5
<1>9. Table(icache', loc', ftable, dirLost)
  BY <1>5, <1>6, <1>7
<1> QED
  BY <1>1, <1>2, <1>3, <1>6, <1>8, <1>9, CallKept

\* A step on descriptors and files that leaves the disk and all waits alone.
LEMMA FilesKept ==
  ASSUME TypeOK, Core, NEW p \in Procs, loc[p].at = "run",
         UNCHANGED <<entries, inode, ibits, loc, dirLost, panicked>>,
         Table(icache', loc, ftable', dirLost), Descriptors',
         \A s \in Slots : icache'[s].num = icache[s].num,
         filelist' \in [Procs -> [Fds -> FileIds \cup {None}]],
         state' \in [Procs -> {"unused", "live", "zombie"}],
         dupLost' \in [FileIds -> 0 .. MaxLeak]
  PROVE  IInv'
<1>1. Directory' /\ Links'
  BY DirectoryKept DEF Core
<1>2. icache' \in IcacheType /\ ftable' \in FtableType
  BY DEF Table
<1>3. TypeOK'
  BY <1>2 DEF TypeOK, IcacheType, FtableType
<1>4. Table(icache, loc, ftable, dirLost)'
  OBVIOUS
<1> QED
  BY <1>1, <1>3, <1>4 DEF IInv, Core

\* The descriptors of one process, as many as their numbers.
LEMMA RowCount ==
  ASSUME NEW p, NEW E, E \subseteq Fds
  PROVE  /\ IsFiniteSet({p} \X E) /\ Cardinality({p} \X E) = Cardinality(E)
         /\ Cardinality(E) \in Nat /\ IsFiniteSet(E) /\ (Cardinality(E) = 0 <=> E = {})
<1>1. IsFiniteSet(E) /\ IsFiniteSet({p}) /\ Cardinality({p}) = 1
  BY Finite, FS_Subset, FS_Singleton
<1>2. Cardinality(E) \in Nat /\ (Cardinality(E) = 0 <=> E = {})
  BY <1>1, FS_CardinalityType, FS_EmptySet
<1>3. IsFiniteSet({p} \X E) /\ Cardinality({p} \X E) = Cardinality({p}) * Cardinality(E)
  BY <1>1, FS_Product
<1> QED
  BY <1>1, <1>2, <1>3

\* proc_exit() keeps the descriptors.
LEMMA ExitStep ==
  ASSUME IInv, NEW p \in Procs, Exit(p)
  PROVE  IInv'
<1>1. panicked = "no" /\ state[p] = "live" /\ loc[p].at = "run"
  BY DEF Exit, At
<1>2. /\ TypeOK /\ Core /\ Table(icache, loc, ftable, dirLost) /\ Descriptors
      /\ state' = [state EXCEPT ![p] = "zombie"]
      /\ UNCHANGED <<entries, inode, ibits, icache, ftable, filelist, loc, dupLost, dirLost, panicked>>
  BY <1>1, Facts DEF Exit, Disk
<1>3. state \in [Procs -> {"unused", "live", "zombie"}]
  BY <1>2 DEF TypeOK
<1>4. /\ state' \in [Procs -> {"unused", "live", "zombie"}] /\ state'[p] = "zombie"
      /\ \A q \in Procs \ {p} : state'[q] = state[q]
  BY <1>2, <1>3
<1>5. \A g \in FileIds : Users(g)' = Users(g)
  BY <1>2 DEF Users
<1>6. Descriptors'
  BY <1>1, <1>2, <1>4, <1>5 DEF Descriptors
<1>7. /\ filelist' \in [Procs -> [Fds -> FileIds \cup {None}]]
      /\ dupLost' \in [FileIds -> 0 .. MaxLeak]
  BY <1>2 DEF TypeOK
<1>8. Table(icache', loc, ftable', dirLost) /\ \A s \in Slots : icache'[s].num = icache[s].num
  BY <1>2
<1> QED
  BY <1>1, <1>2, <1>4, <1>6, <1>7, <1>8, FilesKept

\* sys_dup(): one more reference, for a descriptor or lost.
LEMMA DupStep ==
  ASSUME IInv, NEW p \in Procs, NEW d \in Fds, Dup(p, d)
  PROVE  IInv'
<1>1. panicked = "no" /\ state[p] = "live" /\ loc[p].at = "run" /\ filelist[p][d] # None
  BY DEF Dup, At
<1>2. /\ TypeOK /\ Core /\ Table(icache, loc, ftable, dirLost) /\ Descriptors
      /\ ftable \in FtableType /\ icache \in IcacheType /\ Pointed(icache, loc, ftable)
  BY <1>1, Facts DEF Table
<1>3. PICK f \in FileIds : f = filelist[p][d] /\ ftable[f].ref > 0
  BY <1>1, <1>2, NamedOpen
<1>4. /\ ftable' = [ftable EXCEPT ![f].ref = @ + 1]
      /\ \/ /\ FreeFds(p) # {} /\ filelist' = [filelist EXCEPT ![p][Min(FreeFds(p))] = f]
            /\ UNCHANGED dupLost
         \/ /\ \A g \in FileIds : dupLost[g] < MaxLeak
            /\ dupLost' = [dupLost EXCEPT ![f] = @ + 1]
            /\ UNCHANGED filelist
      /\ UNCHANGED <<entries, inode, ibits, icache, state, loc, dirLost, panicked>>
  BY <1>3 DEF Dup, Disk
<1>5. /\ ftable' \in FtableType /\ ftable'[f].ref = ftable[f].ref + 1
      /\ \A g \in FileIds \ {f} : ftable'[g] = ftable[g]
      /\ \A g \in FileIds : /\ ftable'[g].ip = ftable[g].ip /\ ftable'[g].of = ftable[g].of
                            /\ ftable'[g].ref > 0 <=> ftable[g].ref > 0
  <2>1. /\ ftable' \in FtableType /\ ftable'[f].ref = ftable[f].ref + 1
        /\ ftable'[f].ip = ftable[f].ip /\ ftable'[f].of = ftable[f].of
        /\ \A g \in FileIds \ {f} : ftable'[g] = ftable[g]
    BY <1>2, <1>3, <1>4 DEF FtableType
  <2>2. ftable[f].ref \in Nat
    BY <1>2 DEF FtableType
  <2> QED
    BY <1>3, <2>1, <2>2
<1>6. \A s : Opens(ftable', s) = Opens(ftable, s)
  BY <1>5 DEF Opens
<1>7. Table(icache, loc, ftable', dirLost)
  <2>1. PICK ft \in FtableType : ft = ftable'
    BY <1>5
  <2>2. \A s \in Slots : /\ icache[s].num = icache[s].num /\ icache[s].slk = icache[s].slk
                         /\ icache[s].ref - Cardinality(Opens(ft, s))
                               = icache[s].ref - Cardinality(Opens(ftable, s))
    BY <1>6, <2>1
  <2>3. /\ \A g \in FileIds : ft[g].ref > 0 =>
             ftable[g].ref > 0 /\ ft[g].ip = ftable[g].ip /\ ft[g].of = ftable[g].of
        /\ \A q \in Procs : loc[q].at = "io" => Opens(ft, loc[q].ip) # {}
    BY <1>2, <1>5, <1>6, <2>1 DEF Pointed
  <2>4. FilesTo(icache, loc, ftable, icache, ft)
    BY <2>2, <2>3 DEF FilesTo
  <2>5. Table(icache, loc, ft, dirLost)
    BY <1>2, <2>4, FilesChange
  <2> QED
    BY <2>1, <2>5
<1>8. /\ filelist \in [Procs -> [Fds -> FileIds \cup {None}]]
      /\ dupLost \in [FileIds -> 0 .. MaxLeak]
      /\ state' \in [Procs -> {"unused", "live", "zombie"}]
  BY <1>2, <1>4 DEF TypeOK
<1>9. \A g \in FileIds : /\ dupLost[g] \in Nat /\ Cardinality(Users(g)) \in Nat
                         /\ ftable[g].ref = dupLost[g] + Cardinality(Users(g))
  BY <1>2, <1>8, UsersFinite, FilesAssumption DEF Descriptors
<1>10. ASSUME \A g \in FileIds : ftable'[g].ref = dupLost'[g] + Cardinality(Users(g)'),
              \A q \in Procs, e \in Fds : filelist[q][e] # None => filelist'[q][e] = filelist[q][e],
              \A q \in Procs \ {p} : filelist'[q] = filelist[q],
              filelist' \in [Procs -> [Fds -> FileIds \cup {None}]],
              dupLost' \in [FileIds -> 0 .. MaxLeak]
       PROVE  IInv'
  <2>1. ASSUME NEW q \in Procs, loc[q].at = "io"
        PROVE  \E e \in Fds : filelist'[q][e] # None /\ ftable'[filelist'[q][e]].ip = loc[q].ip
    <3>1. PICK e \in Fds : filelist[q][e] # None /\ ftable[filelist[q][e]].ip = loc[q].ip
      BY <1>2, <2>1 DEF Descriptors
    <3>2. filelist[q][e] \in FileIds /\ filelist'[q][e] = filelist[q][e]
      BY <1>2, <1>10, <3>1, NamedOpen
    <3> QED
      BY <1>5, <3>1, <3>2
  <2>2. Descriptors'
    BY <1>1, <1>2, <1>4, <1>10, <2>1 DEF Descriptors
  <2>3. Table(icache', loc, ftable', dirLost) /\ \A s \in Slots : icache'[s].num = icache[s].num
    BY <1>4, <1>7
  <2> QED
    BY <1>1, <1>2, <1>4, <1>8, <1>10, <2>2, <2>3, FilesKept
<1>11. CASE FreeFds(p) # {} /\ filelist' = [filelist EXCEPT ![p][Min(FreeFds(p))] = f]
            /\ UNCHANGED dupLost
  <2>1. PICK e \in Fds : e = Min(FreeFds(p)) /\ filelist[p][e] = None
    <3>1. FreeFds(p) \subseteq Nat
      BY Sizes DEF FreeFds
    <3> QED
      BY <1>11, <3>1, MinFound DEF FreeFds
  <2>2. /\ filelist' \in [Procs -> [Fds -> FileIds \cup {None}]]
        /\ \A q \in Procs \ {p} : filelist'[q] = filelist[q]
        /\ \A q \in Procs, c \in Fds :
             filelist'[q][c] = IF q = p /\ c = e THEN f ELSE filelist[q][c]
    BY <1>8, <1>11, <2>1
  <2>3. Users(f)' = Users(f) \cup {<<p, e>>} /\ <<p, e>> \notin Users(f)
    <3>1. ASSUME NEW x \in Procs \X Fds
          PROVE  filelist'[x[1]][x[2]] = f <=> filelist[x[1]][x[2]] = f \/ x = <<p, e>>
      BY <2>2
    <3>2. f # None
      BY Sizes
    <3> QED
      BY <2>1, <3>1, <3>2 DEF Users
  <2>4. \A g \in FileIds \ {f} : Users(g)' = Users(g)
    <3>1. ASSUME NEW g \in FileIds \ {f}, NEW x \in Procs \X Fds
          PROVE  filelist'[x[1]][x[2]] = g <=> filelist[x[1]][x[2]] = g
      BY <2>1, <2>2, Sizes
    <3> QED
      BY <3>1 DEF Users
  <2>5. Cardinality(Users(f)') = Cardinality(Users(f)) + 1
    <3>1. IsFiniteSet(Users(f))
      BY UsersFinite
    <3>2. Cardinality(Users(f) \cup {<<p, e>>}) = Cardinality(Users(f)) + 1
      BY <2>3, <3>1, FS_AddElement
    <3> QED
      BY <2>3, <3>2
  <2>6. \A g \in FileIds : ftable'[g].ref = dupLost'[g] + Cardinality(Users(g)')
    <3> SUFFICES ASSUME NEW g \in FileIds
                 PROVE  ftable'[g].ref = dupLost'[g] + Cardinality(Users(g)')
      OBVIOUS
    <3>1. CASE g = f
      BY <1>5, <1>9, <1>11, <2>5, <3>1
    <3>2. CASE g # f
      BY <1>5, <1>9, <1>11, <2>4, <3>2
    <3> QED
      BY <3>1, <3>2
  <2> QED
    BY <1>8, <1>10, <1>11, <2>1, <2>2, <2>6
<1>12. CASE /\ \A g \in FileIds : dupLost[g] < MaxLeak
            /\ dupLost' = [dupLost EXCEPT ![f] = @ + 1]
            /\ UNCHANGED filelist
  <2>1. /\ dupLost' \in [FileIds -> 0 .. MaxLeak] /\ dupLost'[f] = dupLost[f] + 1
        /\ \A g \in FileIds \ {f} : dupLost'[g] = dupLost[g]
    BY <1>8, <1>12, FilesAssumption
  <2>2. \A g \in FileIds : Users(g)' = Users(g)
    BY <1>12 DEF Users
  <2>3. \A g \in FileIds : ftable'[g].ref = dupLost'[g] + Cardinality(Users(g)')
    <3> SUFFICES ASSUME NEW g \in FileIds
                 PROVE  ftable'[g].ref = dupLost'[g] + Cardinality(Users(g)')
      OBVIOUS
    <3>1. CASE g = f
      BY <1>5, <1>9, <2>1, <2>2, <3>1
    <3>2. CASE g # f
      BY <1>5, <1>9, <2>1, <2>2, <3>2
    <3> QED
      BY <3>1, <3>2
  <2> QED
    BY <1>8, <1>10, <1>12, <2>1, <2>3
<1> QED
  BY <1>4, <1>11, <1>12

\* The descriptors in D of process p that name f.
Named(p, D, f) == {e \in D : filelist[p][e] = f}

\* proc_fork(): the child's descriptors are as many as the references taken.
LEMMA ForkStep ==
  ASSUME IInv, NEW p \in Procs, NEW c \in Procs, Fork(p, c)
  PROVE  IInv'
<1>1. panicked = "no" /\ state[p] = "live" /\ loc[p].at = "run" /\ state[c] = "unused"
  BY DEF Fork, At
<1>2. /\ TypeOK /\ Core /\ Table(icache, loc, ftable, dirLost) /\ Descriptors
      /\ ftable \in FtableType /\ icache \in IcacheType /\ Pointed(icache, loc, ftable)
  BY <1>1, Facts DEF Table
<1>3. CASE \E d \in OpenFds(p) : ftable[filelist[p][d]].ref = 0
  BY <1>3, PanicStep DEF Fork
<1>4. CASE ~\E d \in OpenFds(p) : ftable[filelist[p][d]].ref = 0
  <2>1. /\ state' = [state EXCEPT ![c] = "live"]
        /\ filelist' = [filelist EXCEPT ![c] = filelist[p]]
        /\ ftable' = [f \in FileIds |-> [ftable[f] EXCEPT !.ref = @ + Uses(p, Fds, f)]]
        /\ UNCHANGED <<entries, inode, ibits, icache, loc, dupLost, dirLost, panicked>>
    BY <1>4 DEF Fork, Disk
  <2>2. /\ filelist \in [Procs -> [Fds -> FileIds \cup {None}]]
        /\ dupLost \in [FileIds -> 0 .. MaxLeak]
        /\ state \in [Procs -> {"unused", "live", "zombie"}]
    BY <1>2 DEF TypeOK
  <2>3. /\ filelist' \in [Procs -> [Fds -> FileIds \cup {None}]] /\ filelist'[c] = filelist[p]
        /\ \A q \in Procs \ {c} : filelist'[q] = filelist[q]
    BY <2>1, <2>2
  <2>4. /\ state' \in [Procs -> {"unused", "live", "zombie"}] /\ state'[c] = "live"
        /\ \A q \in Procs \ {c} : state'[q] = state[q]
    BY <2>1, <2>2
  <2>5. \A e \in Fds : filelist[c][e] = None
    BY <1>1, <1>2 DEF Descriptors
  <2>6. \A f \in FileIds : /\ Uses(p, Fds, f) = Cardinality(Named(p, Fds, f)) /\ Uses(p, Fds, f) \in Nat
                           /\ Named(p, Fds, f) \subseteq Fds
                           /\ Uses(p, Fds, f) > 0 => ftable[f].ref > 0
    <3> SUFFICES ASSUME NEW f \in FileIds
                 PROVE  /\ Uses(p, Fds, f) = Cardinality(Named(p, Fds, f)) /\ Uses(p, Fds, f) \in Nat
                        /\ Named(p, Fds, f) \subseteq Fds
                        /\ Uses(p, Fds, f) > 0 => ftable[f].ref > 0
      OBVIOUS
    <3>1. Uses(p, Fds, f) = Cardinality(Named(p, Fds, f)) /\ Named(p, Fds, f) \subseteq Fds
      BY DEF Uses, Named
    <3>2. Uses(p, Fds, f) \in Nat /\ (Uses(p, Fds, f) = 0 <=> Named(p, Fds, f) = {})
      BY <3>1, RowCount
    <3>3. ASSUME Uses(p, Fds, f) > 0 PROVE ftable[f].ref > 0
      <4>1. PICK e \in Fds : filelist[p][e] = f
        BY <3>2, <3>3 DEF Named
      <4> QED
        BY <1>2, <4>1, NamedOpen, Sizes
    <3> QED
      BY <3>1, <3>2, <3>3
  <2>7. /\ ftable' \in FtableType
        /\ \A f \in FileIds : /\ ftable'[f].ref = ftable[f].ref + Uses(p, Fds, f)
                              /\ ftable'[f].ip = ftable[f].ip /\ ftable'[f].of = ftable[f].of
                              /\ ftable'[f].ref > 0 <=> ftable[f].ref > 0
    BY <1>2, <2>1, <2>6 DEF FtableType
  <2>8. \A s : Opens(ftable', s) = Opens(ftable, s)
    BY <2>7 DEF Opens
  <2>9. Table(icache, loc, ftable', dirLost)
    <3>1. PICK ft \in FtableType : ft = ftable'
      BY <2>7
    <3>2. \A s \in Slots : /\ icache[s].num = icache[s].num /\ icache[s].slk = icache[s].slk
                           /\ icache[s].ref - Cardinality(Opens(ft, s))
                               = icache[s].ref - Cardinality(Opens(ftable, s))
      BY <2>8, <3>1
    <3>3. /\ \A g \in FileIds : ft[g].ref > 0 =>
               ftable[g].ref > 0 /\ ft[g].ip = ftable[g].ip /\ ft[g].of = ftable[g].of
          /\ \A q \in Procs : loc[q].at = "io" => Opens(ft, loc[q].ip) # {}
      BY <1>2, <2>7, <2>8, <3>1 DEF Pointed
    <3>4. FilesTo(icache, loc, ftable, icache, ft)
      BY <3>2, <3>3 DEF FilesTo
    <3>5. Table(icache, loc, ft, dirLost)
      BY <1>2, <3>4, FilesChange
    <3> QED
      BY <3>1, <3>5
  <2>10. ASSUME NEW f \in FileIds
         PROVE  ftable'[f].ref = dupLost'[f] + Cardinality(Users(f)')
    <3>1. Users(f)' = Users(f) \cup ({c} \X Named(p, Fds, f))
      <4>1. ASSUME NEW x \in Procs \X Fds
            PROVE  filelist'[x[1]][x[2]] = f
                     <=> filelist[x[1]][x[2]] = f \/ (x[1] = c /\ filelist[p][x[2]] = f)
        BY <2>3, <2>5, Sizes
      <4> QED
        BY <4>1 DEF Users, Named
    <3>2. Users(f) \cap ({c} \X Named(p, Fds, f)) = {}
      BY <2>5, Sizes DEF Users
    <3>3. /\ IsFiniteSet(Users(f)) /\ Cardinality(Users(f)) \in Nat
          /\ IsFiniteSet({c} \X Named(p, Fds, f))
          /\ Cardinality({c} \X Named(p, Fds, f)) = Uses(p, Fds, f)
      BY <2>6, UsersFinite, RowCount
    <3>4. Cardinality(Users(f) \cup ({c} \X Named(p, Fds, f)))
            = Cardinality(Users(f)) + Cardinality({c} \X Named(p, Fds, f)) - 0
      BY <3>2, <3>3, FS_Union, FS_EmptySet
    <3>5. Cardinality(Users(f)') = Cardinality(Users(f)) + Uses(p, Fds, f)
      BY <2>6, <3>1, <3>3, <3>4
    <3>6. ftable[f].ref = dupLost[f] + Cardinality(Users(f)) /\ dupLost[f] \in Nat
      BY <1>2, <2>2, FilesAssumption DEF Descriptors
    <3> QED
      BY <2>1, <2>6, <2>7, <3>3, <3>5, <3>6
  <2>11. ASSUME NEW q \in Procs, loc[q].at = "io"
         PROVE  \E e \in Fds : filelist'[q][e] # None /\ ftable'[filelist'[q][e]].ip = loc[q].ip
    <3>1. PICK e \in Fds : filelist[q][e] # None /\ ftable[filelist[q][e]].ip = loc[q].ip
      BY <1>2, <2>11 DEF Descriptors
    <3>2. filelist[q][e] \in FileIds /\ filelist'[q][e] = filelist[q][e]
      BY <1>2, <2>3, <2>5, <3>1, NamedOpen
    <3> QED
      BY <2>7, <3>1, <3>2
  <2>12. Descriptors'
    <3>1. \A q \in Procs : state'[q] = "unused" => \A e \in Fds : filelist'[q][e] = None
      BY <1>2, <2>3, <2>4 DEF Descriptors
    <3>2. \A q \in Procs : loc'[q].at # "run" => state'[q] = "live"
      BY <1>2, <2>1, <2>4 DEF Descriptors
    <3>3. \A q \in Procs : loc'[q].at = "io" =>
            \E e \in Fds : filelist'[q][e] # None /\ ftable'[filelist'[q][e]].ip = loc'[q].ip
      BY <2>1, <2>11
    <3> QED
      BY <2>10, <3>1, <3>2, <3>3 DEF Descriptors
  <2>13. Table(icache', loc, ftable', dirLost) /\ \A s \in Slots : icache'[s].num = icache[s].num
    BY <2>1, <2>9
  <2> QED
    BY <1>1, <1>2, <2>1, <2>2, <2>3, <2>4, <2>12, <2>13, FilesKept
<1> QED
  BY <1>3, <1>4

\* The references to a slot cover the files open on it.
LEMMA OpensCounted ==
  ASSUME NEW ic, NEW lc, NEW ft, NEW dl, Table(ic, lc, ft, dl), NEW s \in Slots
  PROVE  ic[s].ref \in Nat /\ ic[s].ref >= Cardinality(Opens(ft, s))
<1>1. ic \in IcacheType /\ dl \in [Inums -> Nat] /\ Counted(ic, lc, ft, dl)
  BY DEF Table
<1>2. Cardinality(Opens(ft, s)) \in Nat /\ Lost(ic, dl, s) \in Nat /\ ic[s].ref \in Nat
  BY <1>1, OpensFinite DEF Lost, IcacheType
<1> QED
  BY <1>1, <1>2 DEF Counted, One

\* file_close() of the descriptors D of p: sys_close() closes one, proc_free() all.
LEMMA CloseAllStep ==
  ASSUME IInv, panicked = "no", NEW p \in Procs, loc[p].at = "run",
         NEW D, D \subseteq OpenFds(p), CloseAll(p, D), state[p] # "unused",
         \/ state' = state
         \/ /\ D = OpenFds(p)
            /\ state' = IF panicked' = "no" THEN [state EXCEPT ![p] = "unused"] ELSE state
  PROVE  IInv'
<1>1. /\ TypeOK /\ Core /\ Table(icache, loc, ftable, dirLost) /\ Descriptors
      /\ ftable \in FtableType /\ icache \in IcacheType /\ Pointed(icache, loc, ftable)
  BY Facts DEF Table
<1>2. CASE Panic("close") \/ Panic("destroy")
  BY <1>2, PanicStep
<1>3. CASE ~(Panic("close") \/ Panic("destroy"))
  <2>1. /\ ~\E f \in FileIds : Uses(p, D, f) > ftable[f].ref
        /\ ftable' = [f \in FileIds |->
            IF f \in Dying(p, D) THEN [ref |-> 0, ip |-> None, of |-> None]
            ELSE [ftable[f] EXCEPT !.ref = @ - Uses(p, D, f)]]
        /\ icache' = [s \in Slots |->
            [icache[s] EXCEPT !.ref = @ - Cardinality(Dropped(p, D, s))]]
        /\ filelist' = [filelist EXCEPT ![p] = [d \in Fds |-> IF d \in D THEN None ELSE @[d]]]
        /\ UNCHANGED <<entries, inode, ibits, loc, dupLost, dirLost, panicked>>
    BY <1>3 DEF CloseAll, Disk
  <2>2. /\ filelist \in [Procs -> [Fds -> FileIds \cup {None}]]
        /\ dupLost \in [FileIds -> 0 .. MaxLeak]
        /\ state \in [Procs -> {"unused", "live", "zombie"}]
    BY <1>1 DEF TypeOK
  <2>3. D \subseteq Fds
    BY DEF OpenFds
  <2>4. /\ filelist' \in [Procs -> [Fds -> FileIds \cup {None}]]
        /\ \A q \in Procs \ {p} : filelist'[q] = filelist[q]
        /\ \A e \in Fds : filelist'[p][e] = IF e \in D THEN None ELSE filelist[p][e]
    BY <2>1, <2>2, <2>3
  <2>5. /\ state' \in [Procs -> {"unused", "live", "zombie"}]
        /\ \A q \in Procs \ {p} : state'[q] = state[q]
        /\ state'[p] = "unused" => D = OpenFds(p)
    <3>1. panicked' = "no"
      BY <2>1
    <3> QED
      BY <2>2, <3>1
  <2>6. \A f \in FileIds : /\ Uses(p, D, f) = Cardinality(Named(p, D, f)) /\ Uses(p, D, f) \in Nat
                           /\ Named(p, D, f) \subseteq Fds /\ ftable[f].ref \in Nat
                           /\ Uses(p, D, f) <= ftable[f].ref
    <3>1. \A f \in FileIds : Named(p, D, f) \subseteq Fds
      BY <2>3 DEF Named
    <3>2. \A f \in FileIds : Cardinality(Named(p, D, f)) \in Nat
      BY <3>1, RowCount
    <3>3. \A f \in FileIds : Uses(p, D, f) = Cardinality(Named(p, D, f)) /\ ftable[f].ref \in Nat
      BY <1>1 DEF Uses, Named, FtableType
    <3> QED
      BY <2>1, <3>1, <3>2, <3>3
  <2>7. \A f \in FileIds : /\ f \in Dying(p, D) => ftable'[f].ref = 0 /\ ftable[f].ref = Uses(p, D, f)
                                                   /\ Uses(p, D, f) > 0
                           /\ f \notin Dying(p, D) =>
                                /\ ftable'[f].ref = ftable[f].ref - Uses(p, D, f)
                                /\ ftable'[f].ip = ftable[f].ip /\ ftable'[f].of = ftable[f].of
                                /\ Uses(p, D, f) = 0 \/ ftable[f].ref # Uses(p, D, f)
    <3>1. \A f \in FileIds : f \in Dying(p, D) <=> Uses(p, D, f) > 0 /\ ftable[f].ref = Uses(p, D, f)
      BY DEF Dying
    <3>2. \A f \in FileIds : f \in Dying(p, D) => ftable'[f].ref = 0
      BY <2>1
    <3>3. \A f \in FileIds : f \notin Dying(p, D) =>
            /\ ftable'[f].ref = ftable[f].ref - Uses(p, D, f)
            /\ ftable'[f].ip = ftable[f].ip /\ ftable'[f].of = ftable[f].of
      BY <1>1, <2>1 DEF FtableType
    <3>4. \A f \in FileIds : Uses(p, D, f) > 0 \/ Uses(p, D, f) = 0
      BY <2>6
    <3> QED
      BY <3>1, <3>2, <3>3, <3>4
  <2>8. ftable' \in FtableType
    <3>1. ASSUME NEW f \in FileIds
          PROVE  (IF f \in Dying(p, D) THEN [ref |-> 0, ip |-> None, of |-> None]
                  ELSE [ftable[f] EXCEPT !.ref = @ - Uses(p, D, f)])
                   \in [ref : Nat, ip : Slots \cup {None}, of : Inums \cup {None}]
      <4>1. ftable[f] \in [ref : Nat, ip : Slots \cup {None}, of : Inums \cup {None}]
        BY <1>1 DEF FtableType
      <4>2. ftable[f].ref - Uses(p, D, f) \in Nat
        BY <2>6
      <4> QED
        BY <4>1, <4>2
    <3> QED
      BY <2>1, <3>1 DEF FtableType
  <2>9. ASSUME NEW f \in FileIds
        PROVE  /\ ftable'[f].ref = ftable[f].ref - Uses(p, D, f)
               /\ ftable'[f].ref > 0 => /\ ftable[f].ref > 0 /\ f \notin Dying(p, D)
                                        /\ ftable'[f].ip = ftable[f].ip /\ ftable'[f].of = ftable[f].of
               /\ ftable[f].ref > 0 /\ f \notin Dying(p, D) => ftable'[f].ref > 0
               /\ f \in Dying(p, D) => ftable[f].ref > 0
    BY <2>6, <2>7
  <2>10. ASSUME NEW s \in Slots
         PROVE  /\ Cardinality(Opens(ftable', s))
                     = Cardinality(Opens(ftable, s)) - Cardinality(Dropped(p, D, s))
                /\ Cardinality(Dropped(p, D, s)) \in Nat
                /\ Cardinality(Dropped(p, D, s)) <= Cardinality(Opens(ftable, s))
    <3>1. Dropped(p, D, s) \subseteq Opens(ftable, s)
      BY <2>9 DEF Dropped, Opens, Dying
    <3>2. Opens(ftable', s) = Opens(ftable, s) \ Dropped(p, D, s)
      BY <2>9 DEF Dropped, Opens
    <3>3. IsFiniteSet(Opens(ftable, s)) /\ Cardinality(Opens(ftable, s)) \in Nat
      BY OpensFinite
    <3>4. /\ IsFiniteSet(Dropped(p, D, s))
          /\ Cardinality(Dropped(p, D, s)) <= Cardinality(Opens(ftable, s))
      BY <3>1, <3>3, FS_Subset
    <3>5. Cardinality(Dropped(p, D, s)) \in Nat
      BY <3>4, FS_CardinalityType
    <3>6. Opens(ftable, s) \cap Dropped(p, D, s) = Dropped(p, D, s)
      BY <3>1
    <3>7. Cardinality(Opens(ftable, s) \ Dropped(p, D, s))
            = Cardinality(Opens(ftable, s)) - Cardinality(Opens(ftable, s) \cap Dropped(p, D, s))
      BY <3>3, FS_Difference
    <3>8. Cardinality(Opens(ftable', s))
            = Cardinality(Opens(ftable, s)) - Cardinality(Dropped(p, D, s))
      BY <3>2, <3>6, <3>7, Zenon
    <3> QED
      BY <3>4, <3>5, <3>8
  <2>11. /\ icache' \in IcacheType
         /\ \A s \in Slots : /\ icache'[s].num = icache[s].num /\ icache'[s].slk = icache[s].slk
                             /\ icache'[s].ref = icache[s].ref - Cardinality(Dropped(p, D, s))
                             /\ icache[s].ref \in Nat
    <3>1. ASSUME NEW s \in Slots
          PROVE  icache[s].ref - Cardinality(Dropped(p, D, s)) \in Nat /\ icache[s].ref \in Nat
      <4>1. Cardinality(Opens(ftable, s)) \in Nat
        BY OpensFinite
      <4> QED
        BY <1>1, <2>10, <4>1, OpensCounted
    <3>2. ASSUME NEW s \in Slots
          PROVE  [icache[s] EXCEPT !.ref = @ - Cardinality(Dropped(p, D, s))]
                   \in [num : Inums \cup {None}, ref : Nat, slk : BOOLEAN]
      <4>1. icache[s] \in [num : Inums \cup {None}, ref : Nat, slk : BOOLEAN]
        BY <1>1 DEF IcacheType
      <4> QED
        BY <3>1, <4>1
    <3>3. icache' \in IcacheType
      BY <2>1, <3>2 DEF IcacheType
    <3> QED
      BY <1>1, <2>1, <3>1, <3>3 DEF IcacheType
  <2>12. ASSUME NEW f \in FileIds
         PROVE  ftable'[f].ref = dupLost'[f] + Cardinality(Users(f)')
    <3>1. Users(f)' = Users(f) \ ({p} \X Named(p, D, f))
      <4>1. ASSUME NEW x \in Procs \X Fds
            PROVE  filelist'[x[1]][x[2]] = f
                     <=> filelist[x[1]][x[2]] = f /\ ~(x[1] = p /\ x[2] \in D)
        <5>1. CASE x[1] = p
          BY <2>4, <5>1, Sizes
        <5>2. CASE x[1] # p
          BY <2>4, <5>2
        <5> QED
          BY <5>1, <5>2
      <4> QED
        BY <4>1 DEF Users, Named
    <3>2. Users(f) \cap ({p} \X Named(p, D, f)) = {p} \X Named(p, D, f)
      BY <2>3 DEF Users, Named
    <3>3. /\ IsFiniteSet(Users(f)) /\ Cardinality(Users(f)) \in Nat
          /\ Cardinality({p} \X Named(p, D, f)) = Uses(p, D, f)
      BY <2>6, UsersFinite, RowCount
    <3>4. Cardinality(Users(f) \ ({p} \X Named(p, D, f)))
            = Cardinality(Users(f)) - Cardinality(Users(f) \cap ({p} \X Named(p, D, f)))
      BY <3>3, FS_Difference
    <3>5. Cardinality(Users(f)') = Cardinality(Users(f)) - Uses(p, D, f)
      BY <3>1, <3>2, <3>3, <3>4, Zenon
    <3>6. ftable[f].ref = dupLost[f] + Cardinality(Users(f)) /\ dupLost[f] \in Nat
      BY <1>1, <2>2, FilesAssumption DEF Descriptors
    <3> QED
      BY <2>1, <2>6, <2>9, <3>3, <3>5, <3>6
  <2>13. ASSUME NEW q \in Procs, loc[q].at = "io"
         PROVE  \E e \in Fds : /\ filelist'[q][e] \in FileIds /\ filelist'[q][e] # None
                               /\ ftable'[filelist'[q][e]].ip = loc[q].ip
                               /\ ftable'[filelist'[q][e]].ref > 0
    <3>1. PICK e \in Fds : filelist[q][e] # None /\ ftable[filelist[q][e]].ip = loc[q].ip
      BY <1>1, <2>13 DEF Descriptors
    <3>2. PICK g \in FileIds : g = filelist[q][e]
      BY <1>1, <3>1, NamedOpen
    <3>3. q # p /\ filelist'[q][e] = g
      BY <2>4, <2>13, <3>2
    <3>4. <<q, e>> \in Users(g)'
      BY <3>3 DEF Users
    <3>5. ftable'[g].ref > 0
      <4>1. IsFiniteSet(Users(g)')
        <5>1. Users(g)' \subseteq Procs \X Fds
          BY DEF Users
        <5>2. IsFiniteSet(Procs \X Fds)
          BY Finite, FS_Product
        <5> QED
          BY <5>1, <5>2, FS_Subset
      <4>2. Cardinality(Users(g)') \in Nat /\ Cardinality(Users(g)') # 0
        BY <3>4, <4>1, FS_CardinalityType, FS_EmptySet
      <4>3. dupLost'[g] \in Nat
        BY <2>1, <2>2, FilesAssumption
      <4> QED
        BY <2>12, <4>2, <4>3
    <3> QED
      BY <2>9, <3>1, <3>2, <3>3, <3>5, Sizes
  <2>14. Table(icache', loc, ftable', dirLost)
    <3>1. PICK ft \in FtableType, ic \in IcacheType : ft = ftable' /\ ic = icache'
      BY <2>8, <2>11
    <3>2. \A s \in Slots : /\ ic[s].num = icache[s].num /\ ic[s].slk = icache[s].slk
                           /\ ic[s].ref - Cardinality(Opens(ft, s))
                               = icache[s].ref - Cardinality(Opens(ftable, s))
      <4> SUFFICES ASSUME NEW s \in Slots
                   PROVE  /\ ic[s].num = icache[s].num /\ ic[s].slk = icache[s].slk
                          /\ ic[s].ref - Cardinality(Opens(ft, s))
                               = icache[s].ref - Cardinality(Opens(ftable, s))
        OBVIOUS
      <4>1. Cardinality(Opens(ftable, s)) \in Nat
        BY OpensFinite
      <4> QED
        BY <2>10, <2>11, <3>1, <4>1
    <3>3. /\ \A g \in FileIds : ft[g].ref > 0 =>
               ftable[g].ref > 0 /\ ft[g].ip = ftable[g].ip /\ ft[g].of = ftable[g].of
          /\ \A q \in Procs : loc[q].at = "io" => Opens(ft, loc[q].ip) # {}
      BY <2>9, <2>13, <3>1 DEF Opens
    <3>4. FilesTo(icache, loc, ftable, ic, ft)
      BY <3>2, <3>3 DEF FilesTo
    <3>5. Table(ic, loc, ft, dirLost)
      BY <1>1, <3>4, FilesChange
    <3> QED
      BY <3>1, <3>5
  <2>15. Descriptors'
    <3>1. ASSUME NEW q \in Procs, state'[q] = "unused", NEW e \in Fds PROVE filelist'[q][e] = None
      <4>1. CASE q = p
        BY <2>4, <2>5, <3>1, <4>1 DEF OpenFds
      <4>2. CASE q # p
        BY <1>1, <2>4, <2>5, <3>1, <4>2 DEF Descriptors
      <4> QED
        BY <4>1, <4>2
    <3>2. \A q \in Procs : loc'[q].at # "run" => state'[q] = "live"
      BY <1>1, <2>1, <2>5 DEF Descriptors
    <3>3. \A q \in Procs : loc'[q].at = "io" =>
            \E e \in Fds : filelist'[q][e] # None /\ ftable'[filelist'[q][e]].ip = loc'[q].ip
      BY <2>1, <2>13
    <3> QED
      BY <2>12, <3>1, <3>2, <3>3 DEF Descriptors
  <2>16. dupLost' \in [FileIds -> 0 .. MaxLeak]
    BY <2>1, <2>2
  <2> QED
    BY <1>1, <2>1, <2>4, <2>5, <2>11, <2>14, <2>15, <2>16, FilesKept
<1> QED
  BY <1>2, <1>3

-----------------------------------------------------------------------------
(* The invariant, and what follows from it.                                *)

\* A set with at most one element.
LEMMA AtMostOne ==
  ASSUME NEW S, \A x, y \in S : x = y
  PROVE  Cardinality(S) = One(S # {})
<1>1. CASE S = {}
  BY <1>1, FS_EmptySet DEF One
<1>2. CASE S # {}
  <2>1. PICK x \in S : TRUE
    BY <1>2
  <2>2. S = {x}
    BY <2>1
  <2>3. Cardinality({x}) = 1
    BY FS_Singleton
  <2> QED
    BY <1>2, <2>2, <2>3 DEF One
<1> QED
  BY <1>1, <1>2

\* fs_init() leaves it true.
LEMMA IInvInit == Init => IInv
<1> SUFFICES ASSUME Init PROVE IInv
  OBVIOUS
<1>1. /\ entries = [n \in Names |-> CASE n = "d.txt" -> 1 [] n = "b.txt" -> 2 [] OTHER -> None]
      /\ ibits = {Root, 1, 2}
      /\ ftable = [f \in FileIds |-> [ref |-> 0, ip |-> None, of |-> None]]
      /\ filelist = [p \in Procs |-> [d \in Fds |-> None]]
      /\ state = [p \in Procs |-> IF p = Zero THEN "live" ELSE "unused"]
      /\ dupLost = [f \in FileIds |-> 0] /\ dirLost = [i \in Inums |-> 0] /\ panicked = "no"
  BY DEF Init
<1>2. /\ entries["d.txt"] = 1 /\ entries["b.txt"] = 2 /\ {"d.txt", "b.txt"} \subseteq Names
      /\ \A n \in Names \ {"d.txt", "b.txt"} : entries[n] = None
  BY <1>1, FilesAssumption
<1>3. \A i \in Inums :
        /\ inode[i].type = IF i \in {Root, 2} THEN DIR ELSE IF i = 1 THEN FILE ELSE "unused"
        /\ inode[i].nlink = IF i <= 2 THEN 1 ELSE 0
        /\ inode[i].empty = (i \notin {Root, 2})
  BY DEF Init
<1>4. \A s \in Slots : /\ icache[s].num = IF s = 0 THEN Root ELSE None
                       /\ icache[s].ref = IF s = 0 THEN 1 ELSE 0
                       /\ icache[s].slk = FALSE
  BY DEF Init
<1>5. \A p \in Procs : loc[p].at = "run"
  BY DEF Init, Idle
<1>6. TypeOK
  <2>1. entries \in [Names -> Inums \cup {None}]
    <3>1. \A n \in Names : entries[n] \in Inums \cup {None}
      BY <1>2, Sizes
    <3> QED
      BY <1>1, <3>1
  <2>2. inode \in [Inums -> [type : {"unused", FILE, DIR}, nlink : Nat, empty : BOOLEAN]]
    BY DEF Init
  <2>3. icache \in [Slots -> [num : Inums \cup {None}, ref : Nat, slk : BOOLEAN]]
    BY Sizes DEF Init
  <2>4. loc \in [Procs -> [at : Waits, ip : Slots \cup {None}, name : Names \cup {"none"}]]
    BY DEF Init, Idle, Waits
  <2>5. ibits \subseteq Inums
    BY <1>1, Sizes
  <2>6. /\ ftable \in [FileIds -> [ref : Nat, ip : Slots \cup {None}, of : Inums \cup {None}]]
        /\ filelist \in [Procs -> [Fds -> FileIds \cup {None}]]
        /\ state \in [Procs -> {"unused", "live", "zombie"}]
    BY <1>1
  <2>7. dupLost \in [FileIds -> 0 .. MaxLeak] /\ dirLost \in [Inums -> Nat] /\ panicked = "no"
    BY <1>1, FilesAssumption
  <2> QED
    BY <2>1, <2>2, <2>3, <2>4, <2>5, <2>6, <2>7 DEF TypeOK
<1>7. Table(icache, loc, ftable, dirLost)
  <2>1. /\ icache \in IcacheType /\ loc \in LocType /\ ftable \in FtableType
        /\ dirLost \in [Inums -> Nat]
    BY <1>6 DEF TypeOK, IcacheType, LocType, FtableType
  <2>2. Placed(icache, dirLost)
    BY <1>1, <1>4, Sizes DEF Placed
  <2>3. \A p \in Procs, s \in Slots : ~LocksIn(loc[p], s) /\ ~HoldsIn(loc[p], s) /\ ~RootIn(loc[p])
    BY <1>5 DEF LocksIn, HoldsIn, RootIn, Slotted
  <2>4. Locked(icache, loc)
    BY <1>4, <2>3 DEF Locked
  <2>5. Counted(icache, loc, ftable, dirLost)
    <3>1. \A s \in Slots : Cardinality(Opens(ftable, s)) = 0
      <4>1. \A s \in Slots : Opens(ftable, s) = {}
        BY <1>1 DEF Opens
      <4> QED
        BY <4>1, OpensFinite
    <3>2. \A s \in Slots : Lost(icache, dirLost, s) = 0
      BY <1>1, <1>4, Sizes DEF Lost
    <3>3. \A s \in Slots : ~\E p \in Procs : HoldsIn(loc[p], s)
      BY <2>3
    <3>4. ~\E p \in Procs : RootIn(loc[p])
      BY <2>3, Sizes
    <3> QED
      BY <1>4, <3>1, <3>2, <3>3, <3>4 DEF Counted, One
  <2>6. Pointed(icache, loc, ftable)
    BY <1>5 DEF Pointed, Slotted
  <2>7. Filed(icache, ftable)
    BY <1>1 DEF Filed
  <2> QED
    BY <2>1, <2>2, <2>4, <2>5, <2>6, <2>7 DEF Table
<1>8. Descriptors
  <2>1. \A f \in FileIds : Cardinality(Users(f)) = 0
    <3>1. \A f \in FileIds : Users(f) = {}
      BY <1>1, Sizes DEF Users
    <3> QED
      BY <3>1, UsersFinite
  <2> QED
    BY <1>1, <1>5, <2>1 DEF Descriptors
<1>9. Directory
  <2>1. \A n \in Names : entries[n] = None \/ entries[n] \in ibits \ {Root}
    BY <1>1, <1>2, Sizes
  <2>2. \A s \in Slots : icache[s].num = None \/ icache[s].num \in ibits
    BY <1>1, <1>4
  <2>3. inode[2].type = DIR /\ ~inode[2].empty /\ \A i \in ibits : inode[i].type # "unused"
    BY <1>1, <1>3, Sizes DEF FILE, DIR
  <2> QED
    BY <1>1, <1>5, <2>1, <2>2, <2>3 DEF Directory
<1>10. Links
  <2>1. \A i : ~Counting(i)
    BY <1>5 DEF Counting
  <2>2. ASSUME NEW i \in Inums \ {Root, 2} PROVE inode[i].nlink = Cardinality(NamesOf(i))
    <3>1. CASE i = 1
      <4>1. NamesOf(1) = {"d.txt"}
        BY <1>2, Sizes DEF NamesOf, None
      <4>2. Cardinality({"d.txt"}) = 1
        BY FS_Singleton
      <4>3. inode[1].nlink = 1
        BY <1>3, Sizes
      <4> QED
        BY <3>1, <4>1, <4>2, <4>3, Zenon
    <3>2. CASE i # 1
      <4>1. NamesOf(i) = {}
        BY <1>2, <3>2, Sizes DEF NamesOf
      <4>2. i \in Nat /\ i > 2
        BY <3>2, Sizes
      <4>3. inode[i].nlink = 0
        BY <1>3, <4>2
      <4> QED
        BY <4>1, <4>3, FS_EmptySet
    <3> QED
      BY <3>1, <3>2
  <2>3. SubDirs = {}
    <3>1. inode[1].type # DIR
      BY <1>3, Sizes DEF FILE, DIR
    <3> QED
      BY <1>2, <3>1 DEF SubDirs
  <2>4. inode[Root].nlink = 1 + Cardinality(SubDirs)
    <3>1. inode[Root].nlink = 1 /\ Cardinality(SubDirs) = 0
      BY <1>3, <2>3, Sizes, FS_EmptySet
    <3> QED
      BY <3>1
  <2>5. \A i \in Inums \ {Root, 2} :
          inode[i].nlink = Cardinality(NamesOf(i)) + One(Counting(i))
    <3> SUFFICES ASSUME NEW i \in Inums \ {Root, 2}
                 PROVE  inode[i].nlink = Cardinality(NamesOf(i)) + One(Counting(i))
      OBVIOUS
    <3>1. inode[i].nlink \in Nat
      BY <1>6 DEF TypeOK
    <3> QED
      BY <2>1, <2>2, <3>1 DEF One
  <2> QED
    BY <2>4, <2>5 DEF Links
<1> QED
  BY <1>6, <1>7, <1>8, <1>9, <1>10 DEF IInv, Core

\* Every step of every call keeps it.
LEMMA IInvNext == IInv /\ [Next]_vars => IInv'
<1> SUFFICES ASSUME IInv, [Next]_vars PROVE IInv'
  OBVIOUS
<1>1. CASE UNCHANGED vars
  <2>1. TypeOK'
    BY <1>1 DEF IInv, TypeOK, vars
  <2>2. panicked = "no" => Core'
    <3> SUFFICES ASSUME panicked = "no" PROVE Core'
      OBVIOUS
    <3>1. /\ UNCHANGED <<entries, inode, ibits, icache, ftable, filelist, state, loc, dupLost, dirLost>>
          /\ Table(icache, loc, ftable, dirLost) /\ Descriptors /\ Directory /\ Links
      BY <1>1, Facts DEF vars
    <3>2. \A f, p, j : Users(f)' = Users(f) /\ Num(p)' = Num(p) /\ NamesOf(j)' = NamesOf(j)
      BY <3>1 DEF Users, Num, NamesOf
    <3>3. \A j : Counting(j)' = Counting(j)
      BY <3>1, <3>2 DEF Counting
    <3>4. SubDirs' = SubDirs
      BY <3>1 DEF SubDirs
    <3>5. Descriptors'
      BY <3>1, <3>2 DEF Descriptors
    <3>6. Directory'
      BY <3>1, <3>2 DEF Directory
    <3>7. Links'
      BY <3>1, <3>2, <3>3, <3>4 DEF Links
    <3>8. Table(icache, loc, ftable, dirLost)'
      BY <3>1
    <3> QED
      BY <3>5, <3>6, <3>7, <3>8 DEF Core
  <2> QED
    BY <1>1, <2>1, <2>2 DEF IInv, vars
<1>2. ASSUME NEW p \in Procs, PathCall(p) PROVE IInv'
  <2>1. CASE Lookup(p)
    BY <2>1, LookupStep
  <2>2. CASE LookupFails(p)
    BY <2>2, RootReturn DEF LookupFails
  <2>3. CASE Chdir(p)
    BY <2>3, PutInodeStep DEF Chdir
  <2>4. CASE LinkDir(p)
    BY <2>4, LinkDirStep
  <2>5. CASE UnlinkName(p)
    BY <2>5, UnlinkNameStep
  <2>6. CASE UnlinkEnd(p)
    BY <2>6, UnlinkEndStep
  <2>7. ASSUME NEW n \in Names, LookupFinds(p, n) \/ UnlinkFound(p, n) \/ LinkEnd(p, n)
        PROVE  IInv'
    BY <2>7, LookupFindsStep, UnlinkFoundStep, LinkEndStep
  <2>8. ASSUME NEW n \in Names, NEW dir \in BOOLEAN, CreateEnd(p, n, dir) PROVE IInv'
    BY <2>8, CreateEndStep
  <2>9. ASSUME NEW write \in BOOLEAN, OpenEnd(p, write) PROVE IInv'
    BY <2>9, OpenEndStep
  <2> QED
    BY <1>2, <2>1, <2>2, <2>3, <2>4, <2>5, <2>6, <2>7, <2>8, <2>9 DEF PathCall
<1>3. ASSUME NEW p \in Procs, FdCall(p) PROVE IInv'
  <2>1. ASSUME NEW d \in Fds, IoStart(p, d) PROVE IInv'
    BY <2>1, IoStartStep
  <2>2. ASSUME NEW d \in Fds, Close(p, d) PROVE IInv'
    <3>1. /\ panicked = "no" /\ loc[p].at = "run" /\ state[p] # "unused"
          /\ {d} \subseteq OpenFds(p) /\ CloseAll(p, {d}) /\ state' = state
      BY <2>2 DEF Close, At
    <3> QED
      BY <3>1, CloseAllStep
  <2>3. ASSUME NEW d \in Fds, Dup(p, d) PROVE IInv'
    BY <2>3, DupStep
  <2>4. CASE IoEnd(p)
    BY <2>4, IoEndStep
  <2>5. CASE IoCopies(p)
    BY <2>5, PanicStep DEF IoCopies
  <2>6. ASSUME NEW c \in Procs, Fork(p, c) PROVE IInv'
    BY <2>6, ForkStep
  <2>7. ASSUME NEW z \in Procs, Reap(p, z) PROVE IInv'
    <3>1. /\ panicked = "no" /\ state[z] = "zombie" /\ CloseAll(z, OpenFds(z))
          /\ state' = IF panicked' = "no" THEN [state EXCEPT ![z] = "unused"] ELSE state
      BY <2>7 DEF Reap, At
    <3>2. loc[z].at = "run"
      BY <3>1, Facts DEF Descriptors
    <3>3. OpenFds(z) \subseteq OpenFds(z) /\ state[z] # "unused"
      BY <3>1
    <3> QED
      BY <3>1, <3>2, <3>3, CloseAllStep
  <2>8. CASE Exit(p)
    BY <2>8, ExitStep
  <2> QED
    BY <1>3, <2>1, <2>2, <2>3, <2>4, <2>5, <2>6, <2>7, <2>8 DEF FdCall
<1> QED
  BY <1>1, <1>2, <1>3 DEF Next

\* In every reachable state of the file system, whatever the processes, names
\* and table sizes, the tables agree with each other as IInv says.
THEOREM Inductive == Spec => []IInv
BY IInvInit, IInvNext, PTL DEF Spec

\* Every variable keeps its type: no counter of file.c or inode.c goes below 0.
THEOREM TypeCorrect == Spec => []TypeOK
<1>1. IInv => TypeOK
  BY DEF IInv
<1> QED
  BY <1>1, Inductive, PTL

\* file_alloc(), file_dup(), file_close() and proc_fork() keep a file's ref equal
\* to the descriptors that name it and the references sys_dup() has lost.
THEOREM FileRefsCounted == Spec => []FileRefsExact
<1>1. IInv => FileRefsExact
  BY Facts DEF FileRefsExact, Descriptors, Users
<1> QED
  BY <1>1, Inductive, PTL

\* Every error path of every path call, open and close gives back the inode
\* references it has taken, except the one sys_mkdir() keeps.
THEOREM InodeRefsCounted == Spec => []InodeRefsExact
<1>1. IInv => InodeRefsExact
  <2> SUFFICES ASSUME IInv, panicked = "no", NEW s \in Slots
               PROVE  icache[s].ref =
        Cardinality({f \in FileIds : ftable[f].ref > 0 /\ ftable[f].ip = s})
        + Cardinality({p \in Procs : HoldsSlot(p, s)})
        + (IF icache[s].num = Root THEN 1 + Cardinality({p \in Procs : HoldsRoot(p)}) ELSE 0)
        + (IF icache[s].num = None THEN 0 ELSE dirLost[icache[s].num])
    BY DEF InodeRefsExact
  <2>1. /\ icache \in IcacheType /\ dirLost \in [Inums -> Nat] /\ Placed(icache, dirLost)
        /\ Locked(icache, loc) /\ Counted(icache, loc, ftable, dirLost)
    BY Facts DEF Table
  <2>2. Cardinality({p \in Procs : HoldsSlot(p, s)}) = One(\E p \in Procs : HoldsIn(loc[p], s))
    <3>1. \A p \in Procs : HoldsSlot(p, s) <=> HoldsIn(loc[p], s)
      BY DEF HoldsSlot, HoldsIn, Slotted
    <3>2. PICK S : S = {p \in Procs : HoldsSlot(p, s)}
      OBVIOUS
    <3>3. \A p, q \in S : p = q
      BY <2>1, <3>1, <3>2 DEF Locked, LocksIn
    <3>4. Cardinality(S) = One(S # {})
      BY <3>3, AtMostOne
    <3>5. S # {} <=> \E p \in Procs : HoldsIn(loc[p], s)
      BY <3>1, <3>2
    <3> QED
      BY <3>2, <3>4, <3>5 DEF One
  <2>3. Cardinality({p \in Procs : HoldsRoot(p)}) = One(\E p \in Procs : RootIn(loc[p]))
    <3>1. \A p \in Procs : HoldsRoot(p) <=> RootIn(loc[p])
      BY DEF HoldsRoot, RootIn
    <3>2. PICK S : S = {p \in Procs : HoldsRoot(p)}
      OBVIOUS
    <3>3. \A p, q \in S : p = q
      BY <2>1, <3>1, <3>2, Sizes DEF Locked, LocksIn
    <3>4. Cardinality(S) = One(S # {})
      BY <3>3, AtMostOne
    <3>5. S # {} <=> \E p \in Procs : RootIn(loc[p])
      BY <3>1, <3>2
    <3> QED
      BY <3>2, <3>4, <3>5 DEF One
  <2>4. icache[s].num = Root <=> s = 0
    BY <2>1, Sizes DEF Placed
  <2>5. Opens(ftable, s) = {f \in FileIds : ftable[f].ref > 0 /\ ftable[f].ip = s}
    BY DEF Opens
  <2>6. Lost(icache, dirLost, s) = IF icache[s].num = None THEN 0 ELSE dirLost[icache[s].num]
    BY DEF Lost
  <2>7. icache[s].ref = Cardinality(Opens(ftable, s)) + One(\E p \in Procs : HoldsIn(loc[p], s))
          + One(s = 0) + One(s = 0 /\ \E p \in Procs : RootIn(loc[p])) + Lost(icache, dirLost, s)
    BY <2>1 DEF Counted
  <2>8. Cardinality(Opens(ftable, s)) \in Nat /\ Lost(icache, dirLost, s) \in Nat
    BY <2>1, OpensFinite DEF Lost, IcacheType
  <2>9. PICK r : r = IF icache[s].num = Root THEN 1 + Cardinality({p \in Procs : HoldsRoot(p)}) ELSE 0
    OBVIOUS
  <2>10. PICK a, b, c : /\ a = One(\E p \in Procs : HoldsIn(loc[p], s)) /\ b = One(s = 0)
                        /\ c = One(s = 0 /\ \E p \in Procs : RootIn(loc[p]))
    OBVIOUS
  <2>11. a \in Nat /\ b \in Nat /\ c \in Nat /\ b + c = r
    BY <2>3, <2>4, <2>9, <2>10 DEF One
  <2>12. icache[s].ref = Cardinality(Opens(ftable, s)) + a + b + c + Lost(icache, dirLost, s)
    BY <2>7, <2>10, Zenon
  <2>13. icache[s].ref = Cardinality(Opens(ftable, s)) + a + r + Lost(icache, dirLost, s)
    BY <2>8, <2>11, <2>12
  <2>14. a = Cardinality({p \in Procs : HoldsSlot(p, s)})
    BY <2>2, <2>10, Zenon
  <2> QED
    BY <2>5, <2>6, <2>9, <2>13, <2>14
<1> QED
  BY <1>1, Inductive, PTL

\* inode_alloc() never gives the slot of an open file to another inode and never
\* puts an inode into two slots.
THEOREM FilesKeepInodes == Spec => []OpenFileKeepsInode
<1>1. IInv => OpenFileKeepsInode
  BY Facts DEF OpenFileKeepsInode, Table, Placed, Filed
<1> QED
  BY <1>1, Inductive, PTL

\* inode_lock() and inode_unlock() pair up on every path: an inode is locked
\* exactly while one call is in a wait with it.
THEOREM LocksPaired == Spec => []InodeLockExact
<1>1. IInv => InodeLockExact
  <2> SUFFICES ASSUME IInv, panicked = "no", NEW s \in Slots
               PROVE  Cardinality({p \in Procs : \/ HoldsSlot(p, s)
                                                 \/ loc[p].at = "io" /\ loc[p].ip = s
                                                 \/ HoldsRoot(p) /\ icache[s].num = Root})
                        = (IF icache[s].slk THEN 1 ELSE 0)
    BY DEF InodeLockExact
  <2>1. Placed(icache, dirLost) /\ Locked(icache, loc)
    BY Facts DEF Table
  <2>2. icache[s].num = Root <=> s = 0
    BY <2>1, Sizes DEF Placed
  <2>3. PICK S : S = {p \in Procs : \/ HoldsSlot(p, s)
                                    \/ loc[p].at = "io" /\ loc[p].ip = s
                                    \/ HoldsRoot(p) /\ icache[s].num = Root}
    OBVIOUS
  <2>4. \A p \in Procs : p \in S <=> LocksIn(loc[p], s)
    BY <2>2, <2>3 DEF LocksIn, HoldsIn, RootIn, HoldsSlot, HoldsRoot, Slotted
  <2>5. \A p, q \in S : p = q
    BY <2>1, <2>3, <2>4 DEF Locked
  <2>6. Cardinality(S) = One(S # {})
    BY <2>5, AtMostOne
  <2>7. S # {} <=> icache[s].slk
    BY <2>1, <2>3, <2>4 DEF Locked
  <2> QED
    BY <2>3, <2>6, <2>7 DEF One
<1> QED
  BY <1>1, Inductive, PTL

\* path_link(), path_unlink() and path_create_inode() keep nlink equal to the
\* names of an inode, however their waits interleave.
THEOREM LinksCounted == Spec => []LinksExact
<1>1. IInv => LinksExact
  <2> SUFFICES ASSUME IInv, panicked = "no"
               PROVE  /\ \A i \in Inums \ {Root, 2} :
                           inode[i].nlink = Cardinality({n \in Names : entries[n] = i})
                             + Cardinality({p \in Procs : loc[p].at = "gone"
                                                           /\ icache[loc[p].ip].num = i})
                      /\ inode[Root].nlink = 1 + Cardinality({n \in Names :
                           entries[n] \notin {None, 2} /\ inode[entries[n]].type = DIR})
    BY DEF LinksExact
  <2>1. Links /\ Table(icache, loc, ftable, dirLost)
    BY Facts
  <2>2. ASSUME NEW i \in Inums \ {Root, 2}
        PROVE  inode[i].nlink = Cardinality({n \in Names : entries[n] = i})
                 + Cardinality({p \in Procs : loc[p].at = "gone" /\ icache[loc[p].ip].num = i})
    <3>1. PICK S : S = {p \in Procs : loc[p].at = "gone" /\ icache[loc[p].ip].num = i}
      OBVIOUS
    <3>2. \A p, q \in S : p = q
      BY <2>1, <3>1, SoleHolder DEF Num, Slotted
    <3>3. Cardinality(S) = One(S # {})
      BY <3>2, AtMostOne
    <3>4. S # {} <=> Counting(i)
      BY <3>1 DEF Counting, Num
    <3>5. Cardinality(S) = One(Counting(i))
      BY <3>3, <3>4 DEF One
    <3> QED
      BY <2>1, <3>1, <3>5 DEF Links, NamesOf
  <2> QED
    BY <2>1, <2>2 DEF Links, SubDirs
<1> QED
  BY <1>1, Inductive, PTL

-----------------------------------------------------------------------------
(* The assertions of file.c.                                               *)

\* file_close() and file_dup() never meet a file without references.
AssertionsHold == panicked \notin {"close", "dup"}

\* A path call stops for other reasons.
LEMMA PathPanics ==
  ASSUME NEW p \in Procs, PathCall(p)
  PROVE  panicked' \in {panicked, "acquire", "no inode", "no file", "destroy", "no lock"}
<1>1. CASE Lookup(p) \/ LookupFails(p)
  BY <1>1 DEF Lookup, LookupFails, Panic
<1>2. ASSUME PutInode(p) PROVE panicked' \in {panicked, "destroy"}
  BY <1>2 DEF PutInode, Panic
<1>3. CASE Chdir(p) \/ LinkDir(p)
  BY <1>2, <1>3 DEF Chdir, LinkDir, Panic
<1>4. CASE UnlinkName(p) \/ UnlinkEnd(p)
  BY <1>4 DEF UnlinkName, UnlinkEnd, Panic
<1>5. ASSUME NEW n \in Names, LookupFinds(p, n) \/ UnlinkFound(p, n) \/ LinkEnd(p, n)
      PROVE  panicked' \in {panicked, "acquire", "no inode"}
  BY <1>5 DEF LookupFinds, UnlinkFound, LinkEnd, Panic
<1>6. ASSUME NEW ic, NEW s, NEW dk, FileOpen(p, ic, s, dk)
      PROVE  panicked' \in {panicked, "no file", "destroy"}
  BY <1>6 DEF FileOpen, Panic
<1>7. ASSUME NEW n \in Names, NEW dir \in BOOLEAN, CreateEnd(p, n, dir)
      PROVE  panicked' \in {panicked, "no inode", "no lock", "no file", "destroy"}
  BY <1>6, <1>7 DEF CreateEnd, Panic
<1>8. ASSUME NEW write \in BOOLEAN, OpenEnd(p, write)
      PROVE  panicked' \in {panicked, "no file", "destroy"}
  BY <1>2, <1>6, <1>8 DEF OpenEnd
<1> QED
  BY <1>1, <1>3, <1>4, <1>5, <1>7, <1>8 DEF PathCall

\* A process has no more descriptors of a file than the file has references.
LEMMA UsesCounted ==
  ASSUME TypeOK, Descriptors, NEW p \in Procs, NEW D, D \subseteq Fds, NEW f \in FileIds
  PROVE  ~(Uses(p, D, f) > ftable[f].ref)
<1>1. Named(p, D, f) \subseteq Fds /\ Uses(p, D, f) = Cardinality(Named(p, D, f))
  BY DEF Named, Uses
<1>2. Cardinality({p} \X Named(p, D, f)) = Cardinality(Named(p, D, f)) /\ Uses(p, D, f) \in Nat
  BY <1>1, RowCount
<1>3. {p} \X Named(p, D, f) \subseteq Users(f)
  BY DEF Named, Users
<1>4. Cardinality({p} \X Named(p, D, f)) <= Cardinality(Users(f)) /\ Cardinality(Users(f)) \in Nat
  BY <1>3, UsersFinite, FS_Subset
<1>5. dupLost[f] \in Nat /\ ftable[f].ref = dupLost[f] + Cardinality(Users(f))
  <2>1. dupLost \in [FileIds -> 0 .. MaxLeak]
    BY DEF TypeOK
  <2> QED
    BY <2>1, FilesAssumption DEF Descriptors
<1> QED
  BY <1>1, <1>2, <1>4, <1>5

\* Whatever the processes do with their descriptors, the assertions of
\* file_close() and file_dup() on the reference count hold: no sequence of open,
\* dup, fork, close, exit and wait closes a file twice or copies a closed one.
THEOREM FileAssertionsHold == Spec => []AssertionsHold
<1>1. Init => AssertionsHold
  BY DEF Init, AssertionsHold
<1>2. IInv /\ AssertionsHold /\ [Next]_vars => AssertionsHold'
  <2> SUFFICES ASSUME IInv, AssertionsHold, [Next]_vars PROVE AssertionsHold'
    OBVIOUS
  <2>1. CASE UNCHANGED vars
    BY <2>1 DEF vars, AssertionsHold
  <2>2. ASSUME NEW p \in Procs, PathCall(p) PROVE AssertionsHold'
    BY <2>2, PathPanics DEF AssertionsHold
  <2>3. ASSUME NEW p \in Procs, FdCall(p) PROVE AssertionsHold'
    <3>1. panicked = "no" /\ TypeOK /\ Descriptors
      <4>1. panicked = "no"
        BY <2>3 DEF FdCall, IoStart, IoEnd, IoCopies, Close, Dup, Fork, Reap, Exit, At
      <4> QED
        BY <4>1, Facts
    <3>2. ASSUME NEW z \in Procs, NEW D, D \subseteq Fds, CloseAll(z, D) PROVE AssertionsHold'
      <4>1. ~\E f \in FileIds : Uses(z, D, f) > ftable[f].ref
        BY <3>1, <3>2, UsesCounted
      <4>2. panicked' \in {panicked, "destroy"}
        BY <3>2, <4>1 DEF CloseAll, Panic
      <4> QED
        BY <3>1, <4>2 DEF AssertionsHold
    <3>3. ASSUME NEW d \in Fds, IoStart(p, d) PROVE AssertionsHold'
      BY <3>1, <3>3 DEF IoStart, Panic, AssertionsHold
    <3>4. ASSUME NEW d \in Fds, Close(p, d) PROVE AssertionsHold'
      <4>1. {d} \subseteq Fds /\ CloseAll(p, {d})
        BY <3>4 DEF Close
      <4> QED
        BY <3>2, <4>1
    <3>5. ASSUME NEW d \in Fds, Dup(p, d) PROVE AssertionsHold'
      <4>1. filelist[p][d] # None
        BY <3>5 DEF Dup
      <4>2. ftable[filelist[p][d]].ref # 0
        BY <3>1, <4>1, NamedOpen
      <4> QED
        BY <3>1, <3>5, <4>2 DEF Dup, AssertionsHold
    <3>6. CASE IoEnd(p) \/ IoCopies(p) \/ Exit(p)
      BY <3>1, <3>6 DEF IoEnd, IoCopies, Exit, Panic, AssertionsHold
    <3>7. ASSUME NEW c \in Procs, Fork(p, c) PROVE AssertionsHold'
      <4>1. ~\E d \in OpenFds(p) : ftable[filelist[p][d]].ref = 0
        BY <3>1, NamedOpen DEF OpenFds
      <4> QED
        BY <3>1, <3>7, <4>1 DEF Fork, AssertionsHold
    <3>8. ASSUME NEW z \in Procs, Reap(p, z) PROVE AssertionsHold'
      <4>1. OpenFds(z) \subseteq Fds /\ CloseAll(z, OpenFds(z))
        BY <3>8 DEF Reap, OpenFds
      <4> QED
        BY <3>2, <4>1
    <3> QED
      BY <2>3, <3>3, <3>4, <3>5, <3>6, <3>7, <3>8 DEF FdCall
  <2> QED
    BY <2>1, <2>2, <2>3 DEF Next
<1> QED
  BY <1>1, <1>2, Inductive, PTL DEF Spec
=============================================================================
