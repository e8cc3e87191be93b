--------------------------- MODULE InodeDataProofs ---------------------------
(***************************************************************************)
(* Proofs about InodeData, for every number of inodes and blocks and every *)
(* size of the tree of blocks under an inode: types, and that the trees    *)
(* stay disjoint, power cuts between any two disk writes included.         *)
(***************************************************************************)
EXTENDS InodeData, NaturalsInduction, WellFoundedInduction, TLAPS

\* Blocks an inode can have: INODE_MAXSIZE in blocks.
MaxBlocks == N1 + N2 * E + E * E

-----------------------------------------------------------------------------
(* Constants and arithmetic.                                               *)

\* The constants of the file system are natural numbers, and block numbers and
\* words of data are told apart by Max(Blocks).
LEMMA Sizes ==
  /\ NINUM \in Nat /\ E \in Nat /\ N1 \in Nat /\ N2 \in Nat /\ NB \in Nat
  /\ NINUM >= 1 /\ E >= 1 /\ N1 >= 1 /\ N2 >= 1 /\ NB >= 1
  /\ W \in Nat /\ MaxBlocks \in Nat /\ MAXSIZE \in Nat
  /\ MAXSIZE = MaxBlocks * E /\ MAXSIZE < W
  /\ N2 * E \in Nat /\ E * E \in Nat
<1>1. /\ NINUM \in Nat /\ E \in Nat /\ N1 \in Nat /\ N2 \in Nat /\ NB \in Nat
      /\ NINUM >= 1 /\ E >= 1 /\ N1 >= 1 /\ N2 >= 1 /\ NB >= 1
  BY DataAssumption
<1>2. W \in Nat /\ W > (N1 + N2 * E + E * E) * E
  BY DataAssumption
<1>3. N2 * E \in Nat /\ E * E \in Nat
  BY <1>1
<1>4. MaxBlocks \in Nat
  BY <1>1, <1>3 DEF MaxBlocks
<1>5. MAXSIZE = MaxBlocks * E
  BY DEF MAXSIZE, MaxBlocks
<1>6. MaxBlocks * E \in Nat
  BY <1>1, <1>4
<1>7. W > MaxBlocks * E
  BY <1>2 DEF MaxBlocks
<1> QED
  BY <1>1, <1>2, <1>3, <1>4, <1>5, <1>6, <1>7

\* The largest block number is NB, and words go beyond the magic number.
LEMMA Numbers ==
  /\ Blocks = 0 .. NB /\ Max(Blocks) = NB
  /\ Magic = NB + NINUM + 1
  /\ \A i \in Inums : Data(i) = NB + i /\ Data(i) \in Words
  /\ Blocks \subseteq Words /\ 0 \in Blocks /\ 0 \in Entries
<1>1. Blocks = 0 .. NB
  BY Sizes DEF Blocks, DataStart
<1>2. Max(Blocks) = NB
  BY <1>1, Sizes DEF Max
<1> QED
  BY <1>1, <1>2, Sizes DEF Magic, Dirent, Data, Words, Inums, Entries

\* Division by a block's size stays below n blocks for what is below n * E.
LEMMA DivBelow ==
  ASSUME NEW a \in Nat, NEW n \in Nat, a < n * E
  PROVE  a \div E \in 0 .. n - 1
<1>1. E \in Nat /\ E >= 1
  BY Sizes
<1>2. PICK q \in Nat : a \div E = q
  BY <1>1
<1>3. q * E <= a
  BY <1>1, <1>2
<1>4. CASE q >= n
  <2>1. PICK d \in Nat : q = n + d
    BY <1>4
  <2>2. q * E = n * E + d * E
    BY <2>1, <1>1
  <2>3. d * E >= 0 /\ d * E \in Nat /\ n * E \in Nat /\ q * E \in Nat
    BY <1>1
  <2> QED
    BY <2>2, <2>3, <1>3
<1> QED
  BY <1>2, <1>4

\* The rest of a division is a place in a block.
LEMMA ModEntry == \A a \in Nat : a % E \in Entries
BY Sizes DEF Entries
\* A path: an index into addrs, then for an indirect address one or two entries.
IsPath(p) ==
  \/ \E a \in 0 .. N1 - 1 : p = <<a>>
  \/ \E a \in N1 .. N1 + N2 - 1, e \in Entries : p = <<a, e>>
  \/ \E e, f \in Entries : p = <<N1 + N2, e, f>>

\* inode_locate_block() finds a path for the blocks an inode can have, and only
\* for those.
LEMMA PathOf ==
  ASSUME NEW bn \in Nat
  PROVE  /\ bn < MaxBlocks => IsPath(Path(bn))
         /\ bn >= MaxBlocks => Path(bn) = <<>>
<1> DEFINE c == bn - N1
           d == c - N2 * E
<1>1. c \in Int /\ d \in Int /\ N1 \in Nat /\ N2 * E \in Nat /\ E * E \in Nat /\ N2 \in Nat
  BY Sizes
<1>2. CASE c < 0
  <2>1. Path(bn) = <<bn>>
    BY <1>2 DEF Path
  <2>2. bn \in 0 .. N1 - 1 /\ bn < MaxBlocks
    BY <1>1, <1>2 DEF MaxBlocks
  <2> QED
    BY <2>1, <2>2, <1>1, Sizes DEF IsPath
<1>3. CASE c >= 0 /\ d < 0
  <2>1. Path(bn) = <<N1 + c \div E, c % E>>
    BY <1>3, <1>1 DEF Path
  <2>2. c \in Nat /\ c < N2 * E
    BY <1>1, <1>3
  <2>3. c \div E \in 0 .. N2 - 1 /\ c % E \in Entries
    BY <2>2, <1>1, DivBelow, ModEntry
  <2>4. N1 + c \div E \in N1 .. N1 + N2 - 1
    BY <2>3, <1>1
  <2>5. bn < MaxBlocks
    BY <1>1, <2>2 DEF MaxBlocks
  <2> HIDE DEF c, d
  <2> QED
    BY <2>1, <2>3, <2>4, <2>5, Sizes DEF IsPath
<1>4. CASE c >= 0 /\ d >= 0 /\ d < E * E
  <2>1. Path(bn) = <<N1 + N2, d \div E, d % E>>
    BY <1>4, <1>1 DEF Path
  <2>2. d \in Nat /\ d < E * E
    BY <1>1, <1>4
  <2>3. d \div E \in Entries /\ d % E \in Entries
    BY <2>2, Sizes, DivBelow, ModEntry DEF Entries
  <2>5. bn < MaxBlocks
    BY <1>1, <2>2 DEF MaxBlocks
  <2> HIDE DEF c, d
  <2> QED
    BY <2>1, <2>3, <2>5, Sizes DEF IsPath
<1>5. CASE c >= 0 /\ d >= 0 /\ ~(d < E * E)
  <2>1. Path(bn) = <<>>
    BY <1>5, <1>1 DEF Path
  <2>2. bn >= MaxBlocks
    BY <1>1, <1>5 DEF MaxBlocks
  <2> QED
    BY <2>1, <2>2, Sizes
<1> QED
  BY <1>1, <1>2, <1>3, <1>4, <1>5

\* A position below INODE_MAXSIZE is in a block the inode can have, and so is all
\* of that block.
LEMMA BlockOf ==
  ASSUME NEW o \in Nat
  PROVE  /\ o \div E \in Nat /\ o % E \in Entries
         /\ o < MAXSIZE => o \div E < MaxBlocks
         /\ o \div E < MaxBlocks => o + (E - (o % E)) <= MAXSIZE
<1>1. E \in Nat /\ E >= 1 /\ MaxBlocks \in Nat /\ MAXSIZE = MaxBlocks * E /\ MAXSIZE \in Nat
  BY Sizes
<1>2. PICK q \in Nat, m \in Nat : q = o \div E /\ m = o % E /\ o = q * E + m /\ m < E
  <2>1. o \div E \in Nat /\ o % E \in Nat /\ o % E < E
    BY <1>1
  <2>2. o = (o \div E) * E + (o % E)
    BY <1>1
  <2> QED
    BY <2>1, <2>2
<1>3. ASSUME o < MAXSIZE PROVE o \div E < MaxBlocks
  BY <1>1, <1>3, DivBelow
<1>4. ASSUME q < MaxBlocks PROVE q * E + E <= MAXSIZE
  <2>1. PICK d \in Nat : MaxBlocks = q + 1 + d
    BY <1>4, <1>1
  <2>2. MaxBlocks * E = q * E + E + d * E
    BY <2>1, <1>1
  <2>3. d * E \in Nat /\ q * E \in Nat
    BY <1>1
  <2> QED
    BY <2>2, <2>3, <1>1
<1>5. q * E \in Nat
  BY <1>1
<1> QED
  BY <1>1, <1>2, <1>3, <1>4, <1>5, ModEntry
-----------------------------------------------------------------------------
(* The walk of locate_block() through the tree.                            *)

Images == [bits : SUBSET (0 .. NB - 1), disk : [Blocks -> [Entries -> Words]],
           past : SUBSET {"full", "stale", "crash"}]
Steps == [blk : Blocks, e : Entries, to : Words]
Walks == [blk : Words, new : BOOLEAN, way : Seq(Steps), err : {"no", "io", "acquire"},
          last : Images, images : Seq(Images), addrs : [Addrs -> Words]]

\* The walk and its images know all that has happened before.
Remembers(r) ==
  past \subseteq r.last.past /\ \A k \in 1 .. Len(r.images) : past \subseteq r.images[k].past

\* What holds of every walk that starts from the disk of the current state.
Walk(r) == r \in Walks /\ Remembers(r)

\* The first free bit exists if any bit is free.
LEMMA MinFound ==
  ASSUME NEW S, S \subseteq Nat, S # {}
  PROVE  Min(S) \in S /\ \A m \in S : Min(S) <= m
<1>1. PICK n \in S : \A m \in S : ~(<<m, n>> \in OpToRel(<, Nat))
  BY NatLessThanWellFounded, WFMin
<1>2. \A m \in S : <<m, n>> \in Nat \X Nat /\ (m < n => <<m, n>> \in OpToRel(<, Nat))
  BY DEF OpToRel
<1>3. \A m \in S : ~(m < n)
  BY <1>1, <1>2, Zenon
<1>4. \A m \in S : n <= m
  BY <1>3
<1> QED
  BY <1>4 DEF Min

\* bitmap_alloc_block() sets one bit and returns the block of it, which is never
\* the super block nor one outside of the disk; or it returns 0.
LEMMA AllocBlockIs ==
  ASSUME NEW im \in Images
  PROVE  LET a == AllocBlock(im) IN
         /\ a.im \in Images /\ a.im.disk = im.disk /\ a.blk \in Blocks
         /\ \/ a.blk = 0 /\ a.im.past = im.past \cup {"full"} /\ a.im.bits = im.bits
            \/ /\ a.blk > 0 /\ a.blk - DataStart \in FreeBits(im)
               /\ a.im.bits = im.bits \cup {a.blk - DataStart} /\ a.im.past = im.past
<1>1. CASE FreeBits(im) = {}
  <2>1. PICK j : j = [im EXCEPT !.past = @ \cup {"full"}]
    OBVIOUS
  <2>2. j \in Images /\ j.disk = im.disk /\ j.bits = im.bits /\ j.past = im.past \cup {"full"}
    BY <2>1 DEF Images
  <2>3. AllocBlock(im) = [blk |-> 0, im |-> j]
    BY <1>1, <2>1 DEF AllocBlock
  <2> QED
    BY <2>2, <2>3, Numbers
<1>2. CASE FreeBits(im) # {}
  <2>1. FreeBits(im) \subseteq 0 .. NB - 1 /\ NB \in Nat
    BY Sizes DEF FreeBits
  <2>2. PICK b \in FreeBits(im) : b = Min(FreeBits(im))
    BY <1>2, <2>1, MinFound
  <2>3. b \in 0 .. NB - 1
    BY <2>1
  <2>4. AllocBlock(im) = [blk |-> DataStart + b, im |-> [im EXCEPT !.bits = @ \cup {b}]]
    BY <1>2, <2>2 DEF AllocBlock
  <2>5. [im EXCEPT !.bits = @ \cup {b}] \in Images
    BY <2>3 DEF Images
  <2>6. /\ [im EXCEPT !.bits = @ \cup {b}].disk = im.disk
        /\ [im EXCEPT !.bits = @ \cup {b}].bits = im.bits \cup {b}
        /\ [im EXCEPT !.bits = @ \cup {b}].past = im.past
    BY DEF Images
  <2>7. DataStart + b \in Blocks /\ DataStart + b > 0 /\ (DataStart + b) - DataStart = b
    BY <2>1, <2>3, Numbers DEF DataStart
  <2>8. AllocBlock(im).blk = DataStart + b /\ AllocBlock(im).im = [im EXCEPT !.bits = @ \cup {b}]
    BY <2>4
  <2>9. AllocBlock(im).blk - DataStart = b
    BY <2>7, <2>8
  <2> QED
    BY <2>2, <2>5, <2>6, <2>7, <2>8, <2>9
<1> QED
  BY <1>1, <1>2

\* locate_block() at an entry: allocating changes the bitmap only.
LEMMA VisitIs ==
  ASSUME NEW r, Walk(r), NEW entry \in Words
  PROVE  LET s == Visit(r, entry) IN
         /\ Walk(s)
         /\ s.way = r.way /\ s.err = r.err /\ s.addrs = r.addrs
         /\ s.last.disk = r.last.disk
         /\ r.last.past \subseteq s.last.past
         /\ entry # 0 => s.blk = entry
<1>1. r \in Walks
  BY DEF Walk
<1>2. CASE entry # 0
  <2> DEFINE s == [r EXCEPT !.blk = entry, !.new = FALSE]
  <2>1. Visit(r, entry) = s
    BY <1>2 DEF Visit
  <2>2. /\ s \in Walks /\ s.blk = entry /\ s.way = r.way /\ s.err = r.err /\ s.addrs = r.addrs
        /\ s.last = r.last /\ s.images = r.images
    BY <1>1 DEF Walks
  <2> HIDE DEF s
  <2> QED
    BY <1>2, <2>1, <2>2 DEF Walk, Remembers
<1>3. CASE entry = 0
  <2>1. r.last \in Images
    BY <1>1 DEF Walks
  <2>2. PICK a : a = AllocBlock(r.last)
    OBVIOUS
  <2>3. /\ a.im \in Images /\ a.im.disk = r.last.disk /\ a.blk \in Blocks
        /\ r.last.past \subseteq a.im.past /\ (a.blk = 0 => "full" \in a.im.past)
    BY <2>1, <2>2, AllocBlockIs
  <2> DEFINE ims == IF a.blk = 0 THEN r.images ELSE Append(r.images, a.im)
             s == [r EXCEPT !.blk = a.blk, !.new = TRUE, !.last = a.im, !.images = ims]
  <2>4. Visit(r, entry) = s
    BY <1>1, <1>3, <2>2 DEF Visit, Walks
  <2>5. ims \in Seq(Images)
    BY <1>1, <2>3 DEF Walks
  <2>6. a.blk \in Words
    BY <2>3, Numbers
  <2>7. /\ s \in Walks /\ s.blk = a.blk /\ s.way = r.way /\ s.err = r.err /\ s.addrs = r.addrs
        /\ s.last = a.im /\ s.images = ims
    <3> HIDE DEF ims
    <3> QED
      BY <1>1, <2>3, <2>5, <2>6 DEF Walks
  <2> HIDE DEF s
  <2>10. Remembers(s)
    <3>1. r.images \in Seq(Images) /\ past \subseteq a.im.past
      BY <1>1, <2>3 DEF Walk, Walks, Remembers
    <3>2. \A k \in 1 .. Len(r.images) : past \subseteq r.images[k].past
      BY DEF Walk, Remembers
    <3>3. \A k \in 1 .. Len(ims) : past \subseteq ims[k].past
      BY <3>1, <3>2, <2>3
    <3> QED
      BY <3>1, <3>3, <2>7 DEF Remembers
  <2> QED
    BY <1>3, <2>4, <2>7, <2>10, <2>3 DEF Walk
<1> QED
  BY <1>2, <1>3
\* locate_block() one level down: the bitmap may change, and the way grows by the
\* block it was at.
LEMMA DescendIs ==
  ASSUME NEW r, Walk(r), NEW path, NEW k \in {2, 3}, Len(path) \in Nat,
         k <= Len(path) => path[k] \in Entries
  PROVE  LET s == Descend(r, path, k) IN
         Walk(s) /\ s.addrs = r.addrs
<1>1. r \in Walks
  BY DEF Walk
<1>2. CASE r.err # "no" \/ k > Len(path)
  BY <1>2 DEF Descend
<1>3. ASSUME NEW x \in {"io", "acquire"}
      PROVE  LET s == [r EXCEPT !.err = x] IN
             Walk(s) /\ s.addrs = r.addrs
  <2>0. PICK s : s = [r EXCEPT !.err = x]
    OBVIOUS
  <2>1. /\ s \in Walks /\ s.blk = r.blk /\ s.way = r.way /\ s.addrs = r.addrs
        /\ s.last = r.last /\ s.images = r.images
    BY <1>1, <2>0 DEF Walks
  <2> QED
    BY <2>0, <2>1 DEF Walk, Remembers
<1>4. CASE /\ ~(r.err # "no" \/ k > Len(path)) /\ r.blk \in Blocks
           /\ ~\E j \in DOMAIN r.way : r.way[j].blk = r.blk
  <2> DEFINE words == r.last.disk[r.blk]
             stale == r.new /\ r.blk # 0 /\ words # Zeros
             pst == IF stale THEN r.last.past \cup {"stale"} ELSE r.last.past
             lst == [r.last EXCEPT !.past = pst]
             q == [r EXCEPT !.last = lst]
             v == Visit(q, words[path[k]])
             step == [blk |-> r.blk, e |-> path[k], to |-> v.blk]
             s == [v EXCEPT !.way = Append(v.way, step)]
  <2>1. path[k] \in Entries
    BY <1>4
  <2>2. words \in [Entries -> Words]
    BY <1>1, <1>4 DEF Walks, Images
  <2>3. words[path[k]] \in Words
    BY <2>1, <2>2
  <2>4. pst \in SUBSET {"full", "stale", "crash"}
    <3> HIDE DEF stale
    <3> QED
      BY <1>1 DEF Walks, Images
  <2> HIDE DEF pst
  <2>15. lst \in Images /\ lst.disk = r.last.disk /\ lst.bits = r.last.bits /\ lst.past = pst
    BY <1>1, <2>4 DEF Walks, Images
  <2>16. lst = [r.last EXCEPT !.past = IF stale THEN @ \cup {"stale"} ELSE @]
    BY <1>1 DEF Walks, Images, pst
  <2> HIDE DEF lst
  <2>5. /\ q \in Walks /\ q.blk = r.blk /\ q.way = r.way /\ q.addrs = r.addrs
        /\ q.last = lst /\ q.images = r.images
    BY <1>1, <2>15 DEF Walks
  <2>6. Descend(r, path, k) = s
    <3>1. v \in Walks => s = [v EXCEPT !.way = Append(@, step)]
      BY DEF Walks
    <3>2. q = [r EXCEPT !.last.past = IF stale THEN @ \cup {"stale"} ELSE @]
      BY <1>1, <2>16 DEF Walks
    <3> HIDE DEF q
    <3> QED
      BY <1>4, <3>2 DEF Descend
  <2> HIDE DEF q
  <2>17. r.last.past \subseteq lst.past
    BY <2>15 DEF pst
  <2>7. Walk(q)
    BY <2>5, <2>15, <2>17 DEF Walk, Remembers
  <2>8. /\ Walk(v) /\ v.way = r.way /\ v.addrs = r.addrs
        /\ v.last.disk = r.last.disk
        /\ words[path[k]] # 0 => v.blk = words[path[k]]
    <3> HIDE DEF words
    <3> QED
      BY <2>3, <2>5, <2>7, <2>15, VisitIs
  <2> HIDE DEF v
  <2>9. v \in Walks
    BY <2>8 DEF Walk
  <2>10. v.blk \in Words /\ step \in Steps
    BY <1>4, <2>1, <2>9 DEF Walks, Steps
  <2>11. r.way \in Seq(Steps) /\ Append(v.way, step) \in Seq(Steps)
    BY <1>1, <2>8, <2>10 DEF Walks
  <2>12. step.blk = r.blk /\ step.e = path[k] /\ step.to = v.blk
    OBVIOUS
  <2> HIDE DEF step
  <2>13. /\ s \in Walks /\ s.blk = v.blk /\ s.way = Append(v.way, step) /\ s.addrs = v.addrs
         /\ s.last = v.last /\ s.images = v.images
    BY <2>9, <2>11 DEF Walks
  <2> HIDE DEF s
  <2> QED
    BY <2>6, <2>8, <2>13 DEF Walk, Remembers
<1>5. CASE ~(r.err # "no" \/ k > Len(path)) /\ r.blk \notin Blocks
  <2>1. Descend(r, path, k) = [r EXCEPT !.err = "io"]
    BY <1>5 DEF Descend
  <2> QED
    BY <2>1, <1>3
<1>6. CASE /\ ~(r.err # "no" \/ k > Len(path)) /\ r.blk \in Blocks
           /\ \E j \in DOMAIN r.way : r.way[j].blk = r.blk
  <2>1. Descend(r, path, k) = [r EXCEPT !.err = "acquire"]
    BY <1>6 DEF Descend
  <2> QED
    BY <2>1, <1>3
<1> QED
  BY <1>2, <1>4, <1>5, <1>6

\* The recursion returning: a block on the way is written.
LEMMA WriteBackIs ==
  ASSUME NEW r, Walk(r), NEW k \in {1, 2}
  PROVE  LET s == WriteBack(r, k) IN
         Walk(s) /\ s.addrs = r.addrs
<1>1. r \in Walks
  BY DEF Walk
<1>2. CASE r.err # "no" \/ k > Len(r.way)
  BY <1>2 DEF WriteBack
<1>3. CASE ~(r.err # "no" \/ k > Len(r.way))
  <2> DEFINE im == PutWord(r.last, r.way[k].blk, r.way[k].e, r.way[k].to)
             s == [r EXCEPT !.last = im, !.images = Append(r.images, im)]
  <2>1. k \in 1 .. Len(r.way) /\ r.way \in Seq(Steps) /\ Len(r.way) \in Nat
    BY <1>1, <1>3 DEF Walks
  <2>2. PICK b \in Blocks, e \in Entries, w \in Words :
          b = r.way[k].blk /\ e = r.way[k].e /\ w = r.way[k].to
    <3>1. r.way[k] \in Steps
      BY <2>1
    <3> QED
      BY <3>1 DEF Steps
  <2>3. WriteBack(r, k) = s
    BY <1>1, <1>3 DEF WriteBack, Walks
  <2>4. /\ im \in Images
        /\ im.disk = [r.last.disk EXCEPT ![b][e] = w] /\ im.past = r.last.past
    BY <1>1, <2>2 DEF PutWord, Walks, Images
  <2> HIDE DEF im
  <2>5. Append(r.images, im) \in Seq(Images)
    BY <1>1, <2>4 DEF Walks
  <2>6. /\ s \in Walks /\ s.blk = r.blk /\ s.way = r.way /\ s.addrs = r.addrs
        /\ s.last = im /\ s.images = Append(r.images, im)
    BY <1>1, <2>4, <2>5 DEF Walks
  <2> HIDE DEF s
  <2>8. Remembers(s)
    <3>1. r.images \in Seq(Images) /\ past \subseteq im.past
      BY <1>1, <2>4 DEF Walk, Walks, Remembers
    <3>2. \A j \in 1 .. Len(r.images) : past \subseteq r.images[j].past
      BY DEF Walk, Remembers
    <3>3. \A j \in 1 .. Len(Append(r.images, im)) : past \subseteq Append(r.images, im)[j].past
      BY <3>1, <3>2, <2>4
    <3> QED
      BY <3>1, <3>3, <2>6 DEF Remembers
  <2> QED
    BY <2>3, <2>4, <2>6, <2>8 DEF Walk
<1> QED
  BY <1>2, <1>3
\* Every path has an index into addrs first, then entries.
LEMMA PathShape ==
  ASSUME NEW path, IsPath(path)
  PROVE  /\ path # <<>> /\ Len(path) \in Nat /\ path[1] \in Addrs
         /\ \A k \in {2, 3} : k <= Len(path) => path[k] \in Entries
<1>1. ASSUME NEW a \in 0 .. N1 - 1, path = <<a>>
      PROVE  /\ path # <<>> /\ Len(path) \in Nat /\ path[1] \in Addrs
             /\ \A k \in {2, 3} : k <= Len(path) => path[k] \in Entries
  BY <1>1, Sizes DEF Addrs
<1>2. ASSUME NEW a \in N1 .. N1 + N2 - 1, NEW e \in Entries, path = <<a, e>>
      PROVE  /\ path # <<>> /\ Len(path) \in Nat /\ path[1] \in Addrs
             /\ \A k \in {2, 3} : k <= Len(path) => path[k] \in Entries
  BY <1>2, Sizes DEF Addrs
<1>3. ASSUME NEW e \in Entries, NEW f \in Entries, path = <<N1 + N2, e, f>>
      PROVE  /\ path # <<>> /\ Len(path) \in Nat /\ path[1] \in Addrs
             /\ \A k \in {2, 3} : k <= Len(path) => path[k] \in Entries
  BY <1>3, Sizes DEF Addrs
<1> QED
  BY <1>1, <1>2, <1>3 DEF IsPath

\* inode_locate_block(): what it returns and writes has its type.
LEMMA LocateIs ==
  ASSUME Image \in Images, NEW addrs \in [Addrs -> Words], NEW path, IsPath(path)
  PROVE  LET r == Locate(addrs, path) IN
         /\ Walk(r)
         /\ r.err = "no" => r.blk \in Blocks
<1> DEFINE start == [blk |-> 0, new |-> FALSE, way |-> <<>>, err |-> "no",
                     last |-> Image, images |-> <<>>, addrs |-> addrs]
           top == Visit(start, addrs[path[1]])
           down == Descend(Descend(top, path, 2), path, 3)
           up == WriteBack(WriteBack(down, 2), 1)
           r == [up EXCEPT !.addrs[path[1]] = top.blk,
                           !.err = IF @ = "no" /\ up.blk \notin Blocks THEN "io" ELSE @]
<1>1. Len(path) \in Nat /\ path[1] \in Addrs /\ \A k \in {2, 3} : k <= Len(path) => path[k] \in Entries
  BY PathShape
<1>2. Walk(start)
  <2>1. start \in Walks
    BY Numbers DEF Walks
  <2>3. Remembers(start)
    BY DEF Remembers, Image
  <2> QED
    BY <2>1, <2>3 DEF Walk
<1> HIDE DEF start
<1>3. Walk(top)
  <2>1. addrs[path[1]] \in Words
    BY <1>1
  <2> QED
    BY <1>2, <2>1, VisitIs
<1>4. Locate(addrs, path) = r
  BY DEF Locate, start
<1> HIDE DEF top
<1>5. Walk(down)
  <2>1. Walk(Descend(top, path, 2))
    BY <1>1, <1>3, DescendIs
  <2> QED
    BY <1>1, <2>1, DescendIs
<1> HIDE DEF down
<1>6. Walk(up)
  <2>1. Walk(WriteBack(down, 2))
    BY <1>5, WriteBackIs
  <2> QED
    BY <2>1, WriteBackIs
<1> HIDE DEF up
<1>7. up \in Walks /\ top.blk \in Words
  BY <1>3, <1>6 DEF Walk, Walks
<1>8. /\ r \in Walks /\ r.blk = up.blk /\ r.way = up.way
      /\ r.last = up.last /\ r.images = up.images
      /\ r.err = "no" => up.blk \in Blocks
  BY <1>1, <1>7 DEF Walks
<1> HIDE DEF r
<1> QED
  BY <1>4, <1>6, <1>8 DEF Walk, Remembers

-----------------------------------------------------------------------------
(* The inductive invariant.                                                *)

\* The record of a call; what it still has to free is any value.
Calls(c) ==
  /\ c \in [op : {"none", "read", "write", "unlink"}, off : 0 .. W - 1, len : 0 .. W - 1,
            total : 0 .. W - 1, user : BOOLEAN, frees : {c.frees}]
  /\ c.total <= c.len

\* The types, with the shape of every record.
Shape ==
  /\ bits \subseteq 0 .. NB - 1
  /\ disk \in [Blocks -> [Entries -> Words]]
  /\ dinode \in [Inums -> [size : 0 .. MAXSIZE, addrs : [Addrs -> Words]]]
  /\ named \subseteq Inums
  /\ ip \in [Inums -> [valid : BOOLEAN, size : 0 .. MAXSIZE, addrs : [Addrs -> Words]]]
  /\ file \in [Inums -> [open : BOOLEAN, offset : 0 .. W - 1]]
  /\ call = [i \in Inums |-> call[i]] /\ \A i \in Inums : Calls(call[i])
  /\ taken \subseteq Blocks
  /\ panicked \in {"no", "bn too large", "io", "acquire", "page fault", "destroy", "magic"}
  /\ content \in [Inums -> [0 .. MAXSIZE - 1 -> Words \cup {NoWord}]]
  /\ sparse \subseteq Inums
  /\ calls \in 0 .. MaxCalls
  /\ past \subseteq {"full", "stale", "crash"}

\* A call that does not wrap ends within the largest file, and what a call has
\* transferred is within it in any case: a round stops at the end of a block, and
\* there is no block beyond.
Within(c) ==
  c.op \in {"read", "write"} =>
    /\ c.off + c.len < W => c.off + c.len <= MAXSIZE
    /\ c.total > 0 => c.off + c.total <= MAXSIZE

IInv ==
  /\ Shape
  /\ \A i \in Inums : Within(call[i])
  /\ TooLargeOnlyOnWrap
\* No call, a start of a call and a call one round on are calls.
LEMMA CallSet ==
  ASSUME Shape, \A j \in Inums : Within(call[j]), NEW i \in Inums, NEW c, Calls(c), Within(c),
         call' = [call EXCEPT ![i] = c]
  PROVE  /\ call' = [j \in Inums |-> call'[j]] /\ \A j \in Inums : Calls(call'[j])
         /\ \A j \in Inums : Within(call'[j])
<1>1. call = [j \in Inums |-> call[j]] /\ \A j \in Inums : Calls(call[j])
  BY DEF Shape
<1>2. \A j \in Inums : call'[j] = IF j = i THEN c ELSE call[j]
  BY <1>1
<1>3. call' = [j \in Inums |-> call'[j]]
  BY <1>1
<1> QED
  BY <1>1, <1>2, <1>3

\* 0 is a size and an offset.
LEMMA Zero == W \in Nat /\ W > 0 /\ 0 \in 0 .. W - 1 /\ 0 \in 0 .. MAXSIZE
<1>1. W \in Nat /\ MAXSIZE \in Nat /\ MAXSIZE < W
  BY Sizes
<1> QED
  BY <1>1

\* The bound on calls is kept.
LEMMA Counted == ASSUME Shape, Count PROVE calls' \in 0 .. MaxCalls
<1>1. MaxCalls \in Nat
  BY DataAssumption
<1>2. calls \in 0 .. MaxCalls /\ calls < MaxCalls /\ calls' = calls + 1
  BY DEF Shape, Count
<1> QED
  BY <1>1, <1>2

\* A call at its start is a call.
LEMMA StartCall ==
  ASSUME NEW op \in {"none", "read", "write", "unlink"}, NEW off \in 0 .. W - 1,
         NEW len \in 0 .. W - 1, NEW user \in BOOLEAN, NEW frees
  PROVE  LET c == NewCall(op, off, len, user, frees) IN
         Calls(c) /\ c.op = op /\ c.off = off /\ c.len = len /\ c.total = 0
BY Zero DEF NewCall, Calls

\* The call of an idle inode.
LEMMA NoCallIs == Calls(NoCall) /\ Within(NoCall)
BY Zero, StartCall DEF Within, NoCall

\* The disk of mkfs and an empty memory satisfy the invariant.
LEMMA InitIInv == Init => IInv
<1> SUFFICES ASSUME Init PROVE IInv
  OBVIOUS
<1>1. DataStart \in Words /\ Magic \in Words /\ Dirent \in Words /\ 0 \in Words /\ NB - 1 \in Nat /\ W - 1 \in Nat
  BY Sizes, Numbers DEF Words, Dirent, DataStart
<1>2. bits \subseteq 0 .. NB - 1
  BY <1>1, Sizes DEF Init
<1>3. disk \in [Blocks -> [Entries -> Words]]
  BY <1>1 DEF Init, Zeros
<1>4. NoAddrs \in [Addrs -> Words] /\ 0 \in 0 .. MAXSIZE
  BY <1>1, Sizes DEF NoAddrs
<1>5. /\ dinode \in [Inums -> [size : 0 .. MAXSIZE, addrs : [Addrs -> Words]]]
      /\ ip \in [Inums -> [valid : BOOLEAN, size : 0 .. MAXSIZE, addrs : [Addrs -> Words]]]
      /\ file \in [Inums -> [open : BOOLEAN, offset : 0 .. W - 1]]
  BY <1>1, <1>4 DEF Init, NoInode, Closed
<1>6. call = [i \in Inums |-> call[i]] /\ \A i \in Inums : Calls(call[i]) /\ Within(call[i])
  BY NoCallIs DEF Init
<1>7. content \in [Inums -> [0 .. MAXSIZE - 1 -> Words \cup {NoWord}]]
  BY DEF Init
<1>8. calls \in 0 .. MaxCalls
  BY DataAssumption DEF Init
<1>9. Shape
  BY <1>2, <1>3, <1>5, <1>6, <1>7, <1>8 DEF Shape, Init
<1> QED
  BY <1>6, <1>9 DEF IInv, TooLargeOnlyOnWrap, Init

-----------------------------------------------------------------------------
(* The steps that change neither the disk nor the loop of a call.          *)

\* sys_open(): inode_lock() reads sizes and addresses that have their types.
LEMMA OpenStep == ASSUME IInv, NEW i \in Inums, Open(i) PROVE IInv'
<1>1. Locked(i) \in [valid : BOOLEAN, size : 0 .. MAXSIZE, addrs : [Addrs -> Words]]
  BY DEF Locked, IInv, Shape
<1>2. ip' \in [Inums -> [valid : BOOLEAN, size : 0 .. MAXSIZE, addrs : [Addrs -> Words]]]
  BY <1>1 DEF Open, IInv, Shape
<1>3. file' \in [Inums -> [open : BOOLEAN, offset : 0 .. W - 1]]
  BY Zero DEF Open, IInv, Shape
<1> QED
  BY <1>2, <1>3 DEF Open, OnDisk, History, IInv, Shape, TooLargeOnlyOnWrap

\* file_close(), also where inode_free() panics.
LEMMA CloseStep == ASSUME IInv, NEW i \in Inums, Close(i) PROVE IInv'
<1>1. file' \in [Inums -> [open : BOOLEAN, offset : 0 .. W - 1]]
  <2>1. Closed \in [open : BOOLEAN, offset : 0 .. W - 1]
    BY Zero DEF Closed
  <2>2. file \in [Inums -> [open : BOOLEAN, offset : 0 .. W - 1]]
    BY DEF IInv, Shape
  <2> QED
    BY <2>1, <2>2 DEF Close
<1>2. panicked' \in {"no", "destroy"}
  BY DEF Close, HasFile, Idle, Running
<1> QED
  BY <1>1, <1>2 DEF Close, OnDisk, History, IInv, Shape, TooLargeOnlyOnWrap

\* inode_alloc() clearing a slot for another inode.
LEMMA EvictStep == ASSUME IInv, NEW i \in Inums, Evict(i) PROVE IInv'
<1>1. NoInode \in [valid : BOOLEAN, size : 0 .. MAXSIZE, addrs : [Addrs -> Words]]
  BY Sizes, Numbers DEF NoInode, NoAddrs
<1>2. ip' \in [Inums -> [valid : BOOLEAN, size : 0 .. MAXSIZE, addrs : [Addrs -> Words]]]
  BY <1>1 DEF Evict, IInv, Shape
<1>3. content' \in [Inums -> [0 .. MAXSIZE - 1 -> Words \cup {NoWord}]]
  BY DEF Evict, IInv, Shape
<1> QED
  BY <1>2, <1>3 DEF Evict, OnDisk, IInv, Shape, TooLargeOnlyOnWrap

\* file_lseek() keeps the offset in 32 bits.
LEMMA LseekStep ==
  ASSUME IInv, NEW i \in Inums, NEW k \in Seeks, Lseek(i, k[2], k[1])
  PROVE  IInv'
<1>1. k[1] \in {"SET", "ADD", "SUB"} /\ k[2] \in 0 .. W - 1 /\ MaxCalls \in Nat
  BY DataAssumption
<1>2. file[i].offset \in 0 .. W - 1 /\ W \in Nat
  BY Sizes DEF IInv, Shape
<1>3. NewOffset(file[i].offset, k[2], k[1]) \in 0 .. W - 1
  BY <1>1, <1>2 DEF NewOffset
<1>4. file' \in [Inums -> [open : BOOLEAN, offset : 0 .. W - 1]]
  BY <1>3 DEF Lseek, IInv, Shape
<1>5. calls' \in 0 .. MaxCalls
  BY Counted DEF Lseek, IInv
<1> QED
  BY <1>4, <1>5 DEF Lseek, OnDisk, IInv, Shape, TooLargeOnlyOnWrap

\* inode_write_data() lets a call start only if offset + len, in 32 bits, is
\* within the largest file.
LEMMA WriteStartStep ==
  ASSUME IInv, NEW i \in Inums, NEW len \in Lens, NEW user \in BOOLEAN, WriteStart(i, len, user)
  PROVE  IInv'
<1>0. PICK c : c = NewCall("write", file[i].offset, len, user, {})
  OBVIOUS
<1>1. len \in 0 .. W - 1 /\ file[i].offset \in 0 .. W - 1 /\ W \in Nat /\ MaxCalls \in Nat
  BY DataAssumption DEF IInv, Shape
<1>2. /\ c.op = "write" /\ c.off = file[i].offset /\ c.len = len /\ c.total = 0
      /\ Calls(c)
  BY <1>0, <1>1, Zero DEF Calls, NewCall
<1>3. Within(c)
  <2>1. (c.off + c.len) % W <= MAXSIZE
    BY <1>2 DEF WriteStart
  <2> QED
    BY <1>1, <1>2, <2>1, Zero, Sizes DEF Within
<1>4. call' = [call EXCEPT ![i] = c]
  BY <1>0 DEF WriteStart
<1>5. /\ call' = [j \in Inums |-> call'[j]] /\ \A j \in Inums : Calls(call'[j])
      /\ \A j \in Inums : Within(call'[j])
  BY <1>2, <1>3, <1>4, CallSet DEF IInv
<1>6. calls' \in 0 .. MaxCalls
  BY Counted DEF WriteStart, IInv
<1>7. sparse' \subseteq Inums /\ panicked' = "no"
  BY DEF WriteStart, IInv, Shape, HasFile, Idle, Running
<1> QED
  BY <1>5, <1>6, <1>7
  DEF WriteStart, OnDisk, IInv, Shape, TooLargeOnlyOnWrap

\* inode_read_data() cuts the length to what is left of the file.
LEMMA ReadStartStep ==
  ASSUME IInv, NEW i \in Inums, NEW len \in Lens, NEW user \in BOOLEAN, ReadStart(i, len, user)
  PROVE  IInv'
<1> DEFINE off == file[i].offset
           cut == IF (off + len) % W > ip[i].size THEN ip[i].size - off ELSE len
<1>0. PICK c : c = NewCall("read", off, cut, user, {})
  OBVIOUS
<1>1. len \in 0 .. W - 1 /\ off \in 0 .. W - 1 /\ W \in Nat /\ MaxCalls \in Nat
      /\ ip[i].size \in 0 .. MAXSIZE /\ off < ip[i].size
  BY DataAssumption DEF IInv, Shape, ReadStart
<1>2. cut \in 0 .. W - 1 /\ (off + cut < W => off + cut <= MAXSIZE)
  <2>1. PICK s : s = ip[i].size
    OBVIOUS
  <2>2. s \in Nat /\ s <= MAXSIZE /\ MAXSIZE \in Nat /\ MAXSIZE < W /\ off < s
    BY <1>1, <2>1, Sizes
  <2>3. CASE (off + len) % W > s
    <3>1. cut = s - off
      BY <2>1, <2>3
    <3> QED
      BY <1>1, <2>2, <3>1
  <2>4. CASE ~((off + len) % W > s)
    <3>1. cut = len
      BY <2>1, <2>4
    <3>2. off + len < W => (off + len) % W = off + len
      BY <1>1
    <3> QED
      BY <1>1, <2>2, <2>4, <3>1, <3>2
  <2> QED
    BY <2>3, <2>4
<1>3. call' = [call EXCEPT ![i] = c]
  BY <1>0 DEF ReadStart
<1> HIDE DEF cut
<1>4. /\ c.op = "read" /\ c.off = off /\ c.len = cut /\ c.total = 0
      /\ Calls(c)
  BY <1>0, <1>1, <1>2, Zero DEF Calls, NewCall
<1>5. Within(c)
  BY <1>1, <1>2, <1>4 DEF Within
<1>6. /\ call' = [j \in Inums |-> call'[j]] /\ \A j \in Inums : Calls(call'[j])
      /\ \A j \in Inums : Within(call'[j])
  BY <1>3, <1>4, <1>5, CallSet DEF IInv
<1>7. calls' \in 0 .. MaxCalls
  BY Counted DEF ReadStart, IInv
<1>8. panicked' = "no"
  BY DEF ReadStart, HasFile, Idle, Running
<1> QED
  BY <1>6, <1>7, <1>8
  DEF ReadStart, OnDisk, History, IInv, Shape, TooLargeOnlyOnWrap

\* file_read() moves the offset, in 32 bits.
LEMMA ReadEndStep == ASSUME IInv, NEW i \in Inums, ReadEnd(i) PROVE IInv'
<1>1. file[i].offset \in 0 .. W - 1 /\ call[i].total \in 0 .. W - 1 /\ W \in Nat /\ W > 0
  <2>1. file[i].offset \in 0 .. W - 1
    BY DEF IInv, Shape
  <2>2. call[i].total \in 0 .. W - 1
    BY DEF IInv, Shape, Calls
  <2> QED
    BY <2>1, <2>2, Zero
<1>2. (file[i].offset + call[i].total) % W \in 0 .. W - 1
  BY <1>1
<1>3. file' \in [Inums -> [open : BOOLEAN, offset : 0 .. W - 1]]
  BY <1>2 DEF ReadEnd, IInv, Shape
<1>4. /\ call' = [j \in Inums |-> call'[j]] /\ \A j \in Inums : Calls(call'[j])
      /\ \A j \in Inums : Within(call'[j])
  BY NoCallIs, CallSet DEF IInv, ReadEnd
<1>5. panicked' = "no"
  BY DEF ReadEnd, Done, Running
<1> QED
  BY <1>3, <1>4, <1>5
  DEF ReadEnd, OnDisk, History, IInv, Shape, TooLargeOnlyOnWrap

\* inode_write_data() saves a size within the largest file: a call that has wrapped
\* does not come to its end.
LEMMA WriteEndStep == ASSUME IInv, NEW i \in Inums, WriteEnd(i) PROVE IInv'
<1>1. file[i].offset \in 0 .. W - 1 /\ W \in Nat /\ W > 0
  BY Zero DEF IInv, Shape
<1>2. /\ call[i].total \in 0 .. W - 1 /\ call[i].off \in 0 .. W - 1 /\ call[i].len \in 0 .. W - 1
      /\ call[i].total = call[i].len /\ call[i].op = "write"
  BY DEF IInv, Shape, Calls, WriteEnd, Done
<1>3. Pos(i) \in 0 .. MAXSIZE
  BY <1>1, <1>2, Sizes DEF IInv, Within, Pos
<1>4. (file[i].offset + call[i].total) % W \in 0 .. W - 1
  BY <1>1, <1>2
<1>5. file' \in [Inums -> [open : BOOLEAN, offset : 0 .. W - 1]]
  BY <1>4 DEF WriteEnd, IInv, Shape
<1>6. /\ call' = [j \in Inums |-> call'[j]] /\ \A j \in Inums : Calls(call'[j])
      /\ \A j \in Inums : Within(call'[j])
  BY NoCallIs, CallSet DEF IInv, WriteEnd
<1>7. /\ dinode' \in [Inums -> [size : 0 .. MAXSIZE, addrs : [Addrs -> Words]]]
      /\ ip' \in [Inums -> [valid : BOOLEAN, size : 0 .. MAXSIZE, addrs : [Addrs -> Words]]]
  <2>1. /\ dinode \in [Inums -> [size : 0 .. MAXSIZE, addrs : [Addrs -> Words]]]
        /\ ip \in [Inums -> [valid : BOOLEAN, size : 0 .. MAXSIZE, addrs : [Addrs -> Words]]]
    BY DEF IInv, Shape
  <2>2. CASE Pos(i) > ip[i].size
    <3>1. ip[i].addrs \in [Addrs -> Words]
      BY <2>1
    <3>2. [size |-> Pos(i), addrs |-> ip[i].addrs] \in [size : 0 .. MAXSIZE, addrs : [Addrs -> Words]]
      BY <1>3, <3>1
    <3>3. /\ ip' = [ip EXCEPT ![i].size = Pos(i)]
          /\ dinode' = [dinode EXCEPT ![i] = [size |-> Pos(i), addrs |-> ip[i].addrs]]
      BY <2>2 DEF WriteEnd
    <3>4. dinode' \in [Inums -> [size : 0 .. MAXSIZE, addrs : [Addrs -> Words]]]
      BY <2>1, <3>2, <3>3
    <3> QED
      BY <1>3, <2>1, <3>3, <3>4, ZenonT(60)
  <2>3. CASE ~(Pos(i) > ip[i].size)
    BY <2>1, <2>3 DEF WriteEnd
  <2> QED
    BY <2>2, <2>3
<1>8. panicked' = "no"
  BY DEF WriteEnd, Done, Running
<1> QED
  BY <1>5, <1>6, <1>7, <1>8
  DEF WriteEnd, History, IInv, Shape, TooLargeOnlyOnWrap
\* path_unlink() up to inode_free_data().
LEMMA UnlinkStartStep == ASSUME IInv, NEW i \in Inums, UnlinkStart(i) PROVE IInv'
<1>0. PICK c : c = NewCall("unlink", 0, 0, FALSE, FreeData(Locked(i).addrs))
  OBVIOUS
<1>1. Calls(c) /\ c.op = "unlink"
  BY <1>0, Zero DEF Calls, NewCall
<1>2. Within(c)
  BY <1>1 DEF Within
<1>3. call' = [call EXCEPT ![i] = c]
  BY <1>0 DEF UnlinkStart
<1>4. /\ call' = [j \in Inums |-> call'[j]] /\ \A j \in Inums : Calls(call'[j])
      /\ \A j \in Inums : Within(call'[j])
  BY <1>1, <1>2, <1>3, CallSet DEF IInv
<1>5. Locked(i) \in [valid : BOOLEAN, size : 0 .. MAXSIZE, addrs : [Addrs -> Words]]
  BY DEF Locked, IInv, Shape
<1>6. ip' \in [Inums -> [valid : BOOLEAN, size : 0 .. MAXSIZE, addrs : [Addrs -> Words]]]
  BY <1>5 DEF UnlinkStart, IInv, Shape
<1>7. calls' \in 0 .. MaxCalls
  BY Counted DEF UnlinkStart, IInv
<1>8. panicked' = "no" /\ named' \subseteq Inums
  BY DEF UnlinkStart, Idle, Running, IInv, Shape
<1> QED
  BY <1>4, <1>6, <1>7, <1>8
  DEF UnlinkStart, History, IInv, Shape, TooLargeOnlyOnWrap

\* bitmap_free_block() clears bits only.
LEMMA UnlinkFreeStep == ASSUME IInv, NEW i \in Inums, UnlinkFree(i) PROVE IInv'
<1>1. panicked = "no"
  BY DEF UnlinkFree, Running
<1>2. bits' \subseteq 0 .. NB - 1 /\ panicked' \in {"no", "io"}
  BY <1>1 DEF UnlinkFree, FreeBlock, IInv, Shape
<1>3. PICK c : c = [call[i] EXCEPT !.frees = @ \ {FirstFreed(@)}]
  OBVIOUS
<1>4. Calls(call[i]) /\ Within(call[i]) /\ call[i].op = "unlink"
  BY DEF UnlinkFree, IInv, Shape
<1>5. /\ Calls(c) /\ Within(c)
  BY <1>3, <1>4 DEF Calls, Within
<1>6. call' = call \/ call' = [call EXCEPT ![i] = c]
  BY <1>3 DEF UnlinkFree, IInv, Shape
<1>7. /\ call' = [j \in Inums |-> call'[j]] /\ \A j \in Inums : Calls(call'[j])
      /\ \A j \in Inums : Within(call'[j])
  BY <1>5, <1>6, CallSet DEF IInv, Shape
<1> QED
  BY <1>2, <1>7
  DEF UnlinkFree, History, IInv, Shape, TooLargeOnlyOnWrap

\* The end of inode_free_data(): an empty inode is saved.
LEMMA UnlinkEndStep == ASSUME IInv, NEW i \in Inums, UnlinkEnd(i) PROVE IInv'
<1>1. NoAddrs \in [Addrs -> Words]
  BY Numbers DEF NoAddrs
<1>2. /\ dinode \in [Inums -> [size : 0 .. MAXSIZE, addrs : [Addrs -> Words]]]
      /\ ip \in [Inums -> [valid : BOOLEAN, size : 0 .. MAXSIZE, addrs : [Addrs -> Words]]]
  BY DEF IInv, Shape
<1>3. [size |-> 0, addrs |-> NoAddrs] \in [size : 0 .. MAXSIZE, addrs : [Addrs -> Words]]
  BY <1>1, Zero
<1>4. dinode' \in [Inums -> [size : 0 .. MAXSIZE, addrs : [Addrs -> Words]]]
  BY <1>2, <1>3 DEF UnlinkEnd
<1>5. ip' \in [Inums -> [valid : BOOLEAN, size : 0 .. MAXSIZE, addrs : [Addrs -> Words]]]
  BY <1>1, <1>2, Zero DEF UnlinkEnd
<1>6. content' \in [Inums -> [0 .. MAXSIZE - 1 -> Words \cup {NoWord}]]
  BY DEF UnlinkEnd, IInv, Shape
<1>7. /\ call' = [j \in Inums |-> call'[j]] /\ \A j \in Inums : Calls(call'[j])
      /\ \A j \in Inums : Within(call'[j])
  BY NoCallIs, CallSet DEF IInv, UnlinkEnd
<1>8. panicked' \in {"no", "destroy"}
  BY DEF UnlinkEnd
<1> QED
  BY <1>4, <1>5, <1>6, <1>7, <1>8
  DEF UnlinkEnd, IInv, Shape, TooLargeOnlyOnWrap

\* The disk as an image.
LEMMA ImageIs == ASSUME Shape PROVE Image \in Images /\ Image.bits = bits /\ Image.disk = disk
                                          /\ Image.past = past
BY DEF Shape, Image, Images

\* sys_alloc_block.
LEMMA SysAllocStep == ASSUME IInv, SysAlloc PROVE IInv'
<1>1. PICK a : a = AllocBlock(Image)
  OBVIOUS
<1>2. a.im \in Images /\ a.blk \in Blocks
  BY <1>1, ImageIs, AllocBlockIs DEF IInv
<1>3. bits' = a.im.bits /\ taken' = IF a.blk = 0 THEN taken ELSE taken \cup {a.blk}
  BY <1>1 DEF SysAlloc
<1>4. bits' \subseteq 0 .. NB - 1
  BY <1>2, <1>3 DEF Images
<1>5. taken' \subseteq Blocks
  BY <1>2, <1>3 DEF IInv, Shape
<1>6. calls' \in 0 .. MaxCalls
  BY Counted DEF SysAlloc, IInv
<1> QED
  BY <1>4, <1>5, <1>6
  DEF SysAlloc, History, IInv, Shape, TooLargeOnlyOnWrap

\* sys_free_block.
LEMMA SysFreeStep == ASSUME IInv, NEW b \in Blocks, SysFree(b) PROVE IInv'
<1>1. bits' \subseteq 0 .. NB - 1
  BY DEF SysFree, FreeBlock, IInv, Shape
<1>2. taken' \subseteq Blocks
  BY DEF SysFree, IInv, Shape
<1> QED
  BY <1>1, <1>2
  DEF SysFree, History, IInv, Shape, TooLargeOnlyOnWrap

\* A directory without a block writing its entry to block 0.
LEMMA DirWriteStep == ASSUME IInv, NEW e \in Entries, DirWrite(e) PROVE IInv'
<1>1. Dirent \in Words /\ 0 \in Blocks
  BY Numbers, Sizes DEF Words, Dirent
<1>2. disk' \in [Blocks -> [Entries -> Words]]
  <2>1. disk \in [Blocks -> [Entries -> Words]]
    BY DEF IInv, Shape
  <2>2. PICK words \in [Entries -> Words] : words = [disk[0] EXCEPT ![e] = Dirent]
    BY <1>1, <2>1
  <2>3. disk' = [disk EXCEPT ![0] = words]
    BY <2>2 DEF DirWrite
  <2> QED
    BY <2>1, <2>3
<1> QED
  BY <1>2 DEF DirWrite, History, IInv, Shape, TooLargeOnlyOnWrap

-----------------------------------------------------------------------------
(* The machine starts again.                                               *)

\* A restart from any typed disk image.
LEMMA RebootStep ==
  ASSUME IInv, NEW im \in Images,
         past \subseteq im.past, RebootFrom(im)
  PROVE  IInv'
<1>1. bits' \subseteq 0 .. NB - 1 /\ disk' \in [Blocks -> [Entries -> Words]]
  BY DEF RebootFrom, Images
<1>2. NoInode \in [valid : BOOLEAN, size : 0 .. MAXSIZE, addrs : [Addrs -> Words]]
  BY Sizes, Numbers DEF NoInode, NoAddrs
<1>3. ip' \in [Inums -> [valid : BOOLEAN, size : 0 .. MAXSIZE, addrs : [Addrs -> Words]]]
  BY <1>2 DEF RebootFrom
<1>4. Closed \in [open : BOOLEAN, offset : 0 .. W - 1]
  BY Zero DEF Closed
<1>5. file' \in [Inums -> [open : BOOLEAN, offset : 0 .. W - 1]]
  BY <1>4 DEF RebootFrom
<1>6. /\ call' = [j \in Inums |-> call'[j]]
      /\ \A j \in Inums : Calls(call'[j]) /\ Within(call'[j])
  <2>1. call' = [j \in Inums |-> NoCall]
    BY DEF RebootFrom
  <2> QED
    BY <2>1, NoCallIs
<1>7. content' \in [Inums -> [0 .. MAXSIZE - 1 -> Words \cup {NoWord}]]
  <2>1. \A i \in Inums : content[i] \in [0 .. MAXSIZE - 1 -> Words \cup {NoWord}]
    BY DEF IInv, Shape
  <2>2. content' = [i \in Inums |-> [o \in DOMAIN content[i] |->
                      IF i \in sparse \/ o >= dinode[i].size THEN NoWord ELSE content[i][o]]]
    BY DEF RebootFrom
  <2> QED
    BY <2>1, <2>2
<1>8. panicked' \in {"no", "magic"} /\ past' = im.past \cup {"crash"} /\ taken' = {}
      /\ past' \subseteq {"full", "stale", "crash"}
  BY DEF RebootFrom, Images
<1> QED
  BY <1>1, <1>3, <1>5, <1>6, <1>7, <1>8
  DEF RebootFrom, IInv, Shape, TooLargeOnlyOnWrap
-----------------------------------------------------------------------------
(* A round of the copy loops.                                              *)

\* Where a round begins and ends: inside of the block that holds its position.
LEMMA RoundIs ==
  ASSUME IInv, NEW i \in Inums, InLoop(i)
  PROVE  /\ call[i].off \in 0 .. W - 1 /\ call[i].len \in 0 .. W - 1 /\ call[i].total \in 0 .. W - 1
         /\ Pos(i) \in Nat /\ Pos(i) = call[i].off + call[i].total /\ Pos(i) % E \in Entries
         /\ Round(i) \in Nat /\ Round(i) > 0
         /\ Round(i) <= call[i].len - call[i].total
         /\ Round(i) <= E - (Pos(i) % E)
<1>1. /\ call[i].off \in 0 .. W - 1 /\ call[i].len \in 0 .. W - 1 /\ call[i].total \in 0 .. W - 1
      /\ call[i].total < call[i].len
  BY DEF IInv, Shape, Calls, InLoop
<1>2. Pos(i) \in Nat /\ Pos(i) = call[i].off + call[i].total
  BY <1>1, Zero DEF Pos
<1>3. Pos(i) % E \in Entries
  BY <1>2, ModEntry
<1>4. PICK x \in Nat, y \in Nat : /\ x = E - (Pos(i) % E) /\ y = call[i].len - call[i].total
                                  /\ x > 0 /\ y > 0
  BY <1>1, <1>3, Zero, Sizes DEF Entries
<1>5. Round(i) = Min({x, y})
  BY <1>4 DEF Round
<1>6. Min({x, y}) \in {x, y} /\ \A m \in {x, y} : Min({x, y}) <= m
  <2>1. {x, y} \subseteq Nat /\ {x, y} # {}
    OBVIOUS
  <2> QED
    BY <2>1, MinFound
<1> QED
  BY <1>1, <1>2, <1>3, <1>4, <1>5, <1>6

\* A round leads to a path exactly if its position is below INODE_MAXSIZE.
LEMMA PathAtIs ==
  ASSUME IInv, NEW i \in Inums, InLoop(i)
  PROVE  /\ PathAt(i) # <<>> => IsPath(PathAt(i)) /\ Pos(i) + Round(i) <= MAXSIZE
         /\ PathAt(i) = <<>> => Pos(i) >= MAXSIZE
<1>1. Pos(i) \in Nat /\ Round(i) \in Nat /\ Round(i) <= E - (Pos(i) % E) /\ Pos(i) % E \in Entries
  BY RoundIs
<1>2. PICK bn \in Nat : bn = Pos(i) \div E
  BY <1>1, BlockOf
<1>3. /\ Pos(i) < MAXSIZE => bn < MaxBlocks
      /\ bn < MaxBlocks => Pos(i) + (E - (Pos(i) % E)) <= MAXSIZE
  BY <1>1, <1>2, BlockOf
<1>4. PathAt(i) = Path(bn)
  BY <1>2 DEF PathAt
<1>5. /\ bn < MaxBlocks => IsPath(Path(bn))
      /\ bn >= MaxBlocks => Path(bn) = <<>>
  BY PathOf
<1>6. bn < MaxBlocks => Path(bn) # <<>>
  BY <1>5, PathShape
<1>7. MaxBlocks \in Nat /\ MAXSIZE \in Nat /\ E \in Nat /\ Pos(i) % E \in Nat
  BY <1>1, Sizes DEF Entries
<1> QED
  BY <1>1, <1>3, <1>4, <1>5, <1>6, <1>7

\* A power cut between two disk writes of locate_block().
LEMMA RebootInsideStep == ASSUME IInv, NEW i \in Inums, RebootInside(i) PROVE IInv'
<1>1. InLoop(i) /\ PathAt(i) # <<>>
  BY DEF RebootInside
<1>2. IsPath(PathAt(i))
  BY <1>1, PathAtIs
<1>3. PICK r : r = Locate(ip[i].addrs, PathAt(i))
  OBVIOUS
<1>4. ip[i].addrs \in [Addrs -> Words] /\ Image \in Images
  BY ImageIs DEF IInv, Shape
<1>5. Walk(r)
  BY <1>2, <1>3, <1>4, LocateIs
<1>6. PICK k \in DOMAIN r.images : RebootFrom(r.images[k])
  BY <1>3 DEF RebootInside
<1>7. r.images \in Seq(Images)
  BY <1>5 DEF Walk, Walks
<1>8. r.images[k] \in Images
  BY <1>6, <1>7
<1>9. k \in 1 .. Len(r.images)
  BY <1>6, <1>7
<1>11. past \subseteq r.images[k].past
  BY <1>5, <1>9 DEF Walk, Remembers
<1> QED
  BY <1>6, <1>8, <1>11, RebootStep

\* The data of a round goes to the block located.
LEMMA FilledIs ==
  ASSUME NEW i \in Inums, NEW im \in Images, NEW b \in Blocks
  PROVE  /\ Filled(i, im, b) \in Images /\ Filled(i, im, b).past = im.past
         /\ Filled(i, im, b).bits = im.bits
         /\ \A c \in Blocks \ {b} : Filled(i, im, b).disk[c] = im.disk[c]
<1>1. PICK words : words = [e \in Entries |-> IF e \in Span(i) THEN Data(i) ELSE im.disk[b][e]]
  OBVIOUS
<1>2. Filled(i, im, b) = [im EXCEPT !.disk = [im.disk EXCEPT ![b] = words]]
  BY <1>1 DEF Filled, Images
<1>3. words \in [Entries -> Words]
  <2>1. im.disk[b] \in [Entries -> Words] /\ Data(i) \in Words
    BY Numbers DEF Images
  <2> QED
    BY <1>1, <2>1
<1> QED
  BY <1>2, <1>3 DEF Images

\* A round of inode_read_data() or inode_write_data(), its panics included.
LEMMA TransferStep == ASSUME IInv, NEW i \in Inums, Transfer(i) PROVE IInv'
<1>1. InLoop(i) /\ panicked = "no"
  BY DEF Transfer, InLoop, Running
<1>2. /\ call[i].off \in 0 .. W - 1 /\ call[i].len \in 0 .. W - 1 /\ call[i].total \in 0 .. W - 1
      /\ Pos(i) \in Nat /\ Pos(i) = call[i].off + call[i].total
      /\ Round(i) \in Nat /\ Round(i) > 0
      /\ Round(i) <= call[i].len - call[i].total
  BY <1>1, RoundIs
<1>3. call[i].op \in {"read", "write"} /\ call[i].total < call[i].len
  BY <1>1 DEF InLoop
<1>4. CASE PathAt(i) = <<>>
  <2>1. Pos(i) >= MAXSIZE
    BY <1>1, <1>4, PathAtIs
  <2>2. call[i].off + call[i].len >= W
    <3>1. call[i].off + call[i].len < W => call[i].off + call[i].len <= MAXSIZE
      BY <1>3 DEF IInv, Within
    <3> QED
      BY <3>1, <2>1, <1>2, <1>3, Sizes
  <2>3. panicked' = "bn too large" /\ UNCHANGED <<bits, disk, ip, call, content, past>>
    BY <1>4 DEF Transfer
  <2>4. TooLargeOnlyOnWrap'
    BY <2>2, <2>3 DEF TooLargeOnlyOnWrap
  <2> QED
    BY <2>3, <2>4 DEF Transfer, IInv, Shape
<1>5. CASE PathAt(i) # <<>>
  <2> DEFINE r == Locate(ip[i].addrs, PathAt(i))
             why == IF r.err # "no" THEN r.err
                    ELSE IF call[i].user THEN "page fault" ELSE "no"
             writes == why = "no" /\ call[i].op = "write"
             im == IF writes THEN Filled(i, r.last, r.blk) ELSE r.last
             con == [o \in DOMAIN content[i] |-> IF o \in Pos(i) .. Pos(i) + Round(i) - 1
                                                 THEN Data(i) ELSE content[i][o]]
             c == [call[i] EXCEPT !.total = @ + Round(i)]
  <2>1. /\ panicked' = why
        /\ bits' = im.bits /\ disk' = im.disk
        /\ ip' = [ip EXCEPT ![i].addrs = r.addrs]
        /\ call' = IF why = "no" THEN [call EXCEPT ![i].total = @ + Round(i)] ELSE call
        /\ content' = IF writes THEN [content EXCEPT ![i] = con] ELSE content
        /\ past' = im.past
    BY <1>5 DEF Transfer, IInv, Shape
  <2>2. IsPath(PathAt(i)) /\ Pos(i) + Round(i) <= MAXSIZE
    BY <1>1, <1>5, PathAtIs
  <2>3. ip[i].addrs \in [Addrs -> Words] /\ Image \in Images
    BY ImageIs DEF IInv, Shape
  <2>4. Walk(r) /\ (r.err = "no" => r.blk \in Blocks)
    BY <2>2, <2>3, LocateIs
  <2> HIDE DEF r
  <2>5. /\ r.err \in {"no", "io", "acquire"}
        /\ r.last \in Images /\ r.addrs \in [Addrs -> Words]
    BY <2>4 DEF Walk, Walks
  <2>6. why \in {"no", "io", "acquire", "page fault"} /\ (why = "no" => r.err = "no")
    BY <2>5
  <2> HIDE DEF why
  <2>7. im \in Images /\ past \subseteq im.past
    <3>1. CASE writes
      <4>1. r.blk \in Blocks
        BY <2>4, <2>6, <3>1
      <4>2. im = Filled(i, r.last, r.blk)
        BY <3>1
      <4>3. /\ im \in Images
            /\ \A b \in Blocks \ {r.blk} : im.disk[b] = r.last.disk[b]
            /\ im.past = r.last.past
        BY <4>1, <4>2, <2>5, FilledIs
      <4>6. past \subseteq im.past
        BY <4>3, <2>4 DEF Walk, Remembers
      <4> QED
        BY <4>3, <4>6
    <3>2. CASE ~writes
      BY <2>4, <2>5, <3>2 DEF Walk, Remembers
    <3> QED
      BY <3>1, <3>2
  <2> HIDE DEF im, writes
  <2>8. /\ bits' \subseteq 0 .. NB - 1 /\ disk' \in [Blocks -> [Entries -> Words]]
        /\ past' \subseteq {"full", "stale", "crash"}
    BY <2>1, <2>7 DEF Images
  <2>9. ip' \in [Inums -> [valid : BOOLEAN, size : 0 .. MAXSIZE, addrs : [Addrs -> Words]]]
    BY <2>1, <2>5, ZenonT(60) DEF IInv, Shape
  <2>10. content' \in [Inums -> [0 .. MAXSIZE - 1 -> Words \cup {NoWord}]]
    <3>1. content[i] \in [0 .. MAXSIZE - 1 -> Words \cup {NoWord}]
      BY DEF IInv, Shape
    <3>2. con \in [0 .. MAXSIZE - 1 -> Words \cup {NoWord}]
      BY <3>1, Numbers
    <3> HIDE DEF con
    <3> QED
      BY <2>1, <3>2 DEF IInv, Shape
  <2> HIDE DEF con
  <2>11. Calls(call[i]) /\ Within(call[i])
    BY DEF IInv, Shape
  <2>12. Calls(c) /\ c.op = call[i].op /\ c.off = call[i].off /\ c.len = call[i].len
         /\ c.total = call[i].total + Round(i)
    <3>1. call[i].total + Round(i) \in 0 .. W - 1
      BY <1>2, Zero
    <3> QED
      BY <2>11, <3>1, <1>2 DEF Calls
  <2>13. call' = call \/ call' = [call EXCEPT ![i] = c]
    BY <2>1 DEF IInv, Shape
  <2> HIDE DEF c
  <2>14. Within(c)
    BY <2>2, <2>11, <2>12, <1>2, Zero, Sizes DEF Within
  <2>15. /\ call' = [j \in Inums |-> call'[j]] /\ \A j \in Inums : Calls(call'[j])
         /\ \A j \in Inums : Within(call'[j])
    BY <2>12, <2>13, <2>14, CallSet DEF IInv, Shape
  <2> QED
    BY <2>1, <2>5, <2>6, <2>8, <2>9, <2>10, <2>15
    DEF Transfer, IInv, Shape, TooLargeOnlyOnWrap
<1> QED
  BY <1>4, <1>5

-----------------------------------------------------------------------------
(* The theorems.                                                           *)

\* Every step keeps the invariant.
LEMMA NextIInv == IInv /\ [Next]_vars => IInv'
<1> SUFFICES ASSUME IInv, [Next]_vars PROVE IInv'
  OBVIOUS
<1>1. CASE UNCHANGED vars
  BY <1>1 DEF vars, IInv, Shape, TooLargeOnlyOnWrap
<1>2. ASSUME NEW i \in Inums,
             \/ Open(i) \/ Close(i) \/ Evict(i)
             \/ Transfer(i) \/ ReadEnd(i) \/ WriteEnd(i)
             \/ UnlinkStart(i) \/ UnlinkFree(i) \/ UnlinkEnd(i)
             \/ RebootInside(i)
      PROVE  IInv'
  BY <1>2, OpenStep, CloseStep, EvictStep, TransferStep, ReadEndStep, WriteEndStep,
     UnlinkStartStep, UnlinkFreeStep, UnlinkEndStep, RebootInsideStep
<1>3. ASSUME NEW i \in Inums, NEW k \in Seeks, Lseek(i, k[2], k[1]) PROVE IInv'
  BY <1>3, LseekStep
<1>4. ASSUME NEW i \in Inums, NEW len \in Lens, NEW user \in BOOLEAN,
             WriteStart(i, len, user) \/ WriteRefused(i, len) \/ ReadStart(i, len, user)
      PROVE  IInv'
  <2>1. CASE WriteRefused(i, len)
    BY <1>1, <2>1 DEF WriteRefused
  <2> QED
    BY <1>4, <2>1, WriteStartStep, ReadStartStep
<1>5. ASSUME SysAlloc \/ \E b \in Blocks : SysFree(b) PROVE IInv'
  BY <1>5, SysAllocStep, SysFreeStep
<1>6. ASSUME Reboot PROVE IInv'
  <2>1. Image \in Images /\ Image.disk = disk /\ Image.past = past
    BY ImageIs DEF IInv
  <2>2. RebootFrom(Image)
    BY <1>6 DEF Reboot
  <2> QED
    BY <2>1, <2>2, RebootStep
<1>7. ASSUME NEW e \in Entries, DirWrite(e) PROVE IInv'
  BY <1>7, DirWriteStep
<1> QED
  BY <1>1, <1>2, <1>3, <1>4, <1>5, <1>6, <1>7 DEF Next

\* IInv holds in every reachable state, whatever the sizes of disk and files.
THEOREM Inductive == Spec => []IInv
BY InitIInv, NextIInv, PTL DEF Spec

\* What inode.c, bitmap.c and file.c keep has its type: no size or content beyond
\* INODE_MAXSIZE, no offset beyond 32 bits, no bit beyond the bitmap.
THEOREM TypeCorrect == Spec => []TypeOK
<1>1. IInv => TypeOK
  <2> SUFFICES ASSUME IInv PROVE TypeOK
    OBVIOUS
  <2>1. ASSUME NEW i \in Inums
        PROVE  /\ ip[i].valid \in BOOLEAN /\ ip[i].size \in 0 .. MAXSIZE
               /\ ip[i].addrs \in [Addrs -> Words]
               /\ file[i].open \in BOOLEAN /\ file[i].offset \in 0 .. W - 1
               /\ call[i].op \in {"none", "read", "write", "unlink"}
               /\ {call[i].off, call[i].len, call[i].total} \subseteq 0 .. W - 1
               /\ call[i].total <= call[i].len
    BY DEF IInv, Shape, Calls
  <2> QED
    BY <2>1 DEF IInv, Shape, TypeOK
<1> QED
  BY <1>1, Inductive, PTL

\* inode_locate_block() panics with "bn too large" only in a call whose offset and
\* length wrap in 32 bits: the tests of inode_read_data() and inode_write_data()
\* and the end of a round at the end of a block keep every other call inside.
THEOREM TooLargeNeedsWrap == Spec => []TooLargeOnlyOnWrap
<1>1. IInv => TooLargeOnlyOnWrap
  BY DEF IInv
<1> QED
  BY <1>1, Inductive, PTL

-----------------------------------------------------------------------------
(* The trees of blocks.                                                   *)

Clean(p) == p \cap {"full", "stale"} = {}

\* The places that hold the number of an entry block.
EntryPlaces == {<<a>> : a \in N1 .. N1 + N2} \cup {N1 + N2} \X Entries

\* The addresses of an inode's blocks: in memory, else on the disk if the inode has
\* a name; none while path_unlink() frees them.
Vec ==
  [i \in Inums |-> IF Unlinking(i) THEN NoAddrs
                   ELSE IF ip[i].valid THEN ip[i].addrs
                   ELSE IF i \in named THEN dinode[i].addrs ELSE NoAddrs]

\* What path_unlink() has still to free.
Pend == [i \in Inums |-> IF Unlinking(i) THEN call[i].frees ELSE {}]

\* Block b is at place s of inode i, or will be freed from there.
Has(d, V, P, i, s, b) == b # 0 /\ (b = Ref(d, V[i], s) \/ <<s, b>> \in P[i])

\* Every block is at one place of one inode at most, and allocated to it.
Owned(d, V, P, bs, tk) ==
  /\ \A i, j \in Inums : \A s, t \in Places : \A b \in Words :
       Has(d, V, P, i, s, b) /\ Has(d, V, P, j, t, b) => i = j /\ s = t
  /\ \A i \in Inums : \A s \in Places : \A b \in Words :
       Has(d, V, P, i, s, b) => b > RootBlock /\ b \in Blocks \ tk /\ b - DataStart \in bs

\* An open file and a copy loop work on a valid inode; an inode with a name is not
\* being freed, and what is saved of its addresses is what memory has.
CachedAt(i) ==
  /\ file[i].open \/ call[i].op \in {"read", "write"} => ip[i].valid
  /\ i \in named => ~Unlinking(i)
  /\ i \in named /\ ip[i].valid => \A a \in Addrs : dinode[i].addrs[a] \in {0, ip[i].addrs[a]}
Cached == \A i \in Inums : CachedAt(i)

\* Trees, processes and the bitmap agree on whose block it is.
Ownership(d, V, P, bs, tk) ==
  /\ 0 \in bs
  /\ Owned(d, V, P, bs, tk)
  /\ \A b \in tk : b > RootBlock /\ b - DataStart \in bs
  /\ \A i \in Inums : P[i] \subseteq Places \X Words

TreeInv == Cached /\ (Clean(past) => Ownership(disk, Vec, Pend, bits, taken))

-----------------------------------------------------------------------------
(* The places of a tree.                                                   *)

\* A place has one, two or three indices.
LEMMA PlaceCases ==
  ASSUME NEW s \in Places
  PROVE  \/ \E a \in Addrs : s = <<a>>
         \/ \E a \in N1 .. N1 + N2, e \in Entries : s = <<a, e>>
         \/ \E e, f \in Entries : s = <<N1 + N2, e, f>>
BY DEF Places

\* Tuples of indices that are places, and those that hold entry blocks.
LEMMA PlacesAre ==
  /\ \A a \in Addrs : <<a>> \in Places
  /\ \A a \in N1 .. N1 + N2, e \in Entries : <<a, e>> \in Places
  /\ \A e, f \in Entries : <<N1 + N2, e, f>> \in Places
  /\ \A a \in N1 .. N1 + N2 : <<a>> \in EntryPlaces /\ a \in Addrs
  /\ \A e \in Entries : <<N1 + N2, e>> \in EntryPlaces
  /\ N1 + N2 \in N1 .. N1 + N2
  /\ EntryPlaces \subseteq Places
<1>1. N1 \in Nat /\ N2 \in Nat
  BY Sizes
<1>2. N1 + N2 \in N1 .. N1 + N2 /\ \A a \in N1 .. N1 + N2 : a \in Addrs
  BY <1>1 DEF Addrs
<1>3. /\ \A a \in Addrs : <<a>> \in Places
      /\ \A a \in N1 .. N1 + N2, e \in Entries : <<a, e>> \in Places
      /\ \A e, f \in Entries : <<N1 + N2, e, f>> \in Places
  BY DEF Places
<1>4. /\ \A a \in N1 .. N1 + N2 : <<a>> \in EntryPlaces
      /\ \A e \in Entries : <<N1 + N2, e>> \in EntryPlaces
  BY DEF EntryPlaces
<1>5. EntryPlaces \subseteq Places
  BY <1>2, <1>3 DEF EntryPlaces
<1> QED
  BY <1>2, <1>3, <1>4, <1>5

\* The block at a place, by the number of indices.
LEMMA RefIs ==
  ASSUME NEW d, NEW A
  PROVE  /\ \A a : Ref(d, A, <<a>>) = A[a]
         /\ \A a, e : Ref(d, A, <<a, e>>) = At(d, A[a], e)
         /\ \A a, e, f : Ref(d, A, <<a, e, f>>) = At(d, At(d, A[a], e), f)
BY DEF Ref

\* A tree changes only with the words of its entry blocks.
LEMMA Loose ==
  ASSUME NEW d, NEW d2, NEW A,
         \A q \in EntryPlaces : Ref(d, A, q) # 0 => d2[Ref(d, A, q)] = d[Ref(d, A, q)]
  PROVE  \A s \in Places : Ref(d2, A, s) = Ref(d, A, s)
<1>1. \A a \in N1 .. N1 + N2 : A[a] # 0 => d2[A[a]] = d[A[a]]
  <2> SUFFICES ASSUME NEW a \in N1 .. N1 + N2, A[a] # 0 PROVE d2[A[a]] = d[A[a]]
    OBVIOUS
  <2>1. <<a>> \in EntryPlaces /\ Ref(d, A, <<a>>) = A[a]
    BY PlacesAre, RefIs
  <2> QED
    BY <2>1
<1>2. \A a \in N1 .. N1 + N2 : \A e : At(d2, A[a], e) = At(d, A[a], e)
  BY <1>1 DEF At
<1>3. \A e \in Entries : LET b == At(d, A[N1 + N2], e) IN b # 0 => d2[b] = d[b]
  <2> SUFFICES ASSUME NEW e \in Entries, NEW b, b = At(d, A[N1 + N2], e), b # 0 PROVE d2[b] = d[b]
    OBVIOUS
  <2>1. <<N1 + N2, e>> \in EntryPlaces /\ Ref(d, A, <<N1 + N2, e>>) = b
    BY PlacesAre, RefIs
  <2> QED
    BY <2>1
<1>4. \A e \in Entries : \A f : At(d2, At(d, A[N1 + N2], e), f) = At(d, At(d, A[N1 + N2], e), f)
  BY <1>3 DEF At
<1> SUFFICES ASSUME NEW s \in Places PROVE Ref(d2, A, s) = Ref(d, A, s)
  OBVIOUS
<1>5. CASE \E a \in Addrs : s = <<a>>
  BY <1>5, RefIs
<1>6. CASE \E a \in N1 .. N1 + N2, e \in Entries : s = <<a, e>>
  BY <1>2, <1>6, RefIs
<1>7. CASE \E e, f \in Entries : s = <<N1 + N2, e, f>>
  <2>1. PICK e \in Entries, f \in Entries : s = <<N1 + N2, e, f>>
    BY <1>7
  <2>2. At(d2, A[N1 + N2], e) = At(d, A[N1 + N2], e)
    BY <1>2, PlacesAre
  <2> QED
    BY <1>4, <2>1, <2>2, RefIs
<1> QED
  BY <1>5, <1>6, <1>7, PlaceCases

\* Fewer addresses, fewer blocks.
LEMMA Mono ==
  ASSUME NEW d, NEW A, NEW B, \A a \in Addrs : B[a] \in {0, A[a]}
  PROVE  \A s \in Places : Ref(d, B, s) \in {0, Ref(d, A, s)}
<1>1. \A a \in Addrs : \A e : At(d, B[a], e) \in {0, At(d, A[a], e)}
  BY DEF At
<1>2. \A a \in Addrs : \A e, f : At(d, At(d, B[a], e), f) \in {0, At(d, At(d, A[a], e), f)}
  BY <1>1 DEF At
<1> SUFFICES ASSUME NEW s \in Places PROVE Ref(d, B, s) \in {0, Ref(d, A, s)}
  OBVIOUS
<1>5. CASE \E a \in Addrs : s = <<a>>
  BY <1>5, RefIs
<1>6. CASE \E a \in N1 .. N1 + N2, e \in Entries : s = <<a, e>>
  <2>1. PICK a \in N1 .. N1 + N2, e \in Entries : s = <<a, e>>
    BY <1>6
  <2>2. a \in Addrs
    BY PlacesAre
  <2> QED
    BY <1>1, <2>1, <2>2, RefIs
<1>7. CASE \E e, f \in Entries : s = <<N1 + N2, e, f>>
  <2>1. PICK e \in Entries, f \in Entries : s = <<N1 + N2, e, f>>
    BY <1>7
  <2>2. N1 + N2 \in Addrs
    BY PlacesAre
  <2> QED
    BY <1>2, <2>1, <2>2, RefIs
<1> QED
  BY <1>5, <1>6, <1>7, PlaceCases

\* No addresses, no blocks.
LEMMA NoneHas ==
  ASSUME NEW d
  PROVE  \A s \in Places : Ref(d, NoAddrs, s) = 0
<1>1. \A a \in Addrs : NoAddrs[a] = 0
  BY DEF NoAddrs
<1> SUFFICES ASSUME NEW s \in Places PROVE Ref(d, NoAddrs, s) = 0
  OBVIOUS
<1>5. CASE \E a \in Addrs : s = <<a>>
  BY <1>1, <1>5, RefIs
<1>6. CASE \E a \in N1 .. N1 + N2, e \in Entries : s = <<a, e>>
  <2>1. PICK a \in N1 .. N1 + N2, e \in Entries : s = <<a, e>>
    BY <1>6
  <2>2. a \in Addrs
    BY PlacesAre
  <2>3. At(d, NoAddrs[a], e) = 0
    BY <1>1, <2>2 DEF At
  <2> QED
    BY <2>1, <2>3, RefIs
<1>7. CASE \E e, f \in Entries : s = <<N1 + N2, e, f>>
  <2>1. PICK e \in Entries, f \in Entries : s = <<N1 + N2, e, f>>
    BY <1>7
  <2>2. N1 + N2 \in Addrs
    BY PlacesAre
  <2>3. At(d, NoAddrs[N1 + N2], e) = 0
    BY <1>1, <2>2 DEF At
  <2>4. At(d, At(d, NoAddrs[N1 + N2], e), f) = 0
    BY <2>3 DEF At
  <2> QED
    BY <2>1, <2>4, RefIs
<1> QED
  BY <1>5, <1>6, <1>7, PlaceCases

-----------------------------------------------------------------------------
(* The walk of locate_block(), exactly.                                    *)

\* On the way down only bits are set.
Down(r) ==
  /\ r \in Walks /\ r.last.disk = disk /\ bits \subseteq r.last.bits
  /\ \A k \in 1 .. Len(r.images) : r.images[k].disk = disk /\ bits \subseteq r.images[k].bits

\* A block that was free when the walk began.
Fresh(b) == b \in Blocks /\ b > 0 /\ b - DataStart \in 0 .. NB - 1 \ bits

\* What locate_block() has made of an entry: the block there, or a free one.
Chosen(r, s, entry) ==
  \/ entry # 0 /\ s.blk = entry /\ s.new = FALSE /\ s.last.bits = r.last.bits
  \/ /\ entry = 0 /\ s.new = TRUE /\ Fresh(s.blk) /\ s.blk - DataStart \notin r.last.bits
     /\ s.last.bits = r.last.bits \cup {s.blk - DataStart}

\* locate_block() at an entry.
LEMMA VisitDown ==
  ASSUME NEW r, Down(r), NEW entry \in Words, NEW s, s = Visit(r, entry)
  PROVE  /\ Down(s) /\ s.way = r.way /\ s.err = r.err /\ s.addrs = r.addrs
         /\ r.last.past \subseteq s.last.past
         /\ Clean(s.last.past) => Chosen(r, s, entry)
<1>1. r \in Walks
  BY DEF Down
<1>2. CASE entry # 0
  <2>1. s = [r EXCEPT !.blk = entry, !.new = FALSE]
    BY <1>2 DEF Visit
  <2>2. /\ s \in Walks /\ s.blk = entry /\ s.way = r.way /\ s.err = r.err /\ s.addrs = r.addrs
        /\ s.last = r.last /\ s.images = r.images /\ s.new = FALSE
    BY <1>1, <2>1 DEF Walks
  <2> QED
    BY <1>2, <2>2 DEF Down, Chosen
<1>3. CASE entry = 0
  <2>1. r.last \in Images
    BY <1>1 DEF Walks
  <2>2. PICK a : a = AllocBlock(r.last)
    OBVIOUS
  <2>3. /\ a.im \in Images /\ a.im.disk = r.last.disk /\ a.blk \in Blocks
        /\ \/ a.blk = 0 /\ a.im.past = r.last.past \cup {"full"} /\ a.im.bits = r.last.bits
           \/ /\ a.blk > 0 /\ a.blk - DataStart \in FreeBits(r.last)
              /\ a.im.bits = r.last.bits \cup {a.blk - DataStart} /\ a.im.past = r.last.past
    BY <2>1, <2>2, AllocBlockIs
  <2> DEFINE ims == IF a.blk = 0 THEN r.images ELSE Append(r.images, a.im)
  <2>4. s = [r EXCEPT !.blk = a.blk, !.new = TRUE, !.last = a.im, !.images = ims]
    BY <1>1, <1>3, <2>2 DEF Visit, Walks
  <2>5. ims \in Seq(Images)
    BY <1>1, <2>3 DEF Walks
  <2>6. a.blk \in Words
    BY <2>3, Numbers
  <2>7. /\ s \in Walks /\ s.blk = a.blk /\ s.way = r.way /\ s.err = r.err /\ s.addrs = r.addrs
        /\ s.last = a.im /\ s.images = ims /\ s.new = TRUE
    <3> HIDE DEF ims
    <3> QED
      BY <1>1, <2>3, <2>4, <2>5, <2>6 DEF Walks
  <2>8. a.im.disk = disk /\ bits \subseteq a.im.bits
    BY <2>3 DEF Down
  <2>9. \A k \in 1 .. Len(ims) : ims[k].disk = disk /\ bits \subseteq ims[k].bits
    <3>1. r.images \in Seq(Images)
      BY <1>1 DEF Walks
    <3>2. \A k \in 1 .. Len(r.images) : r.images[k].disk = disk /\ bits \subseteq r.images[k].bits
      BY DEF Down
    <3>3. \A k \in 1 .. Len(ims) : ims[k] = a.im \/ \E j \in 1 .. Len(r.images) : ims[k] = r.images[j]
      BY <3>1, <2>3
    <3> HIDE DEF ims
    <3> QED
      BY <3>2, <3>3, <2>8
  <2> HIDE DEF ims
  <2>10. Down(s)
    BY <2>7, <2>8, <2>9 DEF Down
  <2>11. ASSUME Clean(s.last.past) PROVE Chosen(r, s, entry)
    <3>1. /\ a.blk > 0 /\ a.blk - DataStart \in FreeBits(r.last)
          /\ a.im.bits = r.last.bits \cup {a.blk - DataStart}
      BY <2>3, <2>7, <2>11 DEF Clean
    <3>2. Fresh(a.blk) /\ a.blk - DataStart \notin r.last.bits
      BY <3>1, <2>3 DEF Fresh, FreeBits, Down
    <3> QED
      BY <1>3, <2>7, <3>1, <3>2 DEF Chosen
  <2> QED
    BY <2>3, <2>7, <2>10, <2>11
<1> QED
  BY <1>2, <1>3

\* Where the walk has not met an error, the way grows by the block it was at, which
\* is empty if it is new.
Lowered(r, path, k, s) ==
  (/\ k <= Len(path) /\ r.err = "no" /\ r.blk \in Blocks /\ r.blk # 0
   /\ \A j \in 1 .. Len(r.way) : r.way[j].blk # r.blk
   /\ Clean(s.last.past))
  => /\ s.err = "no" /\ Chosen(r, s, disk[r.blk][path[k]])
     /\ s.way = Append(r.way, [blk |-> r.blk, e |-> path[k], to |-> s.blk])
     /\ r.new => disk[r.blk] = Zeros

\* locate_block() one level down: only bits are set.
LEMMA DescendDown ==
  ASSUME NEW r, Down(r), NEW path, NEW k \in {2, 3}, Len(path) \in Nat,
         k <= Len(path) => path[k] \in Entries, NEW s, s = Descend(r, path, k)
  PROVE  /\ Down(s) /\ s.addrs = r.addrs /\ r.last.past \subseteq s.last.past
         /\ k > Len(path) => s = r
         /\ Lowered(r, path, k, s)
<1>1. r \in Walks /\ r.way \in Seq(Steps) /\ DOMAIN r.way = 1 .. Len(r.way)
  BY DEF Down, Walks
<1>2. CASE r.err # "no" \/ k > Len(path)
  <2>1. s = r
    BY <1>2 DEF Descend
  <2>2. ~(r.err = "no" /\ k <= Len(path))
    BY <1>2
  <2> QED
    BY <2>1, <2>2 DEF Lowered
<1>3. ASSUME NEW x \in {"io", "acquire"}, s = [r EXCEPT !.err = x]
      PROVE  Down(s) /\ s.addrs = r.addrs /\ s.last.past = r.last.past
  <2>1. /\ s \in Walks /\ s.addrs = r.addrs /\ s.last = r.last /\ s.images = r.images
    BY <1>1, <1>3 DEF Walks
  <2> QED
    BY <2>1 DEF Down
<1>4. CASE /\ ~(r.err # "no" \/ k > Len(path)) /\ r.blk \in Blocks
           /\ ~\E j \in DOMAIN r.way : r.way[j].blk = r.blk
  <2> DEFINE words == r.last.disk[r.blk]
             stale == r.new /\ r.blk # 0 /\ words # Zeros
             pst == IF stale THEN r.last.past \cup {"stale"} ELSE r.last.past
             lst == [r.last EXCEPT !.past = pst]
             q == [r EXCEPT !.last = lst]
  <2>1. path[k] \in Entries
    BY <1>4
  <2>2. words \in [Entries -> Words] /\ words = disk[r.blk]
    BY <1>1, <1>4 DEF Walks, Images, Down
  <2>3. words[path[k]] \in Words
    BY <2>1, <2>2
  <2>4. pst \in SUBSET {"full", "stale", "crash"}
    <3> HIDE DEF stale
    <3> QED
      BY <1>1 DEF Walks, Images
  <2>5. r.last.past \subseteq pst /\ (r.new /\ r.blk # 0 /\ words # Zeros => "stale" \in pst)
    OBVIOUS
  <2> HIDE DEF pst
  <2>6. lst \in Images /\ lst.disk = r.last.disk /\ lst.bits = r.last.bits /\ lst.past = pst
    BY <1>1, <2>4 DEF Walks, Images
  <2>7. lst = [r.last EXCEPT !.past = IF stale THEN @ \cup {"stale"} ELSE @]
    BY <1>1 DEF Walks, Images, pst
  <2> HIDE DEF lst
  <2>8. /\ q \in Walks /\ q.blk = r.blk /\ q.way = r.way /\ q.addrs = r.addrs /\ q.err = r.err
        /\ q.last = lst /\ q.images = r.images
    BY <1>1, <2>6 DEF Walks
  <2>9. PICK v : v = Visit(q, words[path[k]])
    OBVIOUS
  <2>10. s = [v EXCEPT !.way = Append(@, [blk |-> r.blk, e |-> path[k], to |-> v.blk])]
    <3>1. q = [r EXCEPT !.last.past = IF stale THEN @ \cup {"stale"} ELSE @]
      BY <1>1, <2>7 DEF Walks
    <3> HIDE DEF q
    <3> QED
      BY <1>4, <2>9, <3>1 DEF Descend
  <2> HIDE DEF q
  <2>11. Down(q)
    BY <2>6, <2>8 DEF Down
  <2>12. /\ Down(v) /\ v.way = r.way /\ v.err = r.err /\ v.addrs = r.addrs
         /\ pst \subseteq v.last.past
         /\ Clean(v.last.past) => Chosen(q, v, words[path[k]])
    <3> HIDE DEF words
    <3> QED
      BY <2>3, <2>6, <2>8, <2>9, <2>11, VisitDown
  <2>13. v \in Walks
    BY <2>12 DEF Down
  <2>14. PICK step : step = [blk |-> r.blk, e |-> path[k], to |-> v.blk]
    OBVIOUS
  <2>15. step \in Steps
    <3>1. v.blk \in Words
      BY <2>13 DEF Walks
    <3> QED
      BY <1>4, <2>1, <2>14, <3>1 DEF Steps
  <2>16. Append(v.way, step) \in Seq(Steps)
    BY <1>1, <2>12, <2>15
  <2>17. s = [v EXCEPT !.way = Append(v.way, step)]
    BY <2>10, <2>13, <2>14 DEF Walks
  <2>18. /\ s \in Walks /\ s.blk = v.blk /\ s.way = Append(v.way, step) /\ s.addrs = v.addrs
         /\ s.last = v.last /\ s.images = v.images /\ s.err = v.err /\ s.new = v.new
    BY <2>13, <2>16, <2>17 DEF Walks
  <2>19. Down(s)
    BY <2>12, <2>18 DEF Down
  <2>20. ASSUME r.blk # 0, Clean(s.last.past)
         PROVE  Chosen(r, s, disk[r.blk][path[k]]) /\ (r.new => disk[r.blk] = Zeros)
    <3>1. Chosen(q, v, words[path[k]])
      BY <2>12, <2>18, <2>20
    <3>2. "stale" \notin pst
      BY <2>12, <2>18, <2>20 DEF Clean
    <3> QED
      BY <2>2, <2>5, <2>6, <2>8, <2>18, <2>20, <3>1, <3>2 DEF Chosen
  <2>21. s.way = Append(r.way, [blk |-> r.blk, e |-> path[k], to |-> s.blk])
    BY <2>12, <2>14, <2>18
  <2> QED
    BY <1>4, <2>5, <2>12, <2>18, <2>19, <2>20, <2>21 DEF Lowered
<1>5. CASE ~(r.err # "no" \/ k > Len(path)) /\ r.blk \notin Blocks
  <2>1. s = [r EXCEPT !.err = "io"]
    BY <1>5 DEF Descend
  <2> QED
    BY <2>1, <1>3, <1>5 DEF Lowered
<1>6. CASE /\ ~(r.err # "no" \/ k > Len(path)) /\ r.blk \in Blocks
           /\ \E j \in DOMAIN r.way : r.way[j].blk = r.blk
  <2>1. s = [r EXCEPT !.err = "acquire"]
    BY <1>6 DEF Descend
  <2> QED
    BY <2>1, <1>1, <1>3, <1>6 DEF Lowered
<1> QED
  BY <1>2, <1>4, <1>5, <1>6

\* Every image is from before the first block was written back, or knows all that
\* the walk has come by.
Told(r) ==
  \A k \in 1 .. Len(r.images) :
    \/ r.images[k].disk = disk /\ bits \subseteq r.images[k].bits
    \/ r.images[k].past = r.last.past

\* A block on the way is written back, unless there has been an error.
Written(r, k, s) ==
  /\ r.err # "no" \/ k > Len(r.way) => s = r
  /\ r.err = "no" /\ k <= Len(r.way) =>
       /\ s.last.disk = [r.last.disk EXCEPT ![r.way[k].blk][r.way[k].e] = r.way[k].to]
       /\ s.images = Append(r.images, s.last)

\* The recursion returning.
LEMMA WriteBackUp ==
  ASSUME NEW r, r \in Walks, Told(r), NEW k \in {1, 2}, NEW s, s = WriteBack(r, k)
  PROVE  /\ s \in Walks /\ Told(s)
         /\ s.blk = r.blk /\ s.way = r.way /\ s.err = r.err /\ s.addrs = r.addrs
         /\ s.last.past = r.last.past /\ s.last.bits = r.last.bits
         /\ Written(r, k, s)
<1>2. CASE r.err # "no" \/ k > Len(r.way)
  <2>1. s = r
    BY <1>2 DEF WriteBack
  <2>2. Len(r.way) \in Nat
    BY DEF Walks
  <2>3. ~(r.err = "no" /\ k <= Len(r.way))
    BY <1>2, <2>2
  <2> QED
    BY <2>1, <2>3 DEF Written
<1>3. CASE ~(r.err # "no" \/ k > Len(r.way))
  <2>1. PICK im : im = PutWord(r.last, r.way[k].blk, r.way[k].e, r.way[k].to)
    OBVIOUS
  <2>2. r.way[k] \in Steps
    <3>1. r.way \in Seq(Steps) /\ k \in 1 .. Len(r.way)
      BY <1>3 DEF Walks
    <3> QED
      BY <3>1
  <2>3. PICK b \in Blocks, e \in Entries, w \in Words :
          b = r.way[k].blk /\ e = r.way[k].e /\ w = r.way[k].to
    BY <2>2 DEF Steps
  <2>4. s = [r EXCEPT !.last = im, !.images = Append(r.images, im)]
    BY <1>3, <2>1 DEF WriteBack, Walks
  <2>5. /\ im \in Images /\ im.bits = r.last.bits /\ im.past = r.last.past
        /\ im.disk = [r.last.disk EXCEPT ![b][e] = w]
    BY <2>1, <2>3 DEF PutWord, Walks, Images
  <2>6. r.images \in Seq(Images) /\ Append(r.images, im) \in Seq(Images)
    BY <2>5 DEF Walks
  <2>7. /\ s \in Walks /\ s.blk = r.blk /\ s.way = r.way /\ s.addrs = r.addrs /\ s.err = r.err
        /\ s.last = im /\ s.images = Append(r.images, im)
    BY <2>4, <2>5, <2>6 DEF Walks
  <2>8. Told(s)
    <3>1. \A j \in 1 .. Len(s.images) :
            s.images[j] = im \/ \E l \in 1 .. Len(r.images) : s.images[j] = r.images[l]
      BY <2>6, <2>7, <2>5
    <3> QED
      BY <2>5, <2>7, <3>1 DEF Told
  <2> QED
    BY <1>3, <2>3, <2>5, <2>7, <2>8 DEF Written
<1> QED
  BY <1>2, <1>3

\* inode_locate_block() in its steps: down the path, and back up.
Course(A, path, r, r0, r1, r2, r3, u2, u1) ==
  /\ Down(r0) /\ r0.err = "no" /\ r0.way = <<>> /\ r0.addrs = A /\ r0.last.bits = bits
  /\ r1 = Visit(r0, A[path[1]]) /\ r2 = Descend(r1, path, 2) /\ r3 = Descend(r2, path, 3)
  /\ Down(r1) /\ Down(r2) /\ Down(r3)
  /\ r1.last.past \subseteq r2.last.past /\ r2.last.past \subseteq r3.last.past
  /\ u2 = WriteBack(r3, 2) /\ u1 = WriteBack(u2, 1)
  /\ Told(r3) /\ u2 \in Walks /\ Told(u2)
  /\ Told(r) /\ r \in Walks /\ r.last = u1.last /\ r.images = u1.images /\ r.blk = u1.blk
  /\ r.last.past = r3.last.past
  /\ r.addrs = [A EXCEPT ![path[1]] = r1.blk]
  /\ r.err = IF u1.err = "no" /\ u1.blk \notin Blocks THEN "io" ELSE u1.err

\* Every location has a course.
LEMMA LocateSteps ==
  ASSUME Image \in Images, NEW A \in [Addrs -> Words], NEW path, IsPath(path),
         NEW r, r = Locate(A, path)
  PROVE  \E r0, r1, r2, r3, u2, u1 : Course(A, path, r, r0, r1, r2, r3, u2, u1)
<1>1. PICK r0 : r0 = [blk |-> 0, new |-> FALSE, way |-> <<>>, err |-> "no",
                      last |-> Image, images |-> <<>>, addrs |-> A]
  OBVIOUS
<1>2. Image.disk = disk /\ Image.bits = bits
  BY DEF Image
<1>3. /\ r0 \in Walks /\ r0.err = "no" /\ r0.way = <<>> /\ r0.addrs = A /\ r0.images = <<>>
      /\ r0.last = Image
  <2>1. <<>> \in Seq(Steps) /\ <<>> \in Seq(Images) /\ 0 \in Words
    BY Numbers
  <2> QED
    BY <1>1, <2>1 DEF Walks
<1>4. Down(r0)
  BY <1>2, <1>3 DEF Down
<1>5. Len(path) \in Nat /\ path[1] \in Addrs /\ \A k \in {2, 3} : k <= Len(path) => path[k] \in Entries
  BY PathShape
<1>6. PICK r1 : r1 = Visit(r0, A[path[1]])
  OBVIOUS
<1>7. Down(r1) /\ r1.addrs = A
  <2>1. A[path[1]] \in Words
    BY <1>5
  <2> QED
    BY <1>3, <1>4, <1>6, <2>1, VisitDown
<1>8. PICK r2 : r2 = Descend(r1, path, 2)
  OBVIOUS
<1>9. Down(r2) /\ r2.addrs = A /\ r1.last.past \subseteq r2.last.past
  <2>1. 2 \in {2, 3} /\ (2 <= Len(path) => path[2] \in Entries)
    BY <1>5
  <2> QED
    BY <1>5, <1>7, <1>8, <2>1, DescendDown
<1>10. PICK r3 : r3 = Descend(r2, path, 3)
  OBVIOUS
<1>11. Down(r3) /\ r3.addrs = A /\ r2.last.past \subseteq r3.last.past
  <2>1. 3 \in {2, 3} /\ (3 <= Len(path) => path[3] \in Entries)
    BY <1>5
  <2> QED
    BY <1>5, <1>9, <1>10, <2>1, DescendDown
<1>12. r3 \in Walks /\ Told(r3)
  BY <1>11 DEF Down, Told
<1>13. PICK u2 : u2 = WriteBack(r3, 2)
  OBVIOUS
<1>14. u2 \in Walks /\ Told(u2) /\ u2.addrs = A /\ u2.last.past = r3.last.past
  BY <1>11, <1>12, <1>13, WriteBackUp
<1>15. PICK u1 : u1 = WriteBack(u2, 1)
  OBVIOUS
<1>16. u1 \in Walks /\ Told(u1) /\ u1.addrs = A /\ u1.last.past = r3.last.past
  BY <1>14, <1>15, WriteBackUp
<1>17. r = [u1 EXCEPT !.addrs[path[1]] = r1.blk,
                      !.err = IF @ = "no" /\ u1.blk \notin Blocks THEN "io" ELSE @]
  BY <1>1, <1>6, <1>8, <1>10, <1>13, <1>15 DEF Locate
<1>18. r1.blk \in Words
  BY <1>7 DEF Down, Walks
<1>19. /\ r \in Walks /\ r.last = u1.last /\ r.images = u1.images /\ r.blk = u1.blk
       /\ r.addrs = [A EXCEPT ![path[1]] = r1.blk]
       /\ r.err = IF u1.err = "no" /\ u1.blk \notin Blocks THEN "io" ELSE u1.err
  BY <1>5, <1>16, <1>17, <1>18 DEF Walks
<1>20. Told(r)
  BY <1>16, <1>19 DEF Told
<1>21. r.last.past = r3.last.past /\ r0.last.bits = bits
  BY <1>2, <1>3, <1>16, <1>19
<1>22. Course(A, path, r, r0, r1, r2, r3, u2, u1)
  BY <1>3, <1>4, <1>6, <1>7, <1>8, <1>9, <1>10, <1>11, <1>12, <1>13, <1>14, <1>15, <1>19, <1>20,
     <1>21, Zenon DEF Course
<1> QED
  BY <1>22

\* Every block is at one place of this tree at most, and allocated.
Sole(A) ==
  /\ \A s, t \in Places : Ref(disk, A, s) # 0 /\ Ref(disk, A, s) = Ref(disk, A, t) => s = t
  /\ \A s \in Places : Ref(disk, A, s) # 0 =>
       Ref(disk, A, s) \in Blocks /\ Ref(disk, A, s) - DataStart \in bits

\* The block an entry has led to: the one there, or a free one, allocated in bs.
Linked(entry, b, bs) ==
  /\ b \in Blocks /\ b # 0
  /\ \/ entry # 0 /\ b = entry
     \/ entry = 0 /\ Fresh(b) /\ b - DataStart \in bs

\* A direct block.
LEMMA Locate1 ==
  ASSUME Image \in Images, NEW A \in [Addrs -> Words], Sole(A), NEW a \in 0 .. N1 - 1,
         NEW r, r = Locate(A, <<a>>), Clean(r.last.past)
  PROVE  /\ r.err = "no" /\ r.addrs = [A EXCEPT ![a] = r.blk]
         /\ Linked(A[a], r.blk, r.last.bits)
         /\ r.last.disk = disk /\ bits \subseteq r.last.bits
         /\ r.last.bits \subseteq bits \cup {r.blk - DataStart}
         /\ \A k \in 1 .. Len(r.images) : r.images[k].disk = disk /\ bits \subseteq r.images[k].bits
<1>1. IsPath(<<a>>) /\ a \in Addrs /\ <<a>>[1] = a /\ Len(<<a>>) = 1
  BY Sizes DEF IsPath, Addrs
<1>2. PICK r0, r1, r2, r3, u2, u1 : Course(A, <<a>>, r, r0, r1, r2, r3, u2, u1)
  BY <1>1, LocateSteps
<1>3. r2 = r1 /\ r3 = r1
  <2>1. r2 = Descend(r1, <<a>>, 2) /\ r3 = Descend(r2, <<a>>, 3)
    BY <1>2 DEF Course
  <2>2. Descend(r1, <<a>>, 2) = r1 /\ Descend(r1, <<a>>, 3) = r1
    BY <1>1 DEF Descend
  <2> QED
    BY <2>1, <2>2
<1>4. /\ r1.way = <<>> /\ r1.err = "no" /\ Down(r1)
      /\ Chosen(r0, r1, A[a]) /\ r0.last.bits = bits
  <2>1. Down(r0) /\ r1 = Visit(r0, A[a]) /\ A[a] \in Words /\ Clean(r1.last.past)
        /\ r0.way = <<>> /\ r0.err = "no" /\ r0.last.bits = bits
    BY <1>1, <1>2, <1>3 DEF Course
  <2> QED
    BY <2>1, VisitDown
<1>5. u2 = r1 /\ u1 = r1
  <2>1. u2 = WriteBack(r3, 2) /\ u1 = WriteBack(u2, 1)
    BY <1>2 DEF Course
  <2>2. Len(r1.way) = 0
    BY <1>4
  <2>3. WriteBack(r1, 2) = r1 /\ WriteBack(r1, 1) = r1
    BY <2>2 DEF WriteBack
  <2> QED
    BY <1>3, <2>1, <2>3
<1>6. A[a] # 0 => A[a] \in Blocks
  <2>1. <<a>> \in Places /\ Ref(disk, A, <<a>>) = A[a]
    BY <1>1, PlacesAre, RefIs
  <2> QED
    BY <2>1 DEF Sole
<1>7. Linked(A[a], r1.blk, r1.last.bits)
  BY <1>4, <1>6 DEF Chosen, Linked, Fresh
<1>8. r1.last.bits \subseteq bits \cup {r1.blk - DataStart}
  BY <1>4 DEF Chosen
<1> QED
  <2>1. /\ r.last = r1.last /\ r.images = r1.images /\ r.blk = r1.blk
        /\ r.addrs = [A EXCEPT ![a] = r1.blk]
        /\ r.err = IF r1.err = "no" /\ r1.blk \notin Blocks THEN "io" ELSE r1.err
    BY <1>1, <1>2, <1>5 DEF Course
  <2> QED
    BY <1>4, <1>7, <1>8, <2>1 DEF Down, Linked

\* The first two levels of an indirect block: the entry block b and the block c that
\* its entry leads to.
Indirect(A, a, e, b, c, bs) ==
  /\ Linked(A[a], b, bs) /\ (A[a] = 0 => disk[b] = Zeros)
  /\ Linked(disk[b][e], c, bs) /\ b # c

TwoDown(A, a, e, r1, r2) ==
  /\ Indirect(A, a, e, r1.blk, r2.blk, r2.last.bits)
  /\ r2.err = "no" /\ r2.way = <<[blk |-> r1.blk, e |-> e, to |-> r2.blk]>>
  /\ r2.new = (disk[r1.blk][e] = 0)
  /\ r2.last.bits \subseteq bits \cup {r1.blk - DataStart, r2.blk - DataStart}

\* A path of at least two indices.
LongPath(path) ==
  path[1] \in N1 .. N1 + N2 /\ path[2] \in Entries /\ Len(path) \in Nat /\ Len(path) >= 2

\* Down the first two levels.
LEMMA DownTwo ==
  ASSUME NEW A \in [Addrs -> Words], Sole(A), NEW path, LongPath(path),
         NEW r, NEW r0, NEW r1, NEW r2, NEW r3, NEW u2, NEW u1,
         Course(A, path, r, r0, r1, r2, r3, u2, u1), Clean(r2.last.past)
  PROVE  TwoDown(A, path[1], path[2], r1, r2)
<1>0. PICK a \in N1 .. N1 + N2, e \in Entries :
        a = path[1] /\ e = path[2] /\ Len(path) \in Nat /\ Len(path) >= 2
  BY DEF LongPath
<1>1. /\ Down(r0) /\ r0.err = "no" /\ r0.way = <<>> /\ r1 = Visit(r0, A[a])
      /\ r2 = Descend(r1, path, 2) /\ r1.last.past \subseteq r2.last.past
      /\ r0.last.bits = bits
  BY <1>0 DEF Course
<1>2. a \in Addrs /\ A[a] \in Words /\ <<a>> \in Places /\ <<a, e>> \in Places
  BY PlacesAre
<1>3. Clean(r1.last.past)
  BY <1>1 DEF Clean
<1>4. Down(r1) /\ r1.way = <<>> /\ r1.err = "no" /\ Chosen(r0, r1, A[a])
  BY <1>1, <1>2, <1>3, VisitDown
<1>5. A[a] # 0 => A[a] \in Blocks /\ A[a] - DataStart \in bits
  BY <1>2, RefIs DEF Sole
<1>6. r1.blk \in Blocks /\ r1.blk # 0
  BY <1>4, <1>5 DEF Chosen, Fresh
<1>7. Lowered(r1, path, 2, r2) /\ Down(r2)
  <2>1. 2 \in {2, 3} /\ (2 <= Len(path) => path[2] \in Entries)
    BY <1>0
  <2> QED
    BY <1>0, <1>1, <1>4, <2>1, DescendDown
<1>8. /\ r2.err = "no" /\ Chosen(r1, r2, disk[r1.blk][e])
      /\ r2.way = Append(r1.way, [blk |-> r1.blk, e |-> e, to |-> r2.blk])
      /\ r1.new => disk[r1.blk] = Zeros
  <2>1. \A j \in 1 .. Len(r1.way) : r1.way[j].blk # r1.blk
    BY <1>4
  <2> QED
    BY <1>0, <1>4, <1>6, <1>7, <2>1 DEF Lowered
<1>9. disk[r1.blk][e] # 0 /\ A[a] # 0 =>
        /\ disk[r1.blk][e] \in Blocks /\ disk[r1.blk][e] - DataStart \in bits
        /\ disk[r1.blk][e] # r1.blk
  <2>1. SUFFICES ASSUME disk[r1.blk][e] # 0, A[a] # 0
                 PROVE  /\ disk[r1.blk][e] \in Blocks /\ disk[r1.blk][e] - DataStart \in bits
                        /\ disk[r1.blk][e] # r1.blk
    OBVIOUS
  <2>2. r1.blk = A[a]
    BY <1>4, <2>1 DEF Chosen
  <2>3. Ref(disk, A, <<a>>) = r1.blk /\ Ref(disk, A, <<a, e>>) = disk[r1.blk][e]
    <3>1. Ref(disk, A, <<a>>) = A[a] /\ Ref(disk, A, <<a, e>>) = At(disk, A[a], e)
      BY RefIs
    <3> QED
      BY <1>6, <2>2, <3>1 DEF At
  <2>4. <<a>> # <<a, e>>
    OBVIOUS
  <2> QED
    BY <1>2, <1>6, <2>1, <2>3, <2>4 DEF Sole
<1>10. A[a] = 0 => disk[r1.blk] = Zeros /\ disk[r1.blk][e] = 0
  BY <1>4, <1>8 DEF Chosen, Zeros
<1>11. bits \subseteq r1.last.bits /\ r1.last.bits \subseteq r2.last.bits
  BY <1>4, <1>8 DEF Chosen, Down
<1>12. Linked(A[a], r1.blk, r2.last.bits)
  BY <1>1, <1>4, <1>6, <1>11 DEF Chosen, Linked
<1>13. Linked(disk[r1.blk][e], r2.blk, r2.last.bits)
  BY <1>8, <1>9, <1>10 DEF Chosen, Linked, Fresh
<1>14. r1.blk # r2.blk
  <2>1. CASE disk[r1.blk][e] # 0
    BY <1>8, <1>9, <1>10, <2>1 DEF Chosen
  <2>2. CASE disk[r1.blk][e] = 0
    <3>1. r2.blk - DataStart \notin r1.last.bits
      BY <1>8, <2>2 DEF Chosen
    <3>2. r1.blk - DataStart \in r1.last.bits
      BY <1>1, <1>4, <1>5, <1>11 DEF Chosen
    <3> QED
      BY <3>1, <3>2
  <2> QED
    BY <2>1, <2>2
<1>15. r2.way = <<[blk |-> r1.blk, e |-> e, to |-> r2.blk]>>
  BY <1>4, <1>8
<1>16. r2.new = (disk[r1.blk][e] = 0)
  BY <1>8 DEF Chosen
<1>17. r2.last.bits \subseteq bits \cup {r1.blk - DataStart, r2.blk - DataStart}
  BY <1>1, <1>4, <1>8 DEF Chosen
<1> QED
  BY <1>0, <1>8, <1>10, <1>12, <1>13, <1>14, <1>15, <1>16, <1>17 DEF Indirect, TwoDown

\* What there is after it: entry block b is written, in the last image only.
Entered2(A, a, e, b, r) ==
  /\ r.err = "no" /\ r.addrs = [A EXCEPT ![a] = b]
  /\ Indirect(A, a, e, b, r.blk, r.last.bits)
  /\ r.last.disk = [disk EXCEPT ![b][e] = r.blk] /\ bits \subseteq r.last.bits
  /\ r.last.bits \subseteq bits \cup {b - DataStart, r.blk - DataStart}
  /\ \A k \in 1 .. Len(r.images) :
       \/ r.images[k].disk = disk /\ bits \subseteq r.images[k].bits
       \/ r.images[k] = r.last

\* A block under an indirect address.
LEMMA Locate2 ==
  ASSUME Image \in Images, NEW A \in [Addrs -> Words], Sole(A),
         NEW a \in N1 .. N1 + N2 - 1, NEW e \in Entries,
         NEW r, r = Locate(A, <<a, e>>), Clean(r.last.past)
  PROVE  \E b \in Blocks : Entered2(A, a, e, b, r)
<1> DEFINE path == <<a, e>>
<1>1. /\ IsPath(path) /\ a \in N1 .. N1 + N2 /\ path[1] = a /\ path[2] = e
      /\ Len(path) = 2 /\ Len(path) \in Nat /\ Len(path) >= 2
  BY Sizes DEF IsPath
<1> HIDE DEF path
<1>2. PICK r0, r1, r2, r3, u2, u1 : Course(A, path, r, r0, r1, r2, r3, u2, u1)
  BY <1>1, LocateSteps DEF path
<1>3. r3 = r2 /\ Down(r2) /\ r2 \in Walks
  <2>1. r3 = Descend(r2, path, 3) /\ Down(r2)
    BY <1>2 DEF Course
  <2> QED
    BY <1>1, <2>1 DEF Descend, Down
<1>4. Clean(r2.last.past)
  BY <1>2, <1>3 DEF Course
<1>5. /\ Indirect(A, a, e, r1.blk, r2.blk, r2.last.bits)
      /\ r2.err = "no" /\ r2.way = <<[blk |-> r1.blk, e |-> e, to |-> r2.blk]>>
      /\ r2.last.bits \subseteq bits \cup {r1.blk - DataStart, r2.blk - DataStart}
  <2>1. LongPath(path)
    BY <1>1 DEF LongPath
  <2>2. TwoDown(A, path[1], path[2], r1, r2)
    BY <1>2, <1>4, <2>1, DownTwo
  <2> QED
    BY <1>1, <2>2 DEF TwoDown
<1>6. u2 = r2
  <2>1. u2 = WriteBack(r2, 2)
    BY <1>2, <1>3 DEF Course
  <2>2. Len(r2.way) = 1
    BY <1>5
  <2> QED
    BY <2>1, <2>2 DEF WriteBack
<1>7. /\ u1.blk = r2.blk /\ u1.err = "no" /\ u1.last.bits = r2.last.bits
      /\ Written(r2, 1, u1)
  <2>1. u1 = WriteBack(r2, 1) /\ Told(r2)
    BY <1>2, <1>3, <1>6 DEF Course
  <2>2. 1 \in {1, 2}
    OBVIOUS
  <2> QED
    BY <1>3, <1>5, <2>1, <2>2, WriteBackUp
<1>8. u1.last.disk = [disk EXCEPT ![r1.blk][e] = r2.blk] /\ u1.images = Append(r2.images, u1.last)
  <2>1. Len(r2.way) = 1 /\ r2.way[1].blk = r1.blk /\ r2.way[1].e = e /\ r2.way[1].to = r2.blk
    BY <1>5
  <2>2. r2.last.disk = disk
    BY <1>3 DEF Down
  <2>3. /\ u1.last.disk = [r2.last.disk EXCEPT ![r2.way[1].blk][r2.way[1].e] = r2.way[1].to]
        /\ u1.images = Append(r2.images, u1.last)
    <3>1. 1 <= Len(r2.way)
      BY <2>1
    <3> QED
      BY <1>5, <1>7, <3>1, Zenon DEF Written
  <2> QED
    BY <2>1, <2>2, <2>3, Zenon
<1>9. /\ r.last = u1.last /\ r.images = u1.images /\ r.blk = r2.blk
      /\ r.addrs = [A EXCEPT ![a] = r1.blk]
      /\ r.err = IF u1.err = "no" /\ u1.blk \notin Blocks THEN "io" ELSE u1.err
  BY <1>1, <1>2, <1>7 DEF Course
<1>10. r1.blk \in Blocks /\ r2.blk \in Blocks
  BY <1>5 DEF Indirect, Linked
<1>11. \A k \in 1 .. Len(r.images) :
              \/ r.images[k].disk = disk /\ bits \subseteq r.images[k].bits
              \/ r.images[k] = r.last
  <2>1. r2.images \in Seq(Images)
    BY <1>3 DEF Walks
  <2>2. \A k \in 1 .. Len(r2.images) : r2.images[k].disk = disk /\ bits \subseteq r2.images[k].bits
    BY <1>3 DEF Down
  <2>3. \A k \in 1 .. Len(Append(r2.images, r.last)) :
          \/ Append(r2.images, r.last)[k] = r.last
          \/ k \in 1 .. Len(r2.images) /\ Append(r2.images, r.last)[k] = r2.images[k]
    BY <2>1
  <2>4. r.images = Append(r2.images, r.last)
    BY <1>8, <1>9
  <2> QED
    BY ONLY <2>2, <2>3, <2>4
<1>12. /\ bits \subseteq r.last.bits
       /\ r.last.bits \subseteq bits \cup {r1.blk - DataStart, r.blk - DataStart}
  BY <1>3, <1>5, <1>7, <1>9 DEF Down
<1>13. Entered2(A, a, e, r1.blk, r)
  BY <1>5, <1>7, <1>8, <1>9, <1>10, <1>11, <1>12 DEF Entered2
<1> QED
  BY <1>10, <1>13

\* The third level of a doubly indirect block.
Double(A, a, e, f, b, c, g, bs) ==
  /\ Indirect(A, a, e, b, c, bs) /\ (disk[b][e] = 0 => disk[c] = Zeros)
  /\ Linked(disk[c][f], g, bs) /\ g # b /\ g # c

\* After it: entry block c is written, then the entry block b above.
Entered3(A, a, e, f, b, c, r) ==
  /\ r.err = "no" /\ r.addrs = [A EXCEPT ![a] = b]
  /\ Double(A, a, e, f, b, c, r.blk, r.last.bits)
  /\ r.last.disk = [[disk EXCEPT ![c][f] = r.blk] EXCEPT ![b][e] = c]
  /\ bits \subseteq r.last.bits
  /\ r.last.bits \subseteq bits \cup {b - DataStart, c - DataStart, r.blk - DataStart}
  /\ \A k \in 1 .. Len(r.images) :
       \/ r.images[k].disk = disk /\ bits \subseteq r.images[k].bits
       \/ r.images[k].disk = [disk EXCEPT ![c][f] = r.blk] /\ r.images[k].bits = r.last.bits
       \/ r.images[k] = r.last

\* A block under the doubly indirect address.
LEMMA Locate3 ==
  ASSUME Image \in Images, NEW A \in [Addrs -> Words], Sole(A),
         NEW a, a = N1 + N2, NEW e \in Entries, NEW f \in Entries,
         NEW r, r = Locate(A, <<a, e, f>>), Clean(r.last.past)
  PROVE  \E b, c \in Blocks : Entered3(A, a, e, f, b, c, r)
<1> DEFINE path == <<a, e, f>>
<1>1. /\ IsPath(path) /\ a \in N1 .. N1 + N2 /\ path[1] = a /\ path[2] = e /\ path[3] = f
      /\ Len(path) = 3 /\ Len(path) \in Nat /\ Len(path) >= 2
  BY Sizes DEF IsPath
<1> HIDE DEF path
<1>2. PICK r0, r1, r2, r3, u2, u1 : Course(A, path, r, r0, r1, r2, r3, u2, u1)
  BY <1>1, LocateSteps DEF path
<1>3. /\ r3 = Descend(r2, path, 3) /\ Down(r2) /\ Down(r3) /\ Told(r3) /\ r3 \in Walks
      /\ u2 = WriteBack(r3, 2) /\ u1 = WriteBack(u2, 1) /\ u2 \in Walks /\ Told(u2)
      /\ r2.last.past \subseteq r3.last.past /\ r.last.past = r3.last.past
  BY <1>2 DEF Course, Down
<1>4. Clean(r2.last.past) /\ Clean(r3.last.past)
  BY <1>3 DEF Clean
<1>5. /\ Indirect(A, a, e, r1.blk, r2.blk, r2.last.bits)
      /\ r2.err = "no" /\ r2.way = <<[blk |-> r1.blk, e |-> e, to |-> r2.blk]>>
      /\ r2.new = (disk[r1.blk][e] = 0)
      /\ r2.last.bits \subseteq bits \cup {r1.blk - DataStart, r2.blk - DataStart}
  <2>1. LongPath(path)
    BY <1>1 DEF LongPath
  <2>2. TwoDown(A, path[1], path[2], r1, r2)
    BY <1>2, <1>4, <2>1, DownTwo
  <2> QED
    BY <1>1, <2>2 DEF TwoDown
<1>6. PICK b \in Blocks, c \in Blocks : /\ b = r1.blk /\ c = r2.blk /\ b # 0 /\ c # 0 /\ b # c
  BY <1>5 DEF Indirect, Linked
<1>7. /\ r3.err = "no" /\ Chosen(r2, r3, disk[c][f])
      /\ r3.way = Append(r2.way, [blk |-> c, e |-> f, to |-> r3.blk])
      /\ disk[b][e] = 0 => disk[c] = Zeros
  <2>1. Lowered(r2, path, 3, r3)
    <3>1. 3 \in {2, 3} /\ (3 <= Len(path) => path[3] \in Entries)
      BY <1>1
    <3> QED
      BY <1>1, <1>3, <3>1, DescendDown
  <2>2. \A j \in 1 .. Len(r2.way) : r2.way[j].blk # r2.blk
    <3>1. Len(r2.way) = 1 /\ r2.way[1].blk = b
      BY <1>5, <1>6
    <3> QED
      BY <1>6, <3>1
  <2>3. 3 <= Len(path)
    BY <1>1
  <2> QED
    BY <1>1, <1>4, <1>5, <1>6, <2>1, <2>2, <2>3 DEF Lowered
<1>8. A[a] = 0 => disk[b][e] = 0
  BY <1>5, <1>6 DEF Indirect, Zeros
<1>9. disk[b][e] = 0 => disk[c][f] = 0
  BY <1>7 DEF Zeros
<1>10. disk[c][f] # 0 =>
         /\ disk[c][f] \in Blocks /\ disk[c][f] - DataStart \in bits
         /\ disk[c][f] # b /\ disk[c][f] # c
  <2> SUFFICES ASSUME disk[c][f] # 0
               PROVE  /\ disk[c][f] \in Blocks /\ disk[c][f] - DataStart \in bits
                      /\ disk[c][f] # b /\ disk[c][f] # c
    OBVIOUS
  <2>1. A[a] = b /\ disk[b][e] = c
    BY <1>5, <1>6, <1>8, <1>9 DEF Indirect, Linked
  <2>2. /\ Ref(disk, A, <<a>>) = A[a] /\ Ref(disk, A, <<a, e>>) = At(disk, A[a], e)
        /\ Ref(disk, A, <<a, e, f>>) = At(disk, At(disk, A[a], e), f)
    BY RefIs
  <2>3. At(disk, A[a], e) = c /\ At(disk, c, f) = disk[c][f]
    BY <1>6, <2>1 DEF At
  <2>4. <<a>> # <<a, e, f>> /\ <<a, e>> # <<a, e, f>>
    OBVIOUS
  <2>5. <<a>> \in Places /\ <<a, e>> \in Places /\ <<a, e, f>> \in Places
    BY <1>1, PlacesAre
  <2> QED
    BY <1>6, <2>1, <2>2, <2>3, <2>4, <2>5 DEF Sole
<1>11. /\ bits \subseteq r2.last.bits /\ r2.last.bits \subseteq r3.last.bits
  BY <1>3, <1>7 DEF Chosen, Down
<1>12. b - DataStart \in r2.last.bits /\ c - DataStart \in r2.last.bits
  <2>1. /\ A[a] # 0 => A[a] - DataStart \in bits
        /\ A[a] # 0 /\ disk[b][e] # 0 => disk[b][e] - DataStart \in bits
    <3>1. Ref(disk, A, <<a>>) = A[a] /\ Ref(disk, A, <<a, e>>) = At(disk, A[a], e)
      BY RefIs
    <3>2. <<a>> \in Places /\ <<a, e>> \in Places
      BY <1>1, PlacesAre
    <3>3. A[a] # 0 => b = A[a] /\ At(disk, A[a], e) = disk[b][e]
      BY <1>5, <1>6 DEF Indirect, Linked, At
    <3> QED
      BY <3>1, <3>2, <3>3 DEF Sole
  <2> QED
    BY <2>1, <1>5, <1>6, <1>8, <1>11 DEF Indirect, Linked
<1>13. Linked(disk[c][f], r3.blk, r3.last.bits)
  BY <1>7, <1>10 DEF Chosen, Linked, Fresh
<1>14. r3.blk # b /\ r3.blk # c
  <2>1. CASE disk[c][f] # 0
    BY <1>7, <1>10, <2>1 DEF Chosen
  <2>2. CASE disk[c][f] = 0
    <3>1. r3.blk - DataStart \notin r2.last.bits
      BY <1>7, <2>2 DEF Chosen
    <3> QED
      BY <3>1, <1>12
  <2> QED
    BY <2>1, <2>2
<1>15. Double(A, a, e, f, b, c, r3.blk, r3.last.bits)
  <2>1. Indirect(A, a, e, b, c, r3.last.bits)
    BY <1>5, <1>6, <1>11 DEF Indirect, Linked
  <2> QED
    BY <2>1, <1>7, <1>13, <1>14 DEF Double
<1>16. /\ Len(r3.way) = 2 /\ r3.way[1].blk = b /\ r3.way[1].e = e /\ r3.way[1].to = c
       /\ r3.way[2].blk = c /\ r3.way[2].e = f /\ r3.way[2].to = r3.blk
  BY <1>5, <1>6, <1>7
<1>17. /\ u2.blk = r3.blk /\ u2.err = "no" /\ u2.last.bits = r3.last.bits /\ u2.way = r3.way
       /\ Written(r3, 2, u2)
  <2>1. 2 \in {1, 2}
    OBVIOUS
  <2> QED
    BY <1>3, <1>7, <2>1, WriteBackUp
<1>18. /\ u2.last.disk = [disk EXCEPT ![c][f] = r3.blk]
       /\ u2.images = Append(r3.images, u2.last)
  <2>1. /\ u2.last.disk = [r3.last.disk EXCEPT ![r3.way[2].blk][r3.way[2].e] = r3.way[2].to]
        /\ u2.images = Append(r3.images, u2.last)
    <3>1. 2 <= Len(r3.way)
      BY <1>16
    <3> QED
      BY <1>7, <1>17, <3>1, Zenon DEF Written
  <2>2. r3.last.disk = disk
    BY <1>3 DEF Down
  <2> QED
    BY <1>16, <2>1, <2>2, Zenon
<1>19. /\ u1.blk = r3.blk /\ u1.err = "no" /\ u1.last.bits = r3.last.bits
       /\ Written(u2, 1, u1)
  <2>1. 1 \in {1, 2}
    OBVIOUS
  <2> QED
    BY <1>3, <1>17, <2>1, WriteBackUp
<1>20. /\ u1.last.disk = [[disk EXCEPT ![c][f] = r3.blk] EXCEPT ![b][e] = c]
       /\ u1.images = Append(u2.images, u1.last)
  <2>1. /\ u1.last.disk = [u2.last.disk EXCEPT ![u2.way[1].blk][u2.way[1].e] = u2.way[1].to]
        /\ u1.images = Append(u2.images, u1.last)
    <3>1. 1 <= Len(u2.way)
      BY <1>16, <1>17
    <3> QED
      BY <1>17, <1>19, <3>1, Zenon DEF Written
  <2>2. u2.way[1].blk = b /\ u2.way[1].e = e /\ u2.way[1].to = c
    BY <1>16, <1>17
  <2> QED
    BY <1>18, <2>1, <2>2, Zenon
<1>21. /\ r.last = u1.last /\ r.images = u1.images /\ r.blk = r3.blk
       /\ r.addrs = [A EXCEPT ![a] = b]
       /\ r.err = IF u1.err = "no" /\ u1.blk \notin Blocks THEN "io" ELSE u1.err
  BY <1>1, <1>2, <1>6, <1>19 DEF Course
<1>22. r3.blk \in Blocks
  BY <1>13 DEF Linked
<1>23. \A k \in 1 .. Len(r.images) :
         \/ r.images[k].disk = disk /\ bits \subseteq r.images[k].bits
         \/ r.images[k].disk = [disk EXCEPT ![c][f] = r.blk] /\ r.images[k].bits = r.last.bits
         \/ r.images[k] = r.last
  <2>1. r3.images \in Seq(Images) /\ u2.images \in Seq(Images)
    BY <1>3 DEF Walks
  <2>2. \A k \in 1 .. Len(r3.images) : r3.images[k].disk = disk /\ bits \subseteq r3.images[k].bits
    BY <1>3 DEF Down
  <2>3. \A k \in 1 .. Len(Append(r3.images, u2.last)) :
          \/ Append(r3.images, u2.last)[k] = u2.last
          \/ k \in 1 .. Len(r3.images) /\ Append(r3.images, u2.last)[k] = r3.images[k]
    BY <2>1
  <2>4. \A k \in 1 .. Len(Append(u2.images, r.last)) :
          \/ Append(u2.images, r.last)[k] = r.last
          \/ k \in 1 .. Len(u2.images) /\ Append(u2.images, r.last)[k] = u2.images[k]
    BY <2>1
  <2>5. u2.images = Append(r3.images, u2.last) /\ r.images = Append(u2.images, r.last)
    BY <1>18, <1>20, <1>21
  <2>6. u2.last.disk = [disk EXCEPT ![c][f] = r.blk] /\ u2.last.bits = r.last.bits
    BY <1>17, <1>18, <1>19, <1>21
  <2>7. \A k \in 1 .. Len(u2.images) :
          \/ u2.images[k].disk = disk /\ bits \subseteq u2.images[k].bits
          \/ u2.images[k].disk = [disk EXCEPT ![c][f] = r.blk] /\ u2.images[k].bits = r.last.bits
    BY ONLY <2>2, <2>3, <2>5, <2>6
  <2> QED
    BY ONLY <2>4, <2>5, <2>7
<1>24. bits \subseteq r.last.bits /\ r.last.bits = r3.last.bits
  BY <1>11, <1>19, <1>21
<1>25. /\ r.err = "no" /\ r.addrs = [A EXCEPT ![a] = b]
       /\ Double(A, a, e, f, b, c, r.blk, r.last.bits)
       /\ r.last.disk = [[disk EXCEPT ![c][f] = r.blk] EXCEPT ![b][e] = c]
  BY <1>15, <1>19, <1>20, <1>21, <1>22, <1>24
<1>27. r.last.bits \subseteq bits \cup {b - DataStart, c - DataStart, r.blk - DataStart}
  <2>1. r3.last.bits \subseteq r2.last.bits \cup {r3.blk - DataStart}
    BY <1>7 DEF Chosen
  <2>2. r.blk = r3.blk /\ r.last.bits = r3.last.bits
    BY <1>21, <1>24
  <2> QED
    BY <1>5, <1>6, <2>1, <2>2
<1>26. Entered3(A, a, e, f, b, c, r)
  BY <1>23, <1>24, <1>25, <1>27, Zenon DEF Entered3
<1> QED
  BY <1>26

-----------------------------------------------------------------------------
(* Linking blocks into a tree.                                             *)

Disks == [Blocks -> [Entries -> Words]]
Vecs == [Inums -> [Addrs -> Words]]

\* The places of a tree hold block numbers, and the inode has these blocks.
LEMMA OwnedRef ==
  ASSUME NEW d \in Disks, NEW V \in Vecs, NEW P, NEW bs, NEW tk, Owned(d, V, P, bs, tk),
         NEW i \in Inums
  PROVE  \A s \in Places : /\ Ref(d, V[i], s) \in Blocks
                           /\ Ref(d, V[i], s) # 0 => Has(d, V, P, i, s, Ref(d, V[i], s))
<1>1. ASSUME NEW s \in Places, Ref(d, V[i], s) \in Words
      PROVE  /\ Ref(d, V[i], s) \in Blocks
             /\ Ref(d, V[i], s) # 0 => Has(d, V, P, i, s, Ref(d, V[i], s))
  <2>1. Ref(d, V[i], s) # 0 => Has(d, V, P, i, s, Ref(d, V[i], s))
    BY DEF Has
  <2>2. 0 \in Blocks
    BY Numbers
  <2> QED
    BY <1>1, <2>1, <2>2 DEF Owned
<1>2. ASSUME NEW b \in Blocks, NEW e \in Entries PROVE At(d, b, e) \in Words
  BY Numbers DEF At, Disks
<1>3. \A a \in Addrs : V[i][a] \in Words /\ V[i][a] \in Blocks
  <2> SUFFICES ASSUME NEW a \in Addrs PROVE V[i][a] \in Words /\ V[i][a] \in Blocks
    OBVIOUS
  <2>1. V[i][a] \in Words /\ Ref(d, V[i], <<a>>) = V[i][a] /\ <<a>> \in Places
    BY PlacesAre, RefIs DEF Vecs
  <2> QED
    BY <1>1, <2>1
<1>4. \A a \in N1 .. N1 + N2, e \in Entries :
        At(d, V[i][a], e) \in Words /\ At(d, V[i][a], e) \in Blocks
  <2> SUFFICES ASSUME NEW a \in N1 .. N1 + N2, NEW e \in Entries
               PROVE  At(d, V[i][a], e) \in Words /\ At(d, V[i][a], e) \in Blocks
    OBVIOUS
  <2>1. Ref(d, V[i], <<a, e>>) = At(d, V[i][a], e) /\ <<a, e>> \in Places
    BY PlacesAre, RefIs
  <2>2. At(d, V[i][a], e) \in Words
    BY <1>2, <1>3, PlacesAre
  <2> QED
    BY <1>1, <2>1, <2>2
<1> SUFFICES ASSUME NEW s \in Places PROVE Ref(d, V[i], s) \in Words
  BY <1>1
<1>5. CASE \E a \in Addrs : s = <<a>>
  BY <1>3, <1>5, RefIs
<1>6. CASE \E a \in N1 .. N1 + N2, e \in Entries : s = <<a, e>>
  BY <1>4, <1>6, RefIs
<1>7. CASE \E e, f \in Entries : s = <<N1 + N2, e, f>>
  <2>1. PICK e \in Entries, f \in Entries : s = <<N1 + N2, e, f>>
    BY <1>7
  <2>2. At(d, V[i][N1 + N2], e) \in Blocks
    BY <1>4, PlacesAre
  <2>3. Ref(d, V[i], s) = At(d, At(d, V[i][N1 + N2], e), f)
    BY <2>1, RefIs
  <2> QED
    BY <1>2, <2>2, <2>3
<1> QED
  BY <1>5, <1>6, <1>7, PlaceCases

\* Of a tree among others: every block at one place at most, and allocated.
LEMMA OwnedSole ==
  ASSUME disk \in Disks, NEW V \in Vecs, NEW P, NEW tk, Owned(disk, V, P, bits, tk), NEW i \in Inums
  PROVE  Sole(V[i])
<1>1. \A s \in Places : /\ Ref(disk, V[i], s) \in Words
                        /\ Ref(disk, V[i], s) # 0 => Has(disk, V, P, i, s, Ref(disk, V[i], s))
  BY OwnedRef, Numbers
<1> QED
  BY <1>1 DEF Owned, Sole

\* The entry at place s of inode i has led to block b.
LeadsTo(V, i, s, b, bs) == Linked(Ref(disk, V[i], s), b, bs)

\* The block that an entry of inode i has led to is nowhere else.
LEMMA Elsewhere ==
  ASSUME disk \in Disks, NEW V \in Vecs, NEW P, NEW tk, Owned(disk, V, P, bits, tk), NEW i \in Inums,
         NEW s \in Places, NEW b, NEW bs, LeadsTo(V, i, s, b, bs)
  PROVE  \A j \in Inums, q \in Places :
           Has(disk, V, P, j, q, b) => j = i /\ q = s
<1> SUFFICES ASSUME NEW j \in Inums, NEW q \in Places, Has(disk, V, P, j, q, b)
             PROVE  j = i /\ q = s
  OBVIOUS
<1>1. b \in Blocks /\ b \in Words /\ b # 0
  BY Numbers DEF Linked, LeadsTo
<1>2. b - DataStart \in bits
  BY <1>1 DEF Owned
<1>3. b = Ref(disk, V[i], s)
  BY <1>2 DEF Linked, Fresh, LeadsTo
<1>4. Has(disk, V, P, i, s, b)
  BY <1>1, <1>3 DEF Has
<1> QED
  BY <1>1, <1>3, <1>4 DEF Owned

\* The entry that led to the second block of a path is at the second place.
LEMMA SecondPlace ==
  ASSUME NEW A \in [Addrs -> Words], NEW a \in N1 .. N1 + N2, NEW e \in Entries, NEW b, NEW c, NEW bs,
         Indirect(A, a, e, b, c, bs)
  PROVE  /\ \A y \in Entries : Ref(disk, A, <<a, y>>) = disk[b][y]
         /\ Linked(Ref(disk, A, <<a>>), b, bs) /\ Linked(Ref(disk, A, <<a, e>>), c, bs)
<1>1. Ref(disk, A, <<a>>) = A[a]
  BY RefIs
<1>2. \A y \in Entries : At(disk, A[a], y) = disk[b][y]
  <2>1. CASE A[a] = 0
    <3>1. disk[b] = Zeros
      BY <2>1 DEF Indirect
    <3> QED
      BY <2>1, <3>1 DEF At, Zeros
  <2>2. CASE A[a] # 0
    <3>1. b = A[a]
      BY <2>2 DEF Indirect, Linked
    <3> QED
      BY <2>2, <3>1 DEF At
  <2> QED
    BY <2>1, <2>2
<1>3. \A y \in Entries : Ref(disk, A, <<a, y>>) = disk[b][y]
  <2> TAKE y \in Entries
  <2>1. Ref(disk, A, <<a, y>>) = At(disk, A[a], y)
    BY RefIs
  <2> QED
    BY <1>2, <2>1
<1> QED
  BY <1>1, <1>3 DEF Indirect

\* And the same for the third block.
LEMMA ThirdPlace ==
  ASSUME NEW A \in [Addrs -> Words], NEW a \in N1 .. N1 + N2, NEW e \in Entries, NEW f \in Entries,
         NEW b, NEW c, NEW g, NEW bs, Double(A, a, e, f, b, c, g, bs)
  PROVE  /\ \A z \in Entries : Ref(disk, A, <<a, e, z>>) = disk[c][z]
         /\ Linked(Ref(disk, A, <<a, e, f>>), g, bs)
<1>1. Indirect(A, a, e, b, c, bs)
  BY DEF Double
<1>2. Ref(disk, A, <<a, e>>) = disk[b][e] /\ Ref(disk, A, <<a, e>>) = At(disk, A[a], e)
  <2>1. /\ \A y \in Entries : Ref(disk, A, <<a, y>>) = disk[b][y]
        /\ Linked(Ref(disk, A, <<a>>), b, bs) /\ Linked(Ref(disk, A, <<a, e>>), c, bs)
    BY <1>1, SecondPlace
  <2>2. Ref(disk, A, <<a, e>>) = At(disk, A[a], e)
    BY RefIs
  <2> QED
    BY <2>1, <2>2
<1>3. \A z \in Entries : At(disk, disk[b][e], z) = disk[c][z]
  <2>1. CASE disk[b][e] = 0
    <3>1. disk[c] = Zeros
      BY <2>1 DEF Double
    <3> QED
      BY <2>1, <3>1 DEF At, Zeros
  <2>2. CASE disk[b][e] # 0
    <3>1. c = disk[b][e]
      BY <1>1, <2>2 DEF Indirect, Linked
    <3> QED
      BY <2>2, <3>1 DEF At
  <2> QED
    BY <2>1, <2>2
<1>4. \A z \in Entries : Ref(disk, A, <<a, e, z>>) = disk[c][z]
  <2> TAKE z \in Entries
  <2>1. Ref(disk, A, <<a, e, z>>) = At(disk, At(disk, A[a], e), z)
    BY RefIs
  <2> QED
    BY <1>2, <1>3, <2>1
<1> QED
  BY <1>4 DEF Double

\* A tree under addresses R on disk D has grown from A on this disk: what is new is
\* where there was nothing, free so far, allocated in bs, and at one place.
Grown(A, D, R, bs) ==
  /\ \A s \in Places : \/ Ref(D, R, s) = Ref(disk, A, s)
                       \/ /\ Ref(disk, A, s) = 0 /\ Fresh(Ref(D, R, s))
                          /\ Ref(D, R, s) - DataStart \in bs
  /\ \A s, t \in Places : Fresh(Ref(D, R, s)) /\ Ref(D, R, s) = Ref(D, R, t) => s = t

\* Only the places in Q have changed, to blocks that their entries have led to, all
\* different.
LEMMA GrownAt ==
  ASSUME NEW A, Sole(A), NEW D, NEW R, NEW bs, NEW Q, Q \subseteq Places,
         \A s \in Places \ Q : Ref(D, R, s) = Ref(disk, A, s),
         \A s \in Q : Linked(Ref(disk, A, s), Ref(D, R, s), bs),
         \A s, t \in Q : Ref(D, R, s) = Ref(D, R, t) => s = t
  PROVE  Grown(A, D, R, bs)
<1>1. \A s \in Places : \/ Ref(D, R, s) = Ref(disk, A, s)
                        \/ /\ s \in Q /\ Ref(disk, A, s) = 0 /\ Fresh(Ref(D, R, s))
                           /\ Ref(D, R, s) - DataStart \in bs
  BY DEF Linked
<1>2. \A s \in Places : ~Fresh(Ref(disk, A, s))
  BY DEF Sole, Fresh
<1>3. \A s \in Places : Fresh(Ref(D, R, s)) => s \in Q
  BY <1>1, <1>2
<1>4. \A s, t \in Places : Fresh(Ref(D, R, s)) /\ Ref(D, R, s) = Ref(D, R, t) => s = t
  BY <1>3
<1> QED
  BY <1>1, <1>4 DEF Grown

\* Addresses R are A but for address a, and disk D is d but for word e of block b.
Relinked(A, R, a, b) == \A x \in Addrs : R[x] = IF x = a THEN b ELSE A[x]
Patched(d, D, b, e, c) ==
  /\ \A x \in Blocks \ {b} : D[x] = d[x]
  /\ \A y \in Entries : D[b][y] = IF y = e THEN c ELSE d[b][y]

\* Place s is on the way to the block at place path.
On(path, s) == Len(s) <= Len(path) /\ \A k \in 1 .. Len(s) : s[k] = path[k]

\* The places on the way of a path.
LEMMA OnIs ==
  /\ \A a : On(<<a>>, <<a>>)
  /\ \A a, e : On(<<a, e>>, <<a>>) /\ On(<<a, e>>, <<a, e>>)
  /\ \A a, e, f : On(<<a, e, f>>, <<a>>) /\ On(<<a, e, f>>, <<a, e>>) /\ On(<<a, e, f>>, <<a, e, f>>)
<1>1. ASSUME NEW a PROVE On(<<a>>, <<a>>)
  BY DEF On
<1>2. ASSUME NEW a, NEW e PROVE On(<<a, e>>, <<a>>) /\ On(<<a, e>>, <<a, e>>)
  BY DEF On
<1>3. ASSUME NEW a, NEW e, NEW f
      PROVE  On(<<a, e, f>>, <<a>>) /\ On(<<a, e, f>>, <<a, e>>) /\ On(<<a, e, f>>, <<a, e, f>>)
  BY DEF On
<1> QED
  BY <1>1, <1>2, <1>3

\* Under addresses R on disk D block b is somewhere; and only the way to path differs
\* from A on this disk.
Somewhere(D, R, b) == \E s \in Places : Ref(D, R, s) = b
OffPath(A, D, R, path) == \A s \in Places : Ref(D, R, s) = Ref(disk, A, s) \/ On(path, s)

\* The data blocks of all trees are on disk D as they are on this one.
DataKept(V, D) ==
  \A j \in Inums : \A s \in Places \ EntryPlaces :
    Ref(disk, V[j], s) # 0 => D[Ref(disk, V[j], s)] = disk[Ref(disk, V[j], s)]

\* A direct block is linked.
LEMMA Rewire1 ==
  ASSUME NEW A \in [Addrs -> Words], Sole(A), NEW a \in 0 .. N1 - 1, NEW b, NEW bs, Linked(A[a], b, bs),
         NEW R, Relinked(A, R, a, b)
  PROVE  Grown(A, disk, R, bs) /\ Ref(disk, R, <<a>>) = b /\ OffPath(A, disk, R, <<a>>)
<1>1. a \in Addrs /\ a \notin N1 .. N1 + N2 /\ <<a>> \in Places
  BY Sizes, PlacesAre DEF Addrs
<1>2. \A x \in Addrs : R[x] = IF x = a THEN b ELSE A[x]
  BY DEF Relinked
<1>3. Ref(disk, R, <<a>>) = b /\ Ref(disk, A, <<a>>) = A[a]
  BY <1>1, <1>2, RefIs
<1>4. ASSUME NEW s \in Places \ {<<a>>} PROVE Ref(disk, R, s) = Ref(disk, A, s)
  <2>1. CASE \E x \in Addrs : s = <<x>>
    <3>1. PICK x \in Addrs : s = <<x>> /\ x # a
      BY <1>4, <2>1
    <3> QED
      BY <1>2, <3>1, RefIs
  <2>2. CASE \E x \in N1 .. N1 + N2, y \in Entries : s = <<x, y>>
    <3>1. PICK x \in N1 .. N1 + N2, y \in Entries : s = <<x, y>>
      BY <2>2
    <3>2. R[x] = A[x]
      BY <1>1, <1>2, PlacesAre
    <3> QED
      BY <3>1, <3>2, RefIs
  <2>3. CASE \E y, z \in Entries : s = <<N1 + N2, y, z>>
    <3>1. PICK y \in Entries, z \in Entries : s = <<N1 + N2, y, z>>
      BY <2>3
    <3>2. R[N1 + N2] = A[N1 + N2]
      BY <1>1, <1>2, PlacesAre
    <3> QED
      BY <3>1, <3>2, RefIs
  <2> QED
    BY <2>1, <2>2, <2>3, PlaceCases
<1>0. PICK Q : Q = {<<a>>}
  OBVIOUS
<1>5. /\ \A s \in Places \ Q : Ref(disk, R, s) = Ref(disk, A, s)
      /\ \A s \in Q : Linked(Ref(disk, A, s), Ref(disk, R, s), bs)
  BY <1>0, <1>3, <1>4
<1>6. Q \subseteq Places /\ \A s, t \in Q : Ref(disk, R, s) = Ref(disk, R, t) => s = t
  BY <1>0, <1>1
<1>7. OffPath(A, disk, R, <<a>>)
  BY <1>4, OnIs DEF OffPath
<1> QED
  BY <1>3, <1>5, <1>6, <1>7, GrownAt

\* Inode i has addresses A; the other trees are the same on disk D as on this one.
TreeOf(V, i, A) == A = V[i]
OthersKept(V, i, D) == \A j \in Inums \ {i} : \A s \in Places : Ref(D, V[j], s) = Ref(disk, V[j], s)

\* The tree has grown, on the way to place s, to have block c there.
GrownTo(A, R, D, bs, s, c) == Grown(A, D, R, bs) /\ Ref(D, R, s) = c /\ OffPath(A, D, R, s)

\* A block under an indirect address is linked.
LEMMA Rewire2 ==
  ASSUME disk \in Disks, NEW V \in Vecs, NEW P, NEW tk, Owned(disk, V, P, bits, tk), NEW i \in Inums,
         NEW A, TreeOf(V, i, A), NEW a \in N1 .. N1 + N2 - 1, NEW e \in Entries, NEW b, NEW c, NEW bs,
         Indirect(A, a, e, b, c, bs),
         NEW R, Relinked(A, R, a, b), NEW D, Patched(disk, D, b, e, c)
  PROVE  /\ GrownTo(A, R, D, bs, <<a, e>>, c) /\ OthersKept(V, i, D) /\ DataKept(V, D)
         /\ Somewhere(D, R, b)
<1>0. A = V[i]
  BY DEF TreeOf
<1>1. /\ a \in Addrs /\ a \in N1 .. N1 + N2 /\ a # N1 + N2 /\ <<a>> \in Places /\ <<a, e>> \in Places
      /\ A \in [Addrs -> Words]
  BY <1>0, Sizes, PlacesAre DEF Vecs
<1>2. b \in Blocks /\ b # 0 /\ b # c
  BY DEF Indirect, Linked
<1>3. \A x \in Addrs : R[x] = IF x = a THEN b ELSE A[x]
  BY DEF Relinked
<1>4. /\ \A x \in Blocks \ {b} : D[x] = disk[x]
      /\ \A y \in Entries : D[b][y] = IF y = e THEN c ELSE disk[b][y]
  BY DEF Patched
<1>5. /\ \A y \in Entries : Ref(disk, A, <<a, y>>) = disk[b][y]
      /\ Linked(Ref(disk, A, <<a>>), b, bs) /\ Linked(Ref(disk, A, <<a, e>>), c, bs)
  BY <1>1, SecondPlace
<1>6. \A j \in Inums, q \in Places : Ref(disk, V[j], q) = b => j = i /\ q = <<a>>
  <2> SUFFICES ASSUME NEW j \in Inums, NEW q \in Places, Ref(disk, V[j], q) = b
               PROVE  j = i /\ q = <<a>>
    OBVIOUS
  <2>1. Has(disk, V, P, j, q, b)
    BY <1>2 DEF Has
  <2>2. PICK p \in Places : p = <<a>>
    BY <1>1
  <2>3. LeadsTo(V, i, p, b, bs)
    BY <1>0, <1>5, <2>2 DEF LeadsTo
  <2>4. \A k \in Inums, t \in Places : Has(disk, V, P, k, t, b) => k = i /\ t = p
    BY <2>3, Elsewhere
  <2> QED
    BY <2>1, <2>2, <2>4
<1>7. \A j \in Inums, q \in Places : Ref(disk, V[j], q) \in Blocks
  BY OwnedRef
<1>8. ASSUME NEW j \in Inums \ {i}
      PROVE  \A s \in Places : Ref(D, V[j], s) = Ref(disk, V[j], s)
  <2>1. \A q \in EntryPlaces : D[Ref(disk, V[j], q)] = disk[Ref(disk, V[j], q)]
    BY <1>4, <1>6, <1>7, PlacesAre
  <2> QED
    BY <2>1, Loose
<1>9. /\ Ref(D, R, <<a>>) = b /\ Ref(D, R, <<a, e>>) = c
  <2>1. Ref(D, R, <<a>>) = R[a] /\ Ref(D, R, <<a, e>>) = At(D, R[a], e)
    BY RefIs
  <2> QED
    BY <1>1, <1>2, <1>3, <1>4, <2>1 DEF At
<1>10. ASSUME NEW s \in Places \ {<<a>>, <<a, e>>} PROVE Ref(D, R, s) = Ref(disk, A, s)
  <2>1. CASE \E x \in Addrs : s = <<x>>
    <3>1. PICK x \in Addrs : s = <<x>> /\ x # a
      BY <1>10, <2>1
    <3> QED
      BY <1>3, <3>1, RefIs
  <2>2. CASE \E x \in N1 .. N1 + N2, y \in Entries : s = <<x, y>>
    <3>1. PICK x \in N1 .. N1 + N2, y \in Entries : s = <<x, y>>
      BY <2>2
    <3>2. Ref(D, R, s) = At(D, R[x], y) /\ Ref(disk, A, s) = At(disk, A[x], y)
      BY <3>1, RefIs
    <3>3. CASE x = a
      <4>1. y # e
        BY <1>10, <3>1, <3>3
      <4>2. At(D, R[x], y) = disk[b][y]
        BY <1>1, <1>2, <1>3, <1>4, <3>3, <4>1 DEF At
      <4> QED
        BY <1>5, <3>1, <3>2, <3>3, <4>2
    <3>4. CASE x # a
      <4>1. x \in Addrs /\ <<x>> \in Places /\ <<x>> # <<a>> /\ Ref(disk, A, <<x>>) = A[x]
        BY <3>4, PlacesAre, RefIs
      <4>2. R[x] = A[x] /\ A[x] # b /\ A[x] \in Blocks
        BY <1>0, <1>3, <1>6, <1>7, <3>4, <4>1
      <4>3. D[A[x]] = disk[A[x]]
        BY <1>4, <4>2
      <4> QED
        BY <3>2, <4>2, <4>3 DEF At
    <3> QED
      BY <3>3, <3>4
  <2>3. CASE \E y, z \in Entries : s = <<N1 + N2, y, z>>
    <3>0. PICK n : n = N1 + N2
      OBVIOUS
    <3>1. PICK y \in Entries, z \in Entries : s = <<n, y, z>>
      BY <2>3, <3>0
    <3>2. Ref(D, R, s) = At(D, At(D, R[n], y), z) /\ Ref(disk, A, s) = At(disk, At(disk, A[n], y), z)
      BY <3>1, RefIs
    <3>3. /\ n \in Addrs /\ <<n>> \in Places /\ <<n>> # <<a>> /\ Ref(disk, A, <<n>>) = A[n]
          /\ <<n, y>> \in Places /\ <<n, y>> # <<a>> /\ Ref(disk, A, <<n, y>>) = At(disk, A[n], y)
      BY <1>1, <3>0, PlacesAre, RefIs
    <3>4. R[n] = A[n] /\ A[n] # b /\ A[n] \in Blocks
      BY <1>0, <1>1, <1>3, <1>6, <1>7, <3>0, <3>3
    <3>5. At(D, R[n], y) = At(disk, A[n], y)
      BY <1>4, <3>4 DEF At
    <3>6. At(disk, A[n], y) # b /\ At(disk, A[n], y) \in Blocks
      BY <1>0, <1>6, <1>7, <3>3
    <3>7. At(D, At(disk, A[n], y), z) = At(disk, At(disk, A[n], y), z)
      BY <1>4, <3>6 DEF At
    <3> QED
      BY <3>2, <3>5, <3>7
  <2> QED
    BY <2>1, <2>2, <2>3, PlaceCases
<1>11. PICK Q : Q = {<<a>>, <<a, e>>}
  OBVIOUS
<1>12. \A s \in Q : Linked(Ref(disk, A, s), Ref(D, R, s), bs)
  BY <1>5, <1>9, <1>11
<1>13. \A s, t \in Q : Ref(D, R, s) = Ref(D, R, t) => s = t
  BY <1>2, <1>9, <1>11
<1>14. Sole(A) /\ Q \subseteq Places
  BY <1>0, <1>1, <1>11, OwnedSole
<1>15. Grown(A, D, R, bs)
  BY <1>10, <1>11, <1>12, <1>13, <1>14, GrownAt
<1>16. DataKept(V, D)
  <2> SUFFICES ASSUME NEW j \in Inums, NEW s \in Places \ EntryPlaces
               PROVE  D[Ref(disk, V[j], s)] = disk[Ref(disk, V[j], s)]
    BY DEF DataKept
  <2>1. <<a>> \in EntryPlaces
    BY <1>1, PlacesAre
  <2>2. Ref(disk, V[j], s) # b /\ Ref(disk, V[j], s) \in Blocks
    BY <1>6, <1>7, <2>1
  <2> QED
    BY <1>4, <2>2
<1>17. OffPath(A, D, R, <<a, e>>) /\ Somewhere(D, R, b)
  BY <1>1, <1>9, <1>10, OnIs DEF OffPath, Somewhere
<1> QED
  BY <1>8, <1>9, <1>15, <1>16, <1>17 DEF GrownTo, OthersKept

\* A block under the doubly indirect address is linked: its entry block c is written
\* first (D1), then the entry block b above it (D).
LEMMA Rewire3 ==
  ASSUME disk \in Disks, NEW V \in Vecs, NEW P, NEW tk, Owned(disk, V, P, bits, tk), NEW i \in Inums,
         NEW A, TreeOf(V, i, A), NEW a, a = N1 + N2, NEW e \in Entries, NEW f \in Entries,
         NEW b, NEW c, NEW g, NEW bs, Double(A, a, e, f, b, c, g, bs),
         NEW R, Relinked(A, R, a, b),
         NEW D1, Patched(disk, D1, c, f, g), NEW D, Patched(D1, D, b, e, c)
  PROVE  /\ GrownTo(A, R, D, bs, <<a, e, f>>, g) /\ OthersKept(V, i, D)
         /\ disk[b][e] = 0 => OthersKept(V, 0, D1)
         /\ DataKept(V, D) /\ DataKept(V, D1) /\ Somewhere(D, R, b) /\ Somewhere(D, R, c)
<1>0. Indirect(A, a, e, b, c, bs) /\ A = V[i]
  BY DEF Double, TreeOf
<1>1. /\ a \in Addrs /\ a \in N1 .. N1 + N2 /\ <<a>> \in Places /\ <<a, e>> \in Places
      /\ <<a, e, f>> \in Places /\ A \in [Addrs -> Words]
  BY <1>0, Sizes, PlacesAre DEF Vecs
<1>2. b \in Blocks /\ b # 0 /\ c \in Blocks /\ c # 0 /\ b # c /\ g # b /\ g # c
  BY DEF Double, Indirect, Linked
<1>3. \A x \in Addrs : R[x] = IF x = a THEN b ELSE A[x]
  BY DEF Relinked
<1>4. /\ \A x \in Blocks \ {b, c} : D[x] = disk[x]
      /\ \A x \in Blocks \ {c} : D1[x] = disk[x]
      /\ \A y \in Entries : D[b][y] = IF y = e THEN c ELSE disk[b][y]
      /\ \A y \in Entries : D[c][y] = IF y = f THEN g ELSE disk[c][y]
  BY <1>2 DEF Patched
<1>5. /\ \A y \in Entries : Ref(disk, A, <<a, y>>) = disk[b][y]
      /\ Linked(Ref(disk, A, <<a>>), b, bs) /\ Linked(Ref(disk, A, <<a, e>>), c, bs)
  BY <1>0, <1>1, SecondPlace
<1>6. /\ \A z \in Entries : Ref(disk, A, <<a, e, z>>) = disk[c][z]
      /\ Linked(Ref(disk, A, <<a, e, f>>), g, bs)
  BY <1>1, ThirdPlace
<1>7. \A j \in Inums, q \in Places : Ref(disk, V[j], q) = b => j = i /\ q = <<a>>
  <2> SUFFICES ASSUME NEW j \in Inums, NEW q \in Places, Ref(disk, V[j], q) = b
               PROVE  j = i /\ q = <<a>>
    OBVIOUS
  <2>1. Has(disk, V, P, j, q, b)
    BY <1>2 DEF Has
  <2>2. PICK p \in Places : p = <<a>>
    BY <1>1
  <2>3. LeadsTo(V, i, p, b, bs)
    BY <1>0, <1>5, <2>2 DEF LeadsTo
  <2>4. \A k \in Inums, t \in Places : Has(disk, V, P, k, t, b) => k = i /\ t = p
    BY <2>3, Elsewhere
  <2> QED
    BY <2>1, <2>2, <2>4
<1>8. \A j \in Inums, q \in Places : Ref(disk, V[j], q) = c => j = i /\ q = <<a, e>>
  <2> SUFFICES ASSUME NEW j \in Inums, NEW q \in Places, Ref(disk, V[j], q) = c
               PROVE  j = i /\ q = <<a, e>>
    OBVIOUS
  <2>1. Has(disk, V, P, j, q, c)
    BY <1>2 DEF Has
  <2>2. PICK p \in Places : p = <<a, e>>
    BY <1>1
  <2>3. LeadsTo(V, i, p, c, bs)
    BY <1>0, <1>5, <2>2 DEF LeadsTo
  <2>4. \A k \in Inums, t \in Places : Has(disk, V, P, k, t, c) => k = i /\ t = p
    BY <2>3, Elsewhere
  <2> QED
    BY <2>1, <2>2, <2>4
<1>9. \A j \in Inums, q \in Places : Ref(disk, V[j], q) \in Blocks
  BY OwnedRef
<1>10. ASSUME NEW j \in Inums \ {i}
       PROVE  \A s \in Places : Ref(D, V[j], s) = Ref(disk, V[j], s)
  <2>1. \A q \in EntryPlaces : D[Ref(disk, V[j], q)] = disk[Ref(disk, V[j], q)]
    BY <1>4, <1>7, <1>8, <1>9, PlacesAre
  <2> QED
    BY <2>1, Loose
<1>11. ASSUME disk[b][e] = 0, NEW j \in Inums
       PROVE  \A s \in Places : Ref(D1, V[j], s) = Ref(disk, V[j], s)
  <2>1. \A q \in Places : Ref(disk, V[j], q) # c
    <3>1. Ref(disk, A, <<a, e>>) = 0
      BY <1>5, <1>11
    <3> QED
      BY <1>0, <1>2, <1>8, <3>1
  <2>2. \A q \in EntryPlaces : D1[Ref(disk, V[j], q)] = disk[Ref(disk, V[j], q)]
    BY <1>4, <1>9, <2>1, PlacesAre
  <2> QED
    BY <2>2, Loose
<1>12. Ref(D, R, <<a>>) = b /\ Ref(D, R, <<a, e>>) = c /\ Ref(D, R, <<a, e, f>>) = g
  <2>1. /\ Ref(D, R, <<a>>) = R[a] /\ Ref(D, R, <<a, e>>) = At(D, R[a], e)
        /\ Ref(D, R, <<a, e, f>>) = At(D, At(D, R[a], e), f)
    BY RefIs
  <2>2. R[a] = b /\ At(D, b, e) = c /\ At(D, c, f) = g
    BY <1>1, <1>2, <1>3, <1>4 DEF At
  <2> QED
    BY <2>1, <2>2
<1>13. ASSUME NEW s \in Places \ {<<a>>, <<a, e>>, <<a, e, f>>} PROVE Ref(D, R, s) = Ref(disk, A, s)
  <2>1. CASE \E x \in Addrs : s = <<x>>
    <3>1. PICK x \in Addrs : s = <<x>> /\ x # a
      BY <1>13, <2>1
    <3> QED
      BY <1>3, <3>1, RefIs
  <2>2. CASE \E x \in N1 .. N1 + N2, y \in Entries : s = <<x, y>>
    <3>1. PICK x \in N1 .. N1 + N2, y \in Entries : s = <<x, y>>
      BY <2>2
    <3>2. Ref(D, R, s) = At(D, R[x], y) /\ Ref(disk, A, s) = At(disk, A[x], y)
      BY <3>1, RefIs
    <3>3. CASE x = a
      <4>1. y # e
        BY <1>13, <3>1, <3>3
      <4>2. At(D, R[x], y) = disk[b][y]
        BY <1>1, <1>2, <1>3, <1>4, <3>3, <4>1 DEF At
      <4> QED
        BY <1>5, <3>1, <3>2, <3>3, <4>2
    <3>4. CASE x # a
      <4>1. x \in Addrs /\ <<x>> \in Places /\ <<x>> # <<a>> /\ <<x>> # <<a, e>>
            /\ Ref(disk, A, <<x>>) = A[x]
        BY <3>4, PlacesAre, RefIs
      <4>2. R[x] = A[x] /\ A[x] # b /\ A[x] # c /\ A[x] \in Blocks
        BY <1>0, <1>3, <1>7, <1>8, <1>9, <3>4, <4>1
      <4>3. D[A[x]] = disk[A[x]]
        BY <1>4, <4>2
      <4> QED
        BY <3>2, <4>2, <4>3 DEF At
    <3> QED
      BY <3>3, <3>4
  <2>3. CASE \E y, z \in Entries : s = <<N1 + N2, y, z>>
    <3>1. PICK y \in Entries, z \in Entries : s = <<a, y, z>>
      BY <2>3
    <3>2. Ref(D, R, s) = At(D, At(D, R[a], y), z) /\ Ref(disk, A, s) = At(disk, At(disk, A[a], y), z)
      BY <3>1, RefIs
    <3>3. At(D, R[a], y) = D[b][y]
      BY <1>1, <1>2, <1>3 DEF At
    <3>4. CASE y = e
      <4>1. z # f
        BY <1>13, <3>1, <3>4
      <4>2. At(D, At(D, R[a], y), z) = disk[c][z]
        BY <1>2, <1>4, <3>3, <3>4, <4>1 DEF At
      <4> QED
        BY <1>6, <3>1, <3>2, <3>4, <4>2
    <3>5. CASE y # e
      <4>1. At(D, R[a], y) = disk[b][y]
        BY <1>4, <3>3, <3>5
      <4>2. /\ Ref(disk, A, <<a, y>>) = At(disk, A[a], y) /\ Ref(disk, A, <<a, y>>) = disk[b][y]
            /\ <<a, y>> \in Places /\ <<a, y>> # <<a>> /\ <<a, y>> # <<a, e>>
        BY <1>1, <1>5, <3>5, PlacesAre, RefIs
      <4>3. disk[b][y] # b /\ disk[b][y] # c /\ disk[b][y] \in Blocks
        BY <1>0, <1>7, <1>8, <1>9, <4>2
      <4>4. At(D, disk[b][y], z) = At(disk, disk[b][y], z)
        BY <1>4, <4>3 DEF At
      <4> QED
        BY <3>2, <4>1, <4>2, <4>4
    <3> QED
      BY <3>4, <3>5
  <2> QED
    BY <2>1, <2>2, <2>3, PlaceCases
<1>14. PICK Q : Q = {<<a>>, <<a, e>>, <<a, e, f>>}
  OBVIOUS
<1>15. \A s \in Q : Linked(Ref(disk, A, s), Ref(D, R, s), bs)
  BY <1>5, <1>6, <1>12, <1>14
<1>16. \A s, t \in Q : Ref(D, R, s) = Ref(D, R, t) => s = t
  BY <1>2, <1>12, <1>14
<1>17. Sole(A) /\ Q \subseteq Places
  BY <1>0, <1>1, <1>14, OwnedSole
<1>18. Grown(A, D, R, bs)
  BY <1>13, <1>14, <1>15, <1>16, <1>17, GrownAt
<1>19. DataKept(V, D) /\ DataKept(V, D1)
  <2> SUFFICES ASSUME NEW j \in Inums, NEW s \in Places \ EntryPlaces
               PROVE  /\ D[Ref(disk, V[j], s)] = disk[Ref(disk, V[j], s)]
                      /\ D1[Ref(disk, V[j], s)] = disk[Ref(disk, V[j], s)]
    BY DEF DataKept
  <2>1. <<a>> \in EntryPlaces /\ <<a, e>> \in EntryPlaces
    BY <1>1, PlacesAre
  <2>2. Ref(disk, V[j], s) # b /\ Ref(disk, V[j], s) # c /\ Ref(disk, V[j], s) \in Blocks
    BY <1>7, <1>8, <1>9, <2>1
  <2> QED
    BY <1>4, <2>2
<1>20. OffPath(A, D, R, <<a, e, f>>) /\ Somewhere(D, R, b) /\ Somewhere(D, R, c)
  BY <1>1, <1>12, <1>13, OnIs DEF OffPath, Somewhere
<1> QED
  BY <1>10, <1>11, <1>12, <1>18, <1>19, <1>20 DEF GrownTo, OthersKept

-----------------------------------------------------------------------------
(* What inode_locate_block() does to the trees of all inodes.              *)

\* Image im shows every tree as this disk does, with the data in it.
KeepsTrees(V, im) ==
  /\ bits \subseteq im.bits /\ DataKept(V, im.disk)
  /\ \A j \in Inums, s \in Places : Ref(im.disk, V[j], s) = Ref(disk, V[j], s)

\* The block at the path is found and allocated; the tree of inode i has grown, on that
\* path and by all blocks allocated; the trees of other inodes and all data are as before,
\* and every image shows the trees before or after.
Located(V, i, path, r) ==
  /\ r.err = "no" /\ r.blk \in Blocks /\ r.blk # 0 /\ r.blk = Ref(r.last.disk, r.addrs, path)
  /\ path \in Places \ EntryPlaces
  /\ \A x \in Addrs : V[i][x] # 0 => r.addrs[x] = V[i][x]
  /\ \A x \in Addrs : x # path[1] => r.addrs[x] = V[i][x]
  /\ Grown(V[i], r.last.disk, r.addrs, r.last.bits) /\ bits \subseteq r.last.bits
  /\ OffPath(V[i], r.last.disk, r.addrs, path) /\ DataKept(V, r.last.disk)
  /\ \A x \in r.last.bits : x \in bits \/ Somewhere(r.last.disk, r.addrs, x + DataStart)
  /\ \A j \in Inums \ {i}, s \in Places : Ref(r.last.disk, V[j], s) = Ref(disk, V[j], s)
  /\ \A k \in 1 .. Len(r.images) :
       \/ KeepsTrees(V, r.images[k])
       \/ r.images[k].disk = r.last.disk /\ r.images[k].bits = r.last.bits

\* A word of a block is written.
LEMMA PatchedIs ==
  ASSUME NEW d \in Disks, NEW b \in Blocks, NEW e \in Entries, NEW c \in Words
  PROVE  LET D == [d EXCEPT ![b][e] = c] IN D \in Disks /\ Patched(d, D, b, e, c)
BY DEF Patched, Disks

\* The places of data blocks hold no entry blocks.
LEMMA LeafPlaces ==
  /\ \A a \in 0 .. N1 - 1 : <<a>> \in Places \ EntryPlaces /\ a \in Addrs
  /\ \A a \in N1 .. N1 + N2 - 1, e \in Entries : <<a, e>> \in Places \ EntryPlaces /\ a \in Addrs
  /\ \A e, f \in Entries : <<N1 + N2, e, f>> \in Places \ EntryPlaces
<1>1. N1 \in Nat /\ N2 \in Nat
  BY Sizes
<1>2. \A a \in 0 .. N1 - 1 : a \in Addrs /\ a \notin N1 .. N1 + N2
  BY <1>1 DEF Addrs
<1>3. \A a \in N1 .. N1 + N2 - 1 : a \in N1 .. N1 + N2 /\ a # N1 + N2 /\ a \in Addrs
  BY <1>1 DEF Addrs
<1>4. \A a \in 0 .. N1 - 1 : <<a>> \in Places \ EntryPlaces
  BY <1>2, PlacesAre DEF EntryPlaces
<1>5. \A a \in N1 .. N1 + N2 - 1, e \in Entries : <<a, e>> \in Places \ EntryPlaces
  BY <1>3, PlacesAre DEF EntryPlaces
<1>6. \A e, f \in Entries : <<N1 + N2, e, f>> \in Places \ EntryPlaces
  BY PlacesAre DEF EntryPlaces
<1> QED
  BY <1>2, <1>3, <1>4, <1>5, <1>6

\* On the way to a direct block.
LEMMA Located1 ==
  ASSUME Image \in Images, disk \in Disks, NEW V \in Vecs, NEW P, NEW tk,
         Owned(disk, V, P, bits, tk), NEW i \in Inums, NEW a \in 0 .. N1 - 1,
         NEW path, path = <<a>>, NEW r, r = Locate(V[i], path), Clean(r.last.past)
  PROVE  Located(V, i, path, r)
<1>1. PICK A \in [Addrs -> Words] : A = V[i]
  BY DEF Vecs
<1>2. Sole(A) /\ a \in Addrs
  BY <1>1, OwnedSole, LeafPlaces
<1>3. /\ r.err = "no" /\ r.addrs = [A EXCEPT ![a] = r.blk]
      /\ Linked(A[a], r.blk, r.last.bits)
      /\ r.last.disk = disk /\ bits \subseteq r.last.bits
      /\ r.last.bits \subseteq bits \cup {r.blk - DataStart}
      /\ \A k \in 1 .. Len(r.images) : r.images[k].disk = disk /\ bits \subseteq r.images[k].bits
  BY <1>1, <1>2, Locate1
<1>4. /\ Relinked(A, r.addrs, a, r.blk) /\ \A x \in Addrs : A[x] # 0 => r.addrs[x] = A[x]
      /\ \A x \in Addrs : x # path[1] => r.addrs[x] = A[x]
  BY <1>2, <1>3 DEF Relinked, Linked
<1>5. /\ Grown(A, disk, r.addrs, r.last.bits) /\ Ref(disk, r.addrs, <<a>>) = r.blk
      /\ OffPath(A, disk, r.addrs, path)
  <2>1. PICK R : R = r.addrs
    OBVIOUS
  <2>2. Relinked(A, R, a, r.blk) /\ Linked(A[a], r.blk, r.last.bits)
    BY <1>3, <1>4, <2>1
  <2>3. Grown(A, disk, R, r.last.bits) /\ Ref(disk, R, <<a>>) = r.blk /\ OffPath(A, disk, R, <<a>>)
    BY <1>2, <2>2, Rewire1
  <2> QED
    BY <2>1, <2>3
<1>6. path \in Places \ EntryPlaces
  BY LeafPlaces
<1>7. r.blk \in Blocks /\ r.blk # 0
  BY <1>3 DEF Linked
<1>8. DataKept(V, disk) /\ \A k \in 1 .. Len(r.images) : KeepsTrees(V, r.images[k])
  BY <1>3 DEF KeepsTrees, DataKept
<1>9. \A x \in r.last.bits : x \in bits \/ Somewhere(disk, r.addrs, x + DataStart)
  <2>1. r.blk \in Int /\ path \in Places
    BY <1>6, <1>7, Numbers, Sizes
  <2>2. r.blk - DataStart + DataStart = r.blk
    BY <2>1 DEF DataStart
  <2>3. Somewhere(disk, r.addrs, r.blk)
    BY <1>5, <2>1 DEF Somewhere
  <2> QED
    BY <1>3, <2>2, <2>3
<1> QED
  BY <1>1, <1>3, <1>4, <1>5, <1>6, <1>7, <1>8, <1>9 DEF Located

\* On the way to a block under an indirect address.
LEMMA Located2 ==
  ASSUME Image \in Images, disk \in Disks, NEW V \in Vecs, NEW P, NEW tk,
         Owned(disk, V, P, bits, tk), NEW i \in Inums,
         NEW a \in N1 .. N1 + N2 - 1, NEW e \in Entries,
         NEW path, path = <<a, e>>, NEW r, r = Locate(V[i], path), Clean(r.last.past)
  PROVE  Located(V, i, path, r)
<1>1. PICK A \in [Addrs -> Words] : A = V[i]
  BY DEF Vecs
<1>2. Sole(A) /\ a \in Addrs
  BY <1>1, OwnedSole, LeafPlaces
<1>10. r = Locate(A, <<a, e>>)
  BY <1>1
<1>11. PICK b \in Blocks : Entered2(A, a, e, b, r)
  BY <1>2, <1>10, Locate2
<1>3. /\ r.err = "no" /\ r.addrs = [A EXCEPT ![a] = b]
      /\ Indirect(A, a, e, b, r.blk, r.last.bits)
      /\ r.last.disk = [disk EXCEPT ![b][e] = r.blk] /\ bits \subseteq r.last.bits
      /\ r.last.bits \subseteq bits \cup {b - DataStart, r.blk - DataStart}
      /\ \A k \in 1 .. Len(r.images) :
           \/ r.images[k].disk = disk /\ bits \subseteq r.images[k].bits
           \/ r.images[k] = r.last
  BY <1>11 DEF Entered2
<1>4. r.blk \in Blocks /\ r.blk # 0 /\ r.blk \in Words /\ Linked(A[a], b, r.last.bits)
  BY <1>3, Numbers DEF Indirect, Linked
<1>5. /\ Relinked(A, r.addrs, a, b) /\ \A x \in Addrs : A[x] # 0 => r.addrs[x] = A[x]
      /\ \A x \in Addrs : x # path[1] => r.addrs[x] = A[x]
  BY <1>2, <1>3, <1>4 DEF Relinked, Linked
<1>6. Patched(disk, r.last.disk, b, e, r.blk)
  BY <1>3, <1>4, PatchedIs
<1>7. /\ Grown(A, r.last.disk, r.addrs, r.last.bits) /\ Ref(r.last.disk, r.addrs, <<a, e>>) = r.blk
      /\ OffPath(A, r.last.disk, r.addrs, path) /\ DataKept(V, r.last.disk)
      /\ Somewhere(r.last.disk, r.addrs, b)
      /\ \A j \in Inums \ {i} : \A s \in Places : Ref(r.last.disk, V[j], s) = Ref(disk, V[j], s)
  <2>1. PICK R, D, c, bs : R = r.addrs /\ D = r.last.disk /\ c = r.blk /\ bs = r.last.bits
    OBVIOUS
  <2>2. Relinked(A, R, a, b) /\ Patched(disk, D, b, e, c) /\ Indirect(A, a, e, b, c, bs)
    BY <1>3, <1>5, <1>6, <2>1
  <2>3. TreeOf(V, i, A)
    BY <1>1 DEF TreeOf
  <2>4. /\ GrownTo(A, R, D, bs, <<a, e>>, c) /\ OthersKept(V, i, D) /\ DataKept(V, D)
        /\ Somewhere(D, R, b)
    BY <2>2, <2>3, Rewire2
  <2> QED
    BY <2>1, <2>4 DEF GrownTo, OthersKept
<1>8. path \in Places \ EntryPlaces
  BY LeafPlaces
<1>9. \A k \in 1 .. Len(r.images) :
        KeepsTrees(V, r.images[k]) \/ r.images[k] = r.last
  BY <1>3 DEF KeepsTrees, DataKept
<1>12. \A x \in r.last.bits : x \in bits \/ Somewhere(r.last.disk, r.addrs, x + DataStart)
  <2>1. r.blk \in Int /\ b \in Int /\ path \in Places
    BY <1>4, <1>8, Numbers, Sizes
  <2>2. r.blk - DataStart + DataStart = r.blk /\ b - DataStart + DataStart = b
    BY <2>1 DEF DataStart
  <2>3. Somewhere(r.last.disk, r.addrs, r.blk)
    BY <1>7, <2>1 DEF Somewhere
  <2> QED
    BY <1>3, <1>7, <2>2, <2>3
<1> QED
  <2>1. r.err = "no" /\ bits \subseteq r.last.bits
    BY <1>3
  <2> QED
    BY <1>1, <1>4, <1>5, <1>7, <1>8, <1>9, <1>12, <2>1 DEF Located

\* On the way to a block under the doubly indirect address.
LEMMA Located3 ==
  ASSUME Image \in Images, disk \in Disks, NEW V \in Vecs, NEW P, NEW tk,
         Owned(disk, V, P, bits, tk), NEW i \in Inums,
         NEW a, a = N1 + N2, NEW e \in Entries, NEW f \in Entries,
         NEW path, path = <<a, e, f>>, NEW r, r = Locate(V[i], path), Clean(r.last.past)
  PROVE  Located(V, i, path, r)
<1>1. PICK A \in [Addrs -> Words] : A = V[i]
  BY DEF Vecs
<1>2. Sole(A) /\ a \in Addrs
  BY <1>1, OwnedSole, PlacesAre
<1>14. r = Locate(A, <<a, e, f>>)
  BY <1>1
<1>15. PICK b \in Blocks, c \in Blocks : Entered3(A, a, e, f, b, c, r)
  BY <1>2, <1>14, Locate3
<1>3. /\ r.err = "no" /\ r.addrs = [A EXCEPT ![a] = b]
      /\ Double(A, a, e, f, b, c, r.blk, r.last.bits)
      /\ r.last.disk = [[disk EXCEPT ![c][f] = r.blk] EXCEPT ![b][e] = c]
      /\ bits \subseteq r.last.bits
      /\ r.last.bits \subseteq bits \cup {b - DataStart, c - DataStart, r.blk - DataStart}
      /\ \A k \in 1 .. Len(r.images) :
           \/ r.images[k].disk = disk /\ bits \subseteq r.images[k].bits
           \/ r.images[k].disk = [disk EXCEPT ![c][f] = r.blk] /\ r.images[k].bits = r.last.bits
           \/ r.images[k] = r.last
  BY <1>15, Zenon DEF Entered3
<1>4. r.blk \in Blocks /\ r.blk # 0 /\ r.blk \in Words /\ Linked(A[a], b, r.last.bits)
      /\ c \in Words /\ (disk[b][e] # 0 => c = disk[b][e]) /\ b # c
  BY <1>3, Numbers DEF Double, Indirect, Linked
<1>5. /\ Relinked(A, r.addrs, a, b) /\ \A x \in Addrs : A[x] # 0 => r.addrs[x] = A[x]
      /\ \A x \in Addrs : x # path[1] => r.addrs[x] = A[x]
  BY <1>2, <1>3, <1>4 DEF Relinked, Linked
<1>6. PICK D1 : D1 = [disk EXCEPT ![c][f] = r.blk]
  OBVIOUS
<1>7. D1 \in Disks /\ Patched(disk, D1, c, f, r.blk)
  BY <1>4, <1>6, PatchedIs
<1>8. r.last.disk = [D1 EXCEPT ![b][e] = c]
  BY <1>3, <1>6
<1>9. Patched(D1, r.last.disk, b, e, c)
  BY <1>4, <1>7, <1>8, PatchedIs
<1>10. /\ Grown(A, r.last.disk, r.addrs, r.last.bits) /\ Ref(r.last.disk, r.addrs, <<a, e, f>>) = r.blk
       /\ \A j \in Inums \ {i} : \A s \in Places : Ref(r.last.disk, V[j], s) = Ref(disk, V[j], s)
       /\ disk[b][e] = 0 => \A j \in Inums : \A s \in Places : Ref(D1, V[j], s) = Ref(disk, V[j], s)
       /\ OffPath(A, r.last.disk, r.addrs, path) /\ DataKept(V, r.last.disk) /\ DataKept(V, D1)
       /\ Somewhere(r.last.disk, r.addrs, b) /\ Somewhere(r.last.disk, r.addrs, c)
  <2>1. PICK R, D, g, bs : R = r.addrs /\ D = r.last.disk /\ g = r.blk /\ bs = r.last.bits
    OBVIOUS
  <2>2. /\ Relinked(A, R, a, b) /\ Patched(disk, D1, c, f, g) /\ Patched(D1, D, b, e, c)
        /\ Double(A, a, e, f, b, c, g, bs)
    BY <1>3, <1>5, <1>7, <1>9, <2>1
  <2>3. TreeOf(V, i, A)
    BY <1>1 DEF TreeOf
  <2>4. /\ GrownTo(A, R, D, bs, <<a, e, f>>, g) /\ OthersKept(V, i, D)
        /\ disk[b][e] = 0 => OthersKept(V, 0, D1)
        /\ DataKept(V, D) /\ DataKept(V, D1) /\ Somewhere(D, R, b) /\ Somewhere(D, R, c)
    BY <2>2, <2>3, Rewire3
  <2>5. Inums \ {0} = Inums
    BY Sizes DEF Inums
  <2> QED
    BY <2>1, <2>4, <2>5 DEF GrownTo, OthersKept
<1>11. disk[b][e] # 0 => D1 = r.last.disk
  <2> SUFFICES ASSUME disk[b][e] # 0 PROVE D1 = r.last.disk
    OBVIOUS
  <2>1. D1[b] = disk[b] /\ D1[b][e] = c
    BY <1>4, <1>7 DEF Patched
  <2>2. [D1 EXCEPT ![b][e] = D1[b][e]] = D1
    BY <1>7 DEF Disks
  <2> QED
    BY <1>8, <2>1, <2>2
<1>12. path \in Places \ EntryPlaces
  BY LeafPlaces
<1>13. \A k \in 1 .. Len(r.images) :
         \/ KeepsTrees(V, r.images[k])
         \/ r.images[k].disk = r.last.disk /\ r.images[k].bits = r.last.bits
  <2> SUFFICES ASSUME NEW k \in 1 .. Len(r.images)
               PROVE  \/ KeepsTrees(V, r.images[k])
                      \/ r.images[k].disk = r.last.disk /\ r.images[k].bits = r.last.bits
    OBVIOUS
  <2>1. \/ r.images[k].disk = disk /\ bits \subseteq r.images[k].bits
        \/ r.images[k].disk = D1 /\ r.images[k].bits = r.last.bits
        \/ r.images[k] = r.last
    BY <1>3, <1>6, Zenon
  <2>2. CASE r.images[k].disk = disk /\ bits \subseteq r.images[k].bits
    BY <2>2 DEF KeepsTrees, DataKept
  <2>3. CASE r.images[k].disk = D1 /\ r.images[k].bits = r.last.bits
    <3>1. bits \subseteq r.images[k].bits
      BY <1>3, <2>3
    <3>2. CASE disk[b][e] = 0
      BY <1>10, <2>3, <3>1, <3>2 DEF KeepsTrees
    <3>3. CASE disk[b][e] # 0
      BY <1>11, <2>3, <3>3
    <3> QED
      BY <3>2, <3>3
  <2> QED
    BY <2>1, <2>2, <2>3
<1>16. \A x \in r.last.bits : x \in bits \/ Somewhere(r.last.disk, r.addrs, x + DataStart)
  <2>1. r.blk \in Int /\ b \in Int /\ c \in Int /\ path \in Places
    BY <1>4, <1>12, Numbers, Sizes
  <2>2. /\ r.blk - DataStart + DataStart = r.blk /\ b - DataStart + DataStart = b
        /\ c - DataStart + DataStart = c
    BY <2>1 DEF DataStart
  <2>3. Somewhere(r.last.disk, r.addrs, r.blk)
    BY <1>10, <2>1 DEF Somewhere
  <2> QED
    BY <1>3, <1>10, <2>2, <2>3
<1> QED
  <2>1. r.err = "no" /\ bits \subseteq r.last.bits
    BY <1>3
  <2> QED
    BY <1>1, <1>4, <1>5, <1>10, <1>12, <1>13, <1>16, <2>1 DEF Located

\* inode_locate_block() on any path.
LEMMA LocatedAt ==
  ASSUME Image \in Images, disk \in Disks, NEW V \in Vecs, NEW P, NEW tk,
         Owned(disk, V, P, bits, tk), NEW i \in Inums, NEW path, IsPath(path),
         NEW r, r = Locate(V[i], path), Clean(r.last.past)
  PROVE  Located(V, i, path, r)
<1>1. CASE \E a \in 0 .. N1 - 1 : path = <<a>>
  BY <1>1, Located1
<1>2. CASE \E a \in N1 .. N1 + N2 - 1, e \in Entries : path = <<a, e>>
  BY <1>2, Located2
<1>3. CASE \E e, f \in Entries : path = <<N1 + N2, e, f>>
  <2>1. PICK e \in Entries, f \in Entries : path = <<N1 + N2, e, f>>
    BY <1>3
  <2> QED
    BY <2>1, Located3
<1> QED
  BY <1>1, <1>2, <1>3 DEF IsPath

-----------------------------------------------------------------------------
(* Whose block it is, from one state to the next.                          *)

\* Nobody has a block that he did not have before.
LEMMA OwnedSub ==
  ASSUME NEW d, NEW V, NEW P, NEW bs, NEW tk, Owned(d, V, P, bs, tk),
         NEW d2, NEW V2, NEW P2, NEW bs2, NEW tk2,
         \A i \in Inums : \A s \in Places : \A b \in Words :
           Has(d2, V2, P2, i, s, b) =>
             Has(d, V, P, i, s, b) /\ b \notin tk2 /\ b - DataStart \in bs2
  PROVE  Owned(d2, V2, P2, bs2, tk2)
<1>1. ASSUME NEW i \in Inums, NEW j \in Inums, NEW s \in Places, NEW t \in Places, NEW b \in Words,
             Has(d2, V2, P2, i, s, b), Has(d2, V2, P2, j, t, b)
      PROVE  i = j /\ s = t
  <2>1. Has(d, V, P, i, s, b) /\ Has(d, V, P, j, t, b)
    BY <1>1
  <2> QED
    BY <2>1 DEF Owned
<1>2. ASSUME NEW i \in Inums, NEW s \in Places, NEW b \in Words, Has(d2, V2, P2, i, s, b)
      PROVE  b > RootBlock /\ b \in Blocks \ tk2 /\ b - DataStart \in bs2
  <2>1. Has(d, V, P, i, s, b) /\ b \notin tk2 /\ b - DataStart \in bs2
    BY <1>2
  <2>2. b > RootBlock /\ b \in Blocks
    BY <2>1 DEF Owned
  <2> QED
    BY <2>1, <2>2
<1> QED
  BY <1>1, <1>2 DEF Owned

\* A tree has grown by blocks that were free.
LEMMA OwnedGrown ==
  ASSUME disk \in Disks, NEW V \in Vecs, NEW P, NEW tk, Owned(disk, V, P, bits, tk), NEW i \in Inums,
         0 \in bits, \A b \in tk : b - DataStart \in bits,
         NEW D, NEW R, NEW bs, Grown(V[i], D, R, bs), bits \subseteq bs, OthersKept(V, i, D),
         NEW V2, V2[i] = R, \A j \in Inums \ {i} : V2[j] = V[j]
  PROVE  Owned(D, V2, P, bs, tk)
<1>1. ASSUME NEW j \in Inums, NEW s \in Places, NEW b \in Words, Has(D, V2, P, j, s, b)
      PROVE  \/ Has(disk, V, P, j, s, b)
             \/ j = i /\ Fresh(b) /\ b = Ref(D, R, s) /\ b - DataStart \in bs
  <2>1. CASE j = i
    <3>1. b # 0 /\ (b = Ref(D, R, s) \/ <<s, b>> \in P[j])
      BY <1>1, <2>1 DEF Has
    <3>2. \/ Ref(D, R, s) = Ref(disk, V[i], s)
          \/ Fresh(Ref(D, R, s)) /\ Ref(D, R, s) - DataStart \in bs
      BY DEF Grown
    <3> QED
      BY <2>1, <3>1, <3>2 DEF Has
  <2>2. CASE j # i
    <3>1. Ref(D, V2[j], s) = Ref(disk, V[j], s)
      BY <2>2 DEF OthersKept
    <3> QED
      BY <1>1, <3>1 DEF Has
  <2> QED
    BY <2>1, <2>2
<1>2. ASSUME NEW j \in Inums, NEW s \in Places, NEW b \in Words, Has(disk, V, P, j, s, b)
      PROVE  ~Fresh(b) /\ b > RootBlock /\ b \in Blocks \ tk /\ b - DataStart \in bs
  BY <1>2 DEF Owned, Fresh
<1>3. ASSUME NEW b, Fresh(b) PROVE b > RootBlock /\ b \in Blocks \ tk
  <2>1. b \in Blocks /\ b > 0 /\ b - DataStart \notin bits
    BY <1>3 DEF Fresh
  <2>2. b \in Int /\ b # 1
    BY <2>1, Numbers, Sizes DEF DataStart
  <2> QED
    BY <2>1, <2>2 DEF RootBlock, DataStart
<1>4. ASSUME NEW k \in Inums, NEW j \in Inums, NEW s \in Places, NEW t \in Places, NEW b \in Words,
             Has(D, V2, P, k, s, b), Has(D, V2, P, j, t, b)
      PROVE  k = j /\ s = t
  <2>1. CASE Fresh(b)
    <3>1. k = i /\ b = Ref(D, R, s) /\ j = i /\ b = Ref(D, R, t)
      BY <1>1, <1>2, <1>4, <2>1
    <3> QED
      BY <2>1, <3>1 DEF Grown
  <2>2. CASE ~Fresh(b)
    <3>1. Has(disk, V, P, k, s, b) /\ Has(disk, V, P, j, t, b)
      BY <1>1, <1>4, <2>2
    <3> QED
      BY <3>1 DEF Owned
  <2> QED
    BY <2>1, <2>2
<1>5. ASSUME NEW j \in Inums, NEW s \in Places, NEW b \in Words, Has(D, V2, P, j, s, b)
      PROVE  b > RootBlock /\ b \in Blocks \ tk /\ b - DataStart \in bs
  BY <1>1, <1>2, <1>3, <1>5
<1> QED
  BY <1>4, <1>5 DEF Owned

\* Data is written to a block that is at no place for entry blocks: the trees stay.
LEMMA OwnedFilled ==
  ASSUME NEW d \in Disks, NEW V \in Vecs, NEW P, NEW bs, NEW tk, Owned(d, V, P, bs, tk),
         NEW i \in Inums, NEW p \in Places \ EntryPlaces, NEW b, b = Ref(d, V[i], p), b # 0,
         NEW d2, \A c \in Blocks \ {b} : d2[c] = d[c]
  PROVE  Owned(d2, V, P, bs, tk)
<1>1. \A j \in Inums, q \in EntryPlaces : Ref(d, V[j], q) # 0 => Ref(d, V[j], q) \in Blocks \ {b}
  <2> SUFFICES ASSUME NEW j \in Inums, NEW q \in EntryPlaces, Ref(d, V[j], q) # 0
               PROVE  Ref(d, V[j], q) \in Blocks /\ Ref(d, V[j], q) # b
    OBVIOUS
  <2>1. q \in Places
    BY PlacesAre
  <2>2. Ref(d, V[j], q) \in Blocks /\ Has(d, V, P, j, q, Ref(d, V[j], q))
    BY <2>1, OwnedRef
  <2>3. b \in Blocks /\ Has(d, V, P, i, p, b)
    BY OwnedRef
  <2>4. b \in Words
    BY <2>3, Numbers
  <2> QED
    BY <2>1, <2>2, <2>3, <2>4 DEF Owned
<1>2. ASSUME NEW j \in Inums PROVE \A s \in Places : Ref(d2, V[j], s) = Ref(d, V[j], s)
  <2>1. \A q \in EntryPlaces : Ref(d, V[j], q) # 0 => d2[Ref(d, V[j], q)] = d[Ref(d, V[j], q)]
    BY <1>1
  <2> QED
    BY <2>1, Loose
<1>3. \A j \in Inums : \A s \in Places : \A c \in Words :
        Has(d2, V, P, j, s, c) => Has(d, V, P, j, s, c) /\ c \notin tk /\ c - DataStart \in bs
  <2>1. \A j \in Inums : \A s \in Places : \A c \in Words :
        Has(d2, V, P, j, s, c) => Has(d, V, P, j, s, c)
    BY <1>2 DEF Has
  <2> QED
    BY <2>1 DEF Owned
<1> QED
  BY <1>3, OwnedSub

\* Fewer addresses, fewer blocks to free and fewer blocks taken, more bits set.
LEMMA OwnershipLess ==
  ASSUME NEW d, NEW V, NEW P, NEW bs, NEW tk, Ownership(d, V, P, bs, tk),
         NEW V2, \A i \in Inums : \A a \in Addrs : V2[i][a] \in {0, V[i][a]},
         NEW P2, \A i \in Inums : P2[i] \subseteq P[i],
         NEW bs2, bs \subseteq bs2, NEW tk2, tk2 \subseteq tk
  PROVE  Ownership(d, V2, P2, bs2, tk2)
<1>1. ASSUME NEW i \in Inums, NEW s \in Places, NEW b \in Words, Has(d, V2, P2, i, s, b)
      PROVE  Has(d, V, P, i, s, b)
  <2>1. PICK A, B : A = V[i] /\ B = V2[i]
    OBVIOUS
  <2>2. \A a \in Addrs : B[a] \in {0, A[a]}
    BY <2>1
  <2>3. Ref(d, B, s) \in {0, Ref(d, A, s)}
    BY <2>2, Mono
  <2> QED
    BY <1>1, <2>1, <2>3 DEF Has
<1>2. Owned(d, V, P, bs, tk)
  BY DEF Ownership
<1>3. \A i \in Inums : \A s \in Places : \A b \in Words :
        Has(d, V2, P2, i, s, b) =>
          Has(d, V, P, i, s, b) /\ b \notin tk2 /\ b - DataStart \in bs2
  BY <1>1, <1>2 DEF Owned
<1>4. Owned(d, V2, P2, bs2, tk2)
  BY <1>2, <1>3, OwnedSub
<1> QED
  BY <1>4 DEF Ownership

\* An image that shows all trees as before.
LEMMA OwnershipKept ==
  ASSUME NEW V, NEW P, NEW tk, Ownership(disk, V, P, bits, tk), NEW im, KeepsTrees(V, im)
  PROVE  Ownership(im.disk, V, P, im.bits, tk)
<1>1. Owned(disk, V, P, bits, tk)
  BY DEF Ownership
<1>2. \A i \in Inums : \A s \in Places : \A b \in Words :
        Has(im.disk, V, P, i, s, b) =>
          Has(disk, V, P, i, s, b) /\ b \notin tk /\ b - DataStart \in im.bits
  <2>1. \A i \in Inums : \A s \in Places : \A b \in Words :
        Has(im.disk, V, P, i, s, b) => Has(disk, V, P, i, s, b)
    BY DEF Has, KeepsTrees
  <2> QED
    BY <1>1, <2>1 DEF Owned, KeepsTrees
<1>3. Owned(im.disk, V, P, im.bits, tk)
  BY <1>1, <1>2, OwnedSub
<1> QED
  BY <1>3 DEF Ownership, KeepsTrees

\* A tree has grown by blocks that were free.
LEMMA OwnershipGrown ==
  ASSUME disk \in Disks, NEW V \in Vecs, NEW P, NEW tk, Ownership(disk, V, P, bits, tk),
         NEW i \in Inums,
         NEW D, NEW R, NEW bs, Grown(V[i], D, R, bs), bits \subseteq bs, OthersKept(V, i, D),
         NEW V2, V2[i] = R, \A j \in Inums \ {i} : V2[j] = V[j]
  PROVE  Ownership(D, V2, P, bs, tk)
<1>1. /\ Owned(disk, V, P, bits, tk) /\ 0 \in bits /\ \A b \in tk : b - DataStart \in bits
  BY DEF Ownership
<1>2. Owned(D, V2, P, bs, tk)
  BY <1>1, OwnedGrown
<1> QED
  BY <1>2 DEF Ownership

-----------------------------------------------------------------------------
(* The steps.                                                              *)

\* The history only grows.
LEMMA StillClean == ASSUME NEW p, NEW q, p \subseteq q, Clean(q) PROVE Clean(p)
BY DEF Clean

\* The addresses are addresses.
LEMMA VecIs ==
  ASSUME IInv
  PROVE  Vec \in Vecs /\ disk \in Disks
<1>1. NoAddrs \in [Addrs -> Words]
  BY Numbers DEF NoAddrs
<1>2. \A i \in Inums : ip[i].addrs \in [Addrs -> Words] /\ dinode[i].addrs \in [Addrs -> Words]
  BY DEF IInv, Shape
<1> QED
  BY <1>1, <1>2 DEF Vec, Vecs, IInv, Shape, Disks

\* A step that leaves the disk alone and gives no inode a block.
LEMMA QuietStep ==
  ASSUME TreeInv, Cached', disk' = disk, bits' = bits, taken' \subseteq taken, past \subseteq past',
         \A i \in Inums : \A a \in Addrs : Vec'[i][a] \in {0, Vec[i][a]},
         \A i \in Inums : Pend'[i] \subseteq Pend[i]
  PROVE  TreeInv'
<1> SUFFICES ASSUME Clean(past') PROVE Ownership(disk', Vec', Pend', bits', taken')
  BY DEF TreeInv
<1>1. Ownership(disk, Vec, Pend, bits, taken)
  BY StillClean DEF TreeInv
<1>2. PICK V2, P2, tk2 : V2 = Vec' /\ P2 = Pend' /\ tk2 = taken'
  OBVIOUS
<1>3. Ownership(disk, V2, P2, bits, tk2)
  BY <1>1, <1>2, OwnershipLess
<1> QED
  BY <1>2, <1>3

\* At the start no inode has a block.
LEMMA InitTree == Init => TreeInv
<1> SUFFICES ASSUME Init PROVE TreeInv
  OBVIOUS
<1>1. \A i \in Inums : /\ ip[i].valid = FALSE /\ file[i].open = FALSE /\ call[i].op = "none"
                       /\ ~Unlinking(i) /\ dinode[i].addrs = NoAddrs
  BY DEF Init, NoInode, Closed, NoCall, NewCall, Unlinking
<1>2. named = Inums
  BY DEF Init
<1>3. Cached
  BY <1>1, <1>2 DEF Cached, CachedAt
<1>4. \A i \in Inums : Vec[i] = NoAddrs /\ Pend[i] = {}
  BY <1>1, <1>2 DEF Vec, Pend
<1>5. \A i \in Inums : \A s \in Places : \A b \in Words : ~Has(disk, Vec, Pend, i, s, b)
  BY <1>4, NoneHas DEF Has
<1>6. bits = {0} /\ taken = {}
  BY DEF Init
<1> QED
  BY <1>3, <1>4, <1>5, <1>6 DEF TreeInv, Ownership, Owned

\* An inode that a step does not concern.
Untouched(j) ==
  /\ ip'[j].valid = ip[j].valid /\ ip'[j].addrs = ip[j].addrs
  /\ dinode'[j].addrs = dinode[j].addrs /\ (j \in named') = (j \in named)
  /\ Unlinking(j)' = Unlinking(j)
  /\ call'[j].frees = call[j].frees \/ (~Unlinking(j) /\ ~Unlinking(j)')

\* Its addresses and what is to be freed of it stay.
LEMMA SameVec ==
  ASSUME NEW j \in Inums, Untouched(j)
  PROVE  Vec'[j] = Vec[j] /\ Pend'[j] = Pend[j]
BY DEF Untouched, Vec, Pend

\* What Cached says of it stays.
LEMMA SameCached ==
  ASSUME NEW j \in Inums, Untouched(j), CachedAt(j), file'[j].open => file[j].open,
         call'[j].op \in {"read", "write"} => call[j].op \in {"read", "write"} \/ file[j].open
  PROVE  CachedAt(j)'
BY DEF Untouched, CachedAt

\* Nothing but a call or an offset changes.
LEMMA CallStep ==
  ASSUME TreeInv, Cached', disk' = disk, bits' = bits, taken' = taken, past' = past,
         \A j \in Inums : Untouched(j)
  PROVE  TreeInv'
<1>1. \A j \in Inums : Vec'[j] = Vec[j] /\ Pend'[j] = Pend[j]
  BY SameVec
<1> QED
  BY <1>1, QuietStep

\* sys_open().
LEMMA OpenTree == ASSUME IInv, TreeInv, NEW i \in Inums, Open(i) PROVE TreeInv'
<1>1. /\ call[i].op = "none" /\ i \in named
      /\ UNCHANGED <<bits, disk, dinode, named, call, taken, past>>
  BY DEF Open, Idle, OnDisk, History
<1>2. \A j \in Inums : ip'[j] = IF j = i THEN Locked(i) ELSE ip[j]
  BY DEF Open, IInv, Shape
<1>3. \A j \in Inums \ {i} : file'[j] = file[j]
  BY DEF Open, IInv, Shape
<1>4. Locked(i).valid = TRUE /\ Locked(i).addrs = IF ip[i].valid THEN ip[i].addrs ELSE dinode[i].addrs
  BY DEF Locked, IInv, Shape
<1>7. \A j \in Inums \ {i} : Untouched(j)
  BY <1>1, <1>2 DEF Untouched, Unlinking
<1>5. Cached'
  <2>1. ASSUME NEW j \in Inums, j # i PROVE CachedAt(j)'
    <3>1. CachedAt(j) /\ call'[j] = call[j] /\ file'[j] = file[j]
      BY <1>1, <1>3, <2>1 DEF TreeInv, Cached
    <3> QED
      BY <1>7, <2>1, <3>1, SameCached
  <2>2. CachedAt(i)'
    <3>1. CachedAt(i)
      BY DEF TreeInv, Cached
    <3> QED
      BY <1>1, <1>2, <1>4, <3>1 DEF CachedAt, Unlinking
  <2> QED
    BY <2>1, <2>2 DEF Cached
<1>6. \A j \in Inums : Vec'[j] = Vec[j] /\ Pend'[j] = Pend[j]
  <2>1. ASSUME NEW j \in Inums, j # i PROVE Vec'[j] = Vec[j] /\ Pend'[j] = Pend[j]
    BY <1>7, <2>1, SameVec
  <2>2. Vec'[i] = Vec[i] /\ Pend'[i] = Pend[i]
    BY <1>1, <1>2, <1>4 DEF Vec, Pend, Unlinking
  <2> QED
    BY <2>1, <2>2
<1> QED
  BY <1>1, <1>5, <1>6, QuietStep

\* file_close().
LEMMA CloseTree == ASSUME IInv, TreeInv, NEW i \in Inums, Close(i) PROVE TreeInv'
<1>1. UNCHANGED <<bits, disk, dinode, named, ip, call, taken, past>>
  BY DEF Close, OnDisk, History
<1>2. \A j \in Inums : file'[j].open => file[j].open
  <2>1. Closed.open = FALSE
    BY DEF Closed
  <2>2. \A j \in Inums : file'[j] = Closed \/ file'[j] = file[j]
    BY DEF Close, IInv, Shape
  <2> QED
    BY <2>1, <2>2
<1>3. \A j \in Inums : Untouched(j)
  BY <1>1 DEF Untouched, Unlinking
<1>4. Cached'
  <2>1. ASSUME NEW j \in Inums PROVE CachedAt(j)'
    <3>1. CachedAt(j)
      BY DEF TreeInv, Cached
    <3> QED
      BY <1>1, <1>2, <1>3, <3>1, SameCached
  <2> QED
    BY <2>1 DEF Cached
<1> QED
  BY <1>1, <1>3, <1>4, CallStep

\* inode_alloc() clearing a slot: the tree on the disk is not larger.
LEMMA EvictTree == ASSUME IInv, TreeInv, NEW i \in Inums, Evict(i) PROVE TreeInv'
<1>1. /\ call[i].op = "none" /\ ~file[i].open /\ ip[i].valid
      /\ UNCHANGED <<bits, disk, dinode, named, file, call, taken, past>>
  BY DEF Evict, Idle, OnDisk
<1>2. \A j \in Inums : ip'[j] = IF j = i THEN NoInode ELSE ip[j]
  BY DEF Evict, IInv, Shape
<1>3. NoInode.valid = FALSE
  BY DEF NoInode
<1>8. \A j \in Inums \ {i} : Untouched(j)
  BY <1>1, <1>2 DEF Untouched, Unlinking
<1>4. Cached'
  <2>1. ASSUME NEW j \in Inums, j # i PROVE CachedAt(j)'
    <3>1. CachedAt(j)
      BY DEF TreeInv, Cached
    <3> QED
      BY <1>1, <1>8, <2>1, <3>1, SameCached
  <2>2. CachedAt(i)'
    BY <1>1, <1>2, <1>3 DEF CachedAt, Unlinking
  <2> QED
    BY <2>1, <2>2 DEF Cached
<1>5. ASSUME NEW j \in Inums, j # i PROVE Vec'[j] = Vec[j] /\ Pend'[j] = Pend[j]
  BY <1>5, <1>8, SameVec
<1>6. /\ Vec[i] = ip[i].addrs /\ Pend[i] = {} /\ Pend'[i] = {}
      /\ Vec'[i] = IF i \in named THEN dinode[i].addrs ELSE NoAddrs
  BY <1>1, <1>2, <1>3 DEF Vec, Pend, Unlinking
<1>7. \A a \in Addrs : Vec'[i][a] \in {0, Vec[i][a]}
  <2>1. CASE i \in named
    BY <1>1, <1>6, <2>1 DEF TreeInv, Cached, CachedAt
  <2>2. CASE i \notin named
    BY <1>6, <2>2 DEF NoAddrs
  <2> QED
    BY <2>1, <2>2
<1> QED
  BY <1>1, <1>4, <1>5, <1>6, <1>7, QuietStep

\* sys_lseek.
LEMMA LseekTree ==
  ASSUME IInv, TreeInv, NEW i \in Inums, NEW o, NEW flags, Lseek(i, o, flags)
  PROVE  TreeInv'
<1>1. UNCHANGED <<bits, disk, dinode, named, ip, call, taken, past>>
  BY DEF Lseek, OnDisk
<1>2. \A j \in Inums : file'[j].open = file[j].open
  BY DEF Lseek, IInv, Shape
<1>4. \A j \in Inums : Untouched(j)
  BY <1>1 DEF Untouched, Unlinking
<1>3. Cached'
  <2>1. ASSUME NEW j \in Inums PROVE CachedAt(j)'
    <3>1. CachedAt(j)
      BY DEF TreeInv, Cached
    <3> QED
      BY <1>1, <1>2, <1>4, <3>1, SameCached
  <2> QED
    BY <2>1 DEF Cached
<1> QED
  BY <1>1, <1>3, <1>4, CallStep

\* A read or a write starts, on a file that is open.
LEMMA StartTree ==
  ASSUME IInv, TreeInv, NEW i \in Inums, HasFile(i), call'[i].op \in {"read", "write"},
         \A j \in Inums \ {i} : call'[j] = call[j], bits' = bits, disk' = disk, dinode' = dinode,
         named' = named, ip' = ip, file' = file, taken' = taken, past' = past
  PROVE  TreeInv'
<1>1. call[i].op = "none" /\ file[i].open
  BY DEF HasFile, Idle
<1>2. \A j \in Inums : j # i => call'[j] = call[j]
  OBVIOUS
<1>4. \A j \in Inums : Untouched(j)
  BY <1>1, <1>2 DEF Untouched, Unlinking
<1>3. Cached'
  <2>1. ASSUME NEW j \in Inums PROVE CachedAt(j)'
    <3>1. CachedAt(j)
      BY DEF TreeInv, Cached
    <3> QED
      BY <1>1, <1>2, <1>4, <3>1, SameCached
  <2> QED
    BY <2>1 DEF Cached
<1> QED
  BY <1>3, <1>4, CallStep

\* file_write() up to the first round of inode_write_data().
LEMMA WriteStartTree ==
  ASSUME IInv, TreeInv, NEW i \in Inums, NEW len, NEW user, WriteStart(i, len, user)
  PROVE  TreeInv'
<1>1. PICK c : c = NewCall("write", file[i].offset, len, user, {})
  OBVIOUS
<1>2. c.op = "write"
  BY <1>1 DEF NewCall
<1>3. /\ HasFile(i) /\ call' = [call EXCEPT ![i] = c]
      /\ UNCHANGED <<bits, disk, dinode, named, ip, file, taken, past>>
  BY <1>1 DEF WriteStart, OnDisk
<1>4. call'[i].op \in {"read", "write"} /\ \A j \in Inums \ {i} : call'[j] = call[j]
  BY <1>2, <1>3 DEF IInv, Shape
<1> QED
  BY <1>3, <1>4, StartTree

\* file_read() up to the first round of inode_read_data().
LEMMA ReadStartTree ==
  ASSUME IInv, TreeInv, NEW i \in Inums, NEW len, NEW user, ReadStart(i, len, user)
  PROVE  TreeInv'
<1> DEFINE off == file[i].offset
           cut == IF (off + len) % W > ip[i].size THEN ip[i].size - off ELSE len
<1>1. PICK c : c = NewCall("read", off, cut, user, {})
  OBVIOUS
<1>2. c.op = "read"
  BY <1>1 DEF NewCall
<1>3. /\ HasFile(i) /\ call' = [call EXCEPT ![i] = c]
      /\ UNCHANGED <<bits, disk, dinode, named, ip, file, taken, past>>
  BY <1>1 DEF ReadStart, OnDisk, History
<1>4. call'[i].op \in {"read", "write"} /\ \A j \in Inums \ {i} : call'[j] = call[j]
  BY <1>2, <1>3 DEF IInv, Shape
<1> QED
  BY <1>3, <1>4, StartTree

\* file_read() at its end.
LEMMA ReadEndTree == ASSUME IInv, TreeInv, NEW i \in Inums, ReadEnd(i) PROVE TreeInv'
<1>1. /\ call[i].op = "read"
      /\ UNCHANGED <<bits, disk, dinode, named, ip, taken, past>>
  BY DEF ReadEnd, Done, OnDisk, History
<1>2. \A j \in Inums : call'[j] = IF j = i THEN NoCall ELSE call[j]
  BY DEF ReadEnd, IInv, Shape
<1>3. \A j \in Inums : file'[j].open = file[j].open
  BY DEF ReadEnd, IInv, Shape
<1>4. NoCall.op = "none"
  BY DEF NoCall, NewCall
<1>6. \A j \in Inums : Untouched(j)
  BY <1>1, <1>2, <1>4 DEF Untouched, Unlinking
<1>5. Cached'
  <2>1. ASSUME NEW j \in Inums PROVE CachedAt(j)'
    <3>1. CachedAt(j)
      BY DEF TreeInv, Cached
    <3> QED
      BY <1>1, <1>2, <1>3, <1>4, <1>6, <3>1, SameCached
  <2> QED
    BY <2>1 DEF Cached
<1> QED
  BY <1>1, <1>5, <1>6, CallStep

\* inode_write_data() at its end: what is saved is what memory has.
LEMMA WriteEndTree == ASSUME IInv, TreeInv, NEW i \in Inums, WriteEnd(i) PROVE TreeInv'
<1>0. CachedAt(i)
  BY DEF TreeInv, Cached
<1>1. /\ call[i].op = "write" /\ ip[i].valid
      /\ UNCHANGED <<bits, disk, named, taken, past>>
  BY <1>0 DEF WriteEnd, Done, History, CachedAt
<1>2. \A j \in Inums : call'[j] = IF j = i THEN NoCall ELSE call[j]
  BY DEF WriteEnd, IInv, Shape
<1>3. \A j \in Inums : file'[j].open = file[j].open
  BY DEF WriteEnd, IInv, Shape
<1>4. NoCall.op = "none"
  BY DEF NoCall, NewCall
<1>5. /\ \A j \in Inums : ip'[j].valid = ip[j].valid /\ ip'[j].addrs = ip[j].addrs
      /\ \A j \in Inums \ {i} : dinode'[j] = dinode[j]
      /\ dinode'[i] = dinode[i] \/ dinode'[i].addrs = ip[i].addrs
  <2>1. CASE Pos(i) > ip[i].size
    <3>1. /\ ip' = [ip EXCEPT ![i].size = Pos(i)]
          /\ dinode' = [dinode EXCEPT ![i] = [size |-> Pos(i), addrs |-> ip[i].addrs]]
      BY <2>1 DEF WriteEnd
    <3>2. \A j \in Inums : ip'[j].valid = ip[j].valid /\ ip'[j].addrs = ip[j].addrs
      BY <3>1, ZenonT(40) DEF IInv, Shape
    <3>3. \A j \in Inums : dinode'[j] = IF j = i THEN [size |-> Pos(i), addrs |-> ip[i].addrs]
                                       ELSE dinode[j]
      BY <3>1 DEF IInv, Shape
    <3> QED
      BY <3>2, <3>3
  <2>2. CASE ~(Pos(i) > ip[i].size)
    BY <2>2 DEF WriteEnd
  <2> QED
    BY <2>1, <2>2
<1>6. \A j \in Inums \ {i} : Untouched(j)
  BY <1>1, <1>2, <1>5 DEF Untouched, Unlinking
<1>7. Cached'
  <2>1. ASSUME NEW j \in Inums, j # i PROVE CachedAt(j)'
    <3>1. CachedAt(j)
      BY DEF TreeInv, Cached
    <3> QED
      BY <1>2, <1>3, <1>6, <2>1, <3>1, SameCached
  <2>2. CachedAt(i)'
    BY <1>0, <1>1, <1>2, <1>4, <1>5 DEF CachedAt, Unlinking
  <2> QED
    BY <2>1, <2>2 DEF Cached
<1>8. ASSUME NEW j \in Inums, j # i PROVE Vec'[j] = Vec[j] /\ Pend'[j] = Pend[j]
  BY <1>6, <1>8, SameVec
<1>9. Vec'[i] = Vec[i] /\ Pend'[i] = Pend[i]
  BY <1>1, <1>2, <1>4, <1>5 DEF Vec, Pend, Unlinking
<1> QED
  BY <1>1, <1>7, <1>8, <1>9, QuietStep

\* The end of inode_free_data(): an empty inode.
LEMMA UnlinkEndTree == ASSUME IInv, TreeInv, NEW i \in Inums, UnlinkEnd(i) PROVE TreeInv'
<1>0. CachedAt(i)
  BY DEF TreeInv, Cached
<1>1. /\ call[i].op = "unlink" /\ i \notin named
      /\ UNCHANGED <<bits, disk, named, file, taken, past>>
  BY <1>0 DEF UnlinkEnd, CachedAt, Unlinking
<1>2. \A j \in Inums : call'[j] = IF j = i THEN NoCall ELSE call[j]
  BY DEF UnlinkEnd, IInv, Shape
<1>4. NoCall.op = "none"
  BY DEF NoCall, NewCall
<1>5. /\ \A j \in Inums \ {i} : ip'[j] = ip[j] /\ dinode'[j] = dinode[j]
      /\ ip'[i].valid = ip[i].valid /\ ip'[i].addrs = NoAddrs
  <2>1. /\ ip' = [ip EXCEPT ![i] = [ip[i] EXCEPT !.size = 0, !.addrs = NoAddrs]]
        /\ dinode' = [dinode EXCEPT ![i] = [size |-> 0, addrs |-> NoAddrs]]
    BY DEF UnlinkEnd, IInv, Shape
  <2>2. PICK n : n = [ip[i] EXCEPT !.size = 0, !.addrs = NoAddrs]
    OBVIOUS
  <2>3. n.valid = ip[i].valid /\ n.addrs = NoAddrs
    BY <2>2 DEF IInv, Shape
  <2> QED
    BY <2>1, <2>2, <2>3 DEF IInv, Shape
<1>6. \A j \in Inums \ {i} : Untouched(j)
  BY <1>1, <1>2, <1>5 DEF Untouched, Unlinking
<1>7. Cached'
  <2>1. ASSUME NEW j \in Inums, j # i PROVE CachedAt(j)'
    <3>1. CachedAt(j)
      BY DEF TreeInv, Cached
    <3> QED
      BY <1>1, <1>2, <1>6, <2>1, <3>1, SameCached
  <2>2. CachedAt(i)'
    BY <1>0, <1>1, <1>2, <1>4, <1>5 DEF CachedAt, Unlinking
  <2> QED
    BY <2>1, <2>2 DEF Cached
<1>8. ASSUME NEW j \in Inums, j # i PROVE Vec'[j] = Vec[j] /\ Pend'[j] = Pend[j]
  BY <1>6, <1>8, SameVec
<1>9. Vec'[i] = NoAddrs /\ Pend'[i] = {}
  BY <1>1, <1>2, <1>4, <1>5 DEF Vec, Pend, Unlinking
<1>10. \A a \in Addrs : NoAddrs[a] = 0
  BY DEF NoAddrs
<1> QED
  BY <1>1, <1>7, <1>8, <1>9, <1>10, QuietStep

\* A step that concerns no inode.
LEMMA InodesKept ==
  ASSUME TreeInv, UNCHANGED <<dinode, named, ip, file, call>>
  PROVE  Cached' /\ Vec' = Vec /\ Pend' = Pend
BY DEF TreeInv, Cached, CachedAt, Vec, Pend, Unlinking

\* sys_alloc_block: the block was nobody's.
LEMMA SysAllocTree == ASSUME IInv, TreeInv, SysAlloc PROVE TreeInv'
<1>1. UNCHANGED <<disk, dinode, named, ip, file, call, past>>
  BY DEF SysAlloc, History
<1>2. Cached' /\ Vec' = Vec /\ Pend' = Pend
  BY <1>1, InodesKept
<1> SUFFICES ASSUME Clean(past') PROVE Ownership(disk, Vec, Pend, bits', taken')
  BY <1>1, <1>2 DEF TreeInv
<1>3. Ownership(disk, Vec, Pend, bits, taken)
  BY <1>1 DEF TreeInv
<1>4. PICK a : a = AllocBlock(Image)
  OBVIOUS
<1>5. /\ a.blk \in Blocks
      /\ \/ a.blk = 0 /\ a.im.bits = bits
         \/ a.blk > 0 /\ a.blk - DataStart \notin bits /\ a.im.bits = bits \cup {a.blk - DataStart}
  BY <1>4, ImageIs, AllocBlockIs DEF IInv, FreeBits
<1>6. bits' = a.im.bits /\ taken' = IF a.blk = 0 THEN taken ELSE taken \cup {a.blk}
  BY <1>4 DEF SysAlloc
<1>7. CASE a.blk = 0
  <2>1. bits' = bits /\ taken' = taken
    BY <1>5, <1>6, <1>7
  <2> QED
    BY <1>3, <2>1
<1>8. CASE a.blk # 0
  <2>1. /\ a.blk > 0 /\ a.blk - DataStart \notin bits
        /\ bits' = bits \cup {a.blk - DataStart} /\ taken' = taken \cup {a.blk}
    BY <1>5, <1>6, <1>8
  <2>2. a.blk > RootBlock
    <3>1. a.blk \in Int /\ a.blk # 1
      BY <1>3, <1>5, <2>1, Numbers, Sizes DEF Ownership, DataStart
    <3> QED
      BY <2>1, <3>1 DEF RootBlock, DataStart
  <2>3. \A i \in Inums : \A s \in Places : \A b \in Words :
          Has(disk, Vec, Pend, i, s, b) =>
            Has(disk, Vec, Pend, i, s, b) /\ b \notin taken' /\ b - DataStart \in bits'
    BY <1>3, <2>1 DEF Ownership, Owned
  <2>4. Owned(disk, Vec, Pend, bits, taken)
    BY <1>3 DEF Ownership
  <2>5. PICK bs2, tk2 : bs2 = bits' /\ tk2 = taken'
    OBVIOUS
  <2>6. Owned(disk, Vec, Pend, bs2, tk2)
    BY <2>3, <2>4, <2>5, OwnedSub
  <2> QED
    BY <1>3, <2>1, <2>2, <2>5, <2>6 DEF Ownership
<1> QED
  BY <1>7, <1>8

\* bitmap_free_block() clears the bit of its block alone.
LEMMA FreeBlockIs ==
  ASSUME NEW bs, NEW b \in Int
  PROVE  /\ FreeBlock(bs, b) \subseteq bs
         /\ \A c \in Int : c # b /\ c - DataStart \in bs => c - DataStart \in FreeBlock(bs, b)
         /\ 0 \in bs => 0 \in FreeBlock(bs, b)
BY DEF FreeBlock, DataStart

\* sys_free_block: the block is in no tree.
LEMMA SysFreeTree == ASSUME IInv, TreeInv, NEW b \in Blocks, SysFree(b) PROVE TreeInv'
<1>1. UNCHANGED <<disk, dinode, named, ip, file, call, past>>
  BY DEF SysFree, History
<1>2. Cached' /\ Vec' = Vec /\ Pend' = Pend
  BY <1>1, InodesKept
<1> SUFFICES ASSUME Clean(past') PROVE Ownership(disk, Vec, Pend, bits', taken')
  BY <1>1, <1>2 DEF TreeInv
<1>3. Ownership(disk, Vec, Pend, bits, taken)
  BY <1>1 DEF TreeInv
<1>4. b \in taken /\ bits' = FreeBlock(bits, b) /\ taken' = taken \ {b}
  BY DEF SysFree
<1>5. b \in Int /\ \A c \in taken : c \in Int
  <2>1. \A c \in Blocks : c \in Int
    BY Numbers, Sizes
  <2>2. taken \subseteq Blocks
    BY DEF IInv, Shape
  <2> QED
    BY <2>1, <2>2
<1>6. /\ \A c \in Int : c # b /\ c - DataStart \in bits => c - DataStart \in bits'
      /\ 0 \in bits'
  BY <1>3, <1>4, <1>5, FreeBlockIs DEF Ownership
<1>7. Owned(disk, Vec, Pend, bits, taken)
  BY <1>3 DEF Ownership
<1>8. \A i \in Inums : \A s \in Places : \A c \in Words :
        Has(disk, Vec, Pend, i, s, c) =>
          Has(disk, Vec, Pend, i, s, c) /\ c \notin taken' /\ c - DataStart \in bits'
  <2> SUFFICES ASSUME NEW i \in Inums, NEW s \in Places, NEW c \in Words, Has(disk, Vec, Pend, i, s, c)
               PROVE  c \notin taken' /\ c - DataStart \in bits'
    OBVIOUS
  <2>1. c \in Int
    BY Numbers, Sizes DEF Words
  <2>2. c \notin taken /\ c - DataStart \in bits
    BY <1>7 DEF Owned
  <2> QED
    BY <1>4, <1>6, <2>1, <2>2
<1>9. PICK bs2, tk2 : bs2 = bits' /\ tk2 = taken'
  OBVIOUS
<1>10. Owned(disk, Vec, Pend, bs2, tk2)
  BY <1>7, <1>8, <1>9, OwnedSub
<1>11. \A c \in taken' : c > RootBlock /\ c - DataStart \in bits'
  BY <1>3, <1>4, <1>5, <1>6 DEF Ownership
<1> QED
  BY <1>3, <1>6, <1>9, <1>10, <1>11 DEF Ownership

\* Entries of a directory without a block are in no tree: block 0 is none of its
\* blocks.
LEMMA DirWriteRefs ==
  ASSUME IInv, TreeInv, Clean(past), NEW e \in Entries, DirWrite(e)
  PROVE  /\ \A c \in Blocks \ {0} : disk'[c] = disk[c]
         /\ \A j \in Inums, s \in Places :
              Ref(disk, Vec[j], s) \in Blocks /\ Ref(disk', Vec[j], s) = Ref(disk, Vec[j], s)
<1>1. \A c \in Blocks \ {0} : disk'[c] = disk[c]
  BY DEF DirWrite, IInv, Shape
<1>2. PICK V, P, d2 : V = Vec /\ P = Pend /\ d2 = disk'
  OBVIOUS
<1>3. V \in Vecs /\ disk \in Disks /\ Owned(disk, V, P, bits, taken)
  BY <1>2, VecIs DEF TreeInv, Ownership
<1>4. ASSUME NEW j \in Inums, NEW s \in Places PROVE Ref(disk, V[j], s) \in Blocks
  BY <1>3, OwnedRef
<1>5. ASSUME NEW j \in Inums PROVE \A s \in Places : Ref(d2, V[j], s) = Ref(disk, V[j], s)
  <2>1. \A q \in EntryPlaces : Ref(disk, V[j], q) # 0 => d2[Ref(disk, V[j], q)] = disk[Ref(disk, V[j], q)]
    BY <1>1, <1>2, <1>4, PlacesAre
  <2> QED
    BY <2>1, Loose
<1> QED
  BY <1>1, <1>2, <1>4, <1>5

\* A directory writing to block 0 leaves the trees.
LEMMA DirWriteTree == ASSUME IInv, TreeInv, NEW e \in Entries, DirWrite(e) PROVE TreeInv'
<1>1. UNCHANGED <<bits, dinode, named, ip, file, call, taken, past>>
  BY DEF DirWrite, History
<1>2. Cached' /\ Vec' = Vec /\ Pend' = Pend
  BY <1>1, InodesKept
<1> SUFFICES ASSUME Clean(past) PROVE Ownership(disk', Vec, Pend, bits, taken)
  BY <1>1, <1>2 DEF TreeInv
<1>3. PICK V, P, d2 : V = Vec /\ P = Pend /\ d2 = disk'
  OBVIOUS
<1>4. Ownership(disk, V, P, bits, taken) /\ Owned(disk, V, P, bits, taken)
  BY <1>3 DEF TreeInv, Ownership
<1>5. \A j \in Inums, s \in Places : Ref(d2, V[j], s) = Ref(disk, V[j], s)
  BY <1>3, DirWriteRefs
<1>6. \A j \in Inums : \A s \in Places : \A c \in Words :
        Has(d2, V, P, j, s, c) => Has(disk, V, P, j, s, c) /\ c \notin taken /\ c - DataStart \in bits
  <2>1. \A j \in Inums : \A s \in Places : \A c \in Words :
        Has(d2, V, P, j, s, c) => Has(disk, V, P, j, s, c)
    BY <1>5 DEF Has
  <2> QED
    BY <1>4, <2>1 DEF Owned
<1>7. Owned(d2, V, P, bits, taken)
  BY <1>4, <1>6, OwnedSub
<1> QED
  BY <1>3, <1>4, <1>7 DEF Ownership

\* The block that data_free() frees next is one of those it has to free.
LEMMA FirstFreedIs ==
  ASSUME NEW F, F # {}, F \subseteq Places \X Words
  PROVE  FirstFreed(F) \in F
<1>1. ASSUME NEW s \in Places PROVE Rank(s) \in Nat
  <2>1. E \in Nat /\ \A x \in Addrs \cup Entries : x \in Nat
    BY Sizes DEF Addrs, Entries
  <2>2. CASE \E a \in Addrs : s = <<a>>
    <3>1. PICK a \in Addrs : s = <<a>>
      BY <2>2
    <3>2. Rank(s) = ((a + 1) * (E + 2) + (E + 1)) * (E + 2) + (E + 1)
      BY <3>1 DEF Rank
    <3> QED
      BY <2>1, <3>2
  <2>3. CASE \E a \in N1 .. N1 + N2, e \in Entries : s = <<a, e>>
    <3>1. PICK a \in N1 .. N1 + N2, e \in Entries : s = <<a, e>>
      BY <2>3
    <3>2. Rank(s) = ((a + 1) * (E + 2) + (e + 1)) * (E + 2) + (E + 1)
      BY <3>1 DEF Rank
    <3>3. a \in Nat /\ e \in Nat
      BY <2>1, PlacesAre
    <3> QED
      BY <2>1, <3>2, <3>3
  <2>4. CASE \E e, f \in Entries : s = <<N1 + N2, e, f>>
    <3>1. PICK e \in Entries, f \in Entries : s = <<N1 + N2, e, f>>
      BY <2>4
    <3>2. Rank(s) = ((N1 + N2 + 1) * (E + 2) + (e + 1)) * (E + 2) + (f + 1)
      BY <3>1 DEF Rank
    <3>3. e \in Nat /\ f \in Nat /\ N1 + N2 \in Nat
      BY <2>1, Sizes
    <3> QED
      BY <2>1, <3>2, <3>3
  <2> QED
    BY <2>2, <2>3, <2>4, PlaceCases
<1>2. PICK S : S = {Rank(x[1]) : x \in F}
  OBVIOUS
<1>3. S \subseteq Nat /\ S # {}
  <2>1. \A x \in F : x[1] \in Places
    OBVIOUS
  <2> QED
    BY <1>1, <1>2, <2>1
<1>4. Min(S) \in S /\ \A m \in S : Min(S) <= m
  BY <1>3, MinFound
<1>5. PICK x \in F : Min(S) = Rank(x[1])
  BY <1>2, <1>4
<1>6. \A y \in F : Rank(x[1]) <= Rank(y[1])
  BY <1>2, <1>4, <1>5
<1> QED
  BY <1>6 DEF FirstFreed

\* inode_free_data() frees a block that no other place and nobody else has.
LEMMA UnlinkFreeTree == ASSUME IInv, TreeInv, NEW i \in Inums, UnlinkFree(i) PROVE TreeInv'
<1>1. /\ call[i].op = "unlink" /\ call[i].frees # {}
      /\ UNCHANGED <<disk, dinode, named, ip, file, taken, past>>
  BY DEF UnlinkFree, History
<1>2. PICK x : x = FirstFreed(call[i].frees)
  OBVIOUS
<1>3. \/ x[2] = Unreadable /\ UNCHANGED <<bits, call>>
      \/ /\ x[2] # Unreadable /\ bits' = FreeBlock(bits, x[2])
         /\ call' = [call EXCEPT ![i].frees = @ \ {x}]
  BY <1>2 DEF UnlinkFree
<1>4. CASE UNCHANGED <<bits, call>>
  <2>1. Cached' /\ Vec' = Vec /\ Pend' = Pend
    BY <1>1, <1>4, InodesKept
  <2> QED
    BY <1>1, <1>4, <2>1 DEF TreeInv
<1>5. CASE /\ x[2] # Unreadable /\ bits' = FreeBlock(bits, x[2])
           /\ call' = [call EXCEPT ![i].frees = @ \ {x}]
  <2>1. /\ \A j \in Inums : call'[j].op = call[j].op
        /\ \A j \in Inums \ {i} : call'[j].frees = call[j].frees
        /\ call'[i].frees = call[i].frees \ {x}
    <3>1. PICK c : c = [call[i] EXCEPT !.frees = @ \ {x}]
      OBVIOUS
    <3>2. Calls(call[i])
      BY DEF IInv, Shape
    <3>3. c.op = call[i].op /\ c.frees = call[i].frees \ {x}
      BY <3>1, <3>2 DEF Calls
    <3>4. \A j \in Inums : call'[j] = IF j = i THEN c ELSE call[j]
      BY <1>5, <3>1 DEF IInv, Shape
    <3> QED
      BY <3>3, <3>4
  <2>2. Cached'
    BY <1>1, <2>1 DEF TreeInv, Cached, CachedAt, Unlinking
  <2>3. /\ \A j \in Inums : Vec'[j] = Vec[j] /\ Pend'[j] = IF j = i THEN Pend[i] \ {x} ELSE Pend[j]
        /\ Pend[i] = call[i].frees /\ Vec[i] = NoAddrs
    BY <1>1, <2>1 DEF Vec, Pend, Unlinking
  <2> SUFFICES ASSUME Clean(past') PROVE Ownership(disk, Vec', Pend', bits', taken)
    BY <1>1, <2>2 DEF TreeInv
  <2>4. Ownership(disk, Vec, Pend, bits, taken)
    BY <1>1 DEF TreeInv
  <2>5. Pend[i] \subseteq Places \X Words /\ Owned(disk, Vec, Pend, bits, taken)
    BY <2>4 DEF Ownership
  <2>6. x \in Pend[i] /\ x \in Places \X Words
    BY <1>1, <1>2, <2>3, <2>5, FirstFreedIs
  <2>7. PICK s \in Places, b \in Words : x = <<s, b>>
    BY <2>6
  <2>8. \A c \in Words : c \in Int
    BY Numbers, Sizes DEF Words
  <2>9. /\ \A c \in Int : c # b /\ c - DataStart \in bits => c - DataStart \in bits'
        /\ 0 \in bits'
    BY <1>5, <2>4, <2>7, <2>8, FreeBlockIs DEF Ownership
  <2>10. b # 0 => Has(disk, Vec, Pend, i, s, b)
    BY <2>6, <2>7 DEF Has
  <2>11. ASSUME NEW j \in Inums, NEW t \in Places, NEW c \in Words, Has(disk, Vec', Pend', j, t, c)
         PROVE  Has(disk, Vec, Pend, j, t, c) /\ c \notin taken /\ c - DataStart \in bits'
    <3>1. Has(disk, Vec, Pend, j, t, c)
      BY <2>3, <2>11 DEF Has
    <3>2. c \notin taken /\ c - DataStart \in bits /\ c # 0
      BY <2>5, <3>1 DEF Owned, Has
    <3>3. c # b
      <4> SUFFICES ASSUME c = b PROVE FALSE
        OBVIOUS
      <4>1. j = i /\ t = s
        BY <2>5, <2>10, <3>1, <3>2 DEF Owned
      <4>2. Ref(disk, NoAddrs, t) = 0
        BY NoneHas
      <4>3. <<t, c>> \in Pend[i] \ {x}
        BY <2>3, <2>11, <3>2, <4>1, <4>2 DEF Has
      <4> QED
        BY <2>7, <4>1, <4>3
    <3> QED
      BY <2>8, <2>9, <3>1, <3>2, <3>3
  <2>12. PICK V2, P2, bs2 : V2 = Vec' /\ P2 = Pend' /\ bs2 = bits'
    OBVIOUS
  <2>13. Owned(disk, V2, P2, bs2, taken)
    BY <2>5, <2>11, <2>12, OwnedSub
  <2>14. \A c \in taken : c > RootBlock /\ c - DataStart \in bits'
    <3> SUFFICES ASSUME NEW c \in taken PROVE c > RootBlock /\ c - DataStart \in bits'
      OBVIOUS
    <3>1. c > RootBlock /\ c - DataStart \in bits
      BY <2>4 DEF Ownership
    <3>2. c \in Blocks /\ c \in Int
      BY Numbers, <2>8 DEF IInv, Shape
    <3>3. b # 0 => b \notin taken
      BY <2>5, <2>10 DEF Owned
    <3>4. c # 0
      BY <3>1, <3>2 DEF RootBlock, DataStart
    <3> QED
      BY <2>9, <3>1, <3>2, <3>3, <3>4
  <2>15. \A j \in Inums : Pend'[j] \subseteq Places \X Words
    BY <2>3, <2>4 DEF Ownership
  <2> QED
    BY <2>9, <2>12, <2>13, <2>14, <2>15 DEF Ownership
<1> QED
  BY <1>3, <1>4, <1>5

\* Sequences of numbers with the same elements are the same.
LEMMA SameSeq ==
  ASSUME NEW s \in Seq(Int), NEW t \in Seq(Int), Len(s) = Len(t), \A k \in 1 .. Len(s) : s[k] = t[k]
  PROVE  s = t
OBVIOUS

\* One index more.
LEMMA Appended ==
  /\ \A a, e \in Int : Append(<<a>>, e) = <<a, e>>
  /\ \A a, e, f \in Int : Append(<<a, e>>, f) = <<a, e, f>>
<1>1. ASSUME NEW a \in Int, NEW e \in Int PROVE Append(<<a>>, e) = <<a, e>>
  <2>1. PICK s, t : s = Append(<<a>>, e) /\ t = <<a, e>>
    OBVIOUS
  <2>2. s \in Seq(Int) /\ Len(s) = 2 /\ s[1] = a /\ s[2] = e
    <3>1. <<a>> \in Seq(Int) /\ Len(<<a>>) = 1 /\ <<a>>[1] = a
      OBVIOUS
    <3> QED
      BY <2>1, <3>1
  <2>3. t \in Seq(Int) /\ Len(t) = 2 /\ t[1] = a /\ t[2] = e
    BY <2>1
  <2>5. \A k \in 1 .. 2 : k \in {1, 2}
    OBVIOUS
  <2>6. \A k \in 1 .. Len(s) : s[k] = t[k]
    BY <2>2, <2>3, <2>5
  <2>4. s = t
    BY <2>2, <2>3, <2>6, SameSeq
  <2> QED
    BY <2>1, <2>4
<1>2. ASSUME NEW a \in Int, NEW e \in Int, NEW f \in Int PROVE Append(<<a, e>>, f) = <<a, e, f>>
  <2>1. PICK s, t : s = Append(<<a, e>>, f) /\ t = <<a, e, f>>
    OBVIOUS
  <2>2. s \in Seq(Int) /\ Len(s) = 3 /\ s[1] = a /\ s[2] = e /\ s[3] = f
    <3>1. <<a, e>> \in Seq(Int) /\ Len(<<a, e>>) = 2 /\ <<a, e>>[1] = a /\ <<a, e>>[2] = e
      OBVIOUS
    <3> QED
      BY <2>1, <3>1
  <2>3. t \in Seq(Int) /\ Len(t) = 3 /\ t[1] = a /\ t[2] = e /\ t[3] = f
    BY <2>1
  <2>5. \A k \in 1 .. 3 : k \in {1, 2, 3}
    OBVIOUS
  <2>6. \A k \in 1 .. Len(s) : s[k] = t[k]
    BY <2>2, <2>3, <2>5
  <2>4. s = t
    BY <2>2, <2>3, <2>6, SameSeq
  <2> QED
    BY <2>1, <2>4
<1> QED
  BY <1>1, <1>2

\* A place of the tree under A, with the block there.
Branch(A, x) == \E s \in Places : x = <<s, Ref(disk, A, s)>>

\* The entries that data_free() visits in a block of this disk.
LEMMA LeadingIs ==
  ASSUME NEW b, NEW above, b \in Blocks \ above
  PROVE  \A x \in Leading(b, above) : \E e \in Entries : x = <<e, disk[b][e]>> /\ disk[b][e] # 0
<1>1. Leading(b, above) = {<<e, disk[b][e]>> : e \in {f \in Entries : \A d \in 0 .. f : disk[b][d] # 0}}
  BY DEF Leading
<1>2. \A f \in Entries : f \in 0 .. f
  BY Sizes DEF Entries
<1> QED
  BY <1>1, <1>2

\* Under an entry block of level 1.
LEMMA DataFree1Is ==
  ASSUME NEW A, NEW s, NEW b, NEW above, b \in Blocks \ above,
         s \in Places, b = Ref(disk, A, s),
         \A e \in Entries : Append(s, e) \in Places /\ Ref(disk, A, Append(s, e)) = disk[b][e]
  PROVE  \A x \in DataFree1(s, b, above) : Branch(A, x)
<1> SUFFICES ASSUME NEW x \in DataFree1(s, b, above) PROVE Branch(A, x)
  OBVIOUS
<1>1. x = <<s, b>> \/ \E y \in Leading(b, above) : x = <<Append(s, y[1]), y[2]>>
  BY DEF DataFree1
<1>2. CASE x = <<s, b>>
  BY <1>2 DEF Branch
<1>3. CASE \E y \in Leading(b, above) : x = <<Append(s, y[1]), y[2]>>
  <2>1. PICK y \in Leading(b, above) : x = <<Append(s, y[1]), y[2]>>
    BY <1>3
  <2>2. PICK e \in Entries : y = <<e, disk[b][e]>>
    BY LeadingIs
  <2>3. x = <<Append(s, e), disk[b][e]>>
    BY <2>1, <2>2
  <2> QED
    BY <2>3 DEF Branch
<1> QED
  BY <1>1, <1>2, <1>3

\* Under the entry block of level 2.
LEMMA DataFree2Is ==
  ASSUME NEW A, Sole(A), NEW a, a = N1 + N2, NEW b \in Blocks, b = A[a], b # 0
  PROVE  \A x \in DataFree2(<<a>>, b) : Branch(A, x)
<1> SUFFICES ASSUME NEW x \in DataFree2(<<a>>, b) PROVE Branch(A, x)
  OBVIOUS
<1>0. PICK s : s = <<a>>
  OBVIOUS
<1>1. \/ x = <<s, b>>
      \/ \E y \in Leading(b, {}) :
           x \in IF y[1] = Unreadable THEN {<<Append(s, y[1]), y[2]>>}
                 ELSE DataFree1(Append(s, y[1]), y[2], {b})
  BY <1>0 DEF DataFree2
<1>2. s \in Places /\ Ref(disk, A, s) = b
  BY <1>0, PlacesAre, RefIs
<1>3. CASE x = <<s, b>>
  BY <1>2, <1>3 DEF Branch
<1>4. ASSUME NEW y \in Leading(b, {}),
             x \in IF y[1] = Unreadable THEN {<<Append(s, y[1]), y[2]>>}
                   ELSE DataFree1(Append(s, y[1]), y[2], {b})
      PROVE  Branch(A, x)
  <2>1. PICK e \in Entries : y = <<e, disk[b][e]>> /\ disk[b][e] # 0
    BY LeadingIs
  <2>2. PICK c, t : c = disk[b][e] /\ t = <<a, e>>
    OBVIOUS
  <2>9. a \in Int /\ \A f \in Entries : f \in Int /\ f # Unreadable
    BY Sizes DEF Entries, Unreadable
  <2>3. Append(s, e) = t /\ y[1] = e /\ y[2] = c /\ e # Unreadable
    BY <1>0, <2>1, <2>2, <2>9, Appended
  <2>4. x \in DataFree1(t, c, {b})
    BY <1>4, <2>3
  <2>5. t \in Places /\ t # s /\ Ref(disk, A, t) = c
    <3>1. Ref(disk, A, t) = At(disk, A[a], e)
      BY <2>2, RefIs
    <3>2. t \in Places /\ t # s
      BY <1>0, <2>2, PlacesAre
    <3> QED
      BY <2>2, <3>1, <3>2 DEF At
  <2>6. c \in Blocks \ {b}
    BY <1>2, <2>1, <2>2, <2>5 DEF Sole
  <2>7. \A f \in Entries : Append(t, f) \in Places /\ Ref(disk, A, Append(t, f)) = disk[c][f]
    <3> TAKE f \in Entries
    <3>1. Append(t, f) = <<a, e, f>>
      BY <2>2, <2>9, Appended
    <3>2. Ref(disk, A, <<a, e, f>>) = At(disk, At(disk, A[a], e), f) /\ <<a, e, f>> \in Places
      BY PlacesAre, RefIs
    <3>3. At(disk, A[a], e) = c /\ c # 0
      BY <2>1, <2>2 DEF At
    <3>4. At(disk, c, f) = disk[c][f]
      BY <3>3 DEF At
    <3> QED
      BY <3>1, <3>2, <3>3, <3>4
  <2>8. \A z \in DataFree1(t, c, {b}) : Branch(A, z)
    BY <2>5, <2>6, <2>7, DataFree1Is
  <2> QED
    BY <2>4, <2>8
<1> QED
  BY <1>1, <1>3, <1>4

\* inode_free_data() frees what is in the tree, and meets no block it cannot read.
LEMMA FreeDataIs ==
  ASSUME NEW A, Sole(A)
  PROVE  \A x \in FreeData(A) : Branch(A, x)
<1> SUFFICES ASSUME NEW x \in FreeData(A) PROVE Branch(A, x)
  OBVIOUS
<1>1. PICK a \in Addrs :
        /\ A[a] # 0
        /\ x \in IF a < N1 THEN {<< <<a>>, A[a]>>}
                 ELSE IF a < N1 + N2 THEN DataFree1(<<a>>, A[a], {}) ELSE DataFree2(<<a>>, A[a])
  BY DEF FreeData
<1>2. PICK s, b : s = <<a>> /\ b = A[a]
  OBVIOUS
<1>3. s \in Places /\ Ref(disk, A, s) = b
  BY <1>2, PlacesAre, RefIs
<1>4. b \in Blocks /\ b # 0
  BY <1>1, <1>2, <1>3 DEF Sole
<1>5. CASE a < N1
  <2>1. x = <<s, b>>
    BY <1>1, <1>2, <1>5
  <2> QED
    BY <1>3, <2>1 DEF Branch
<1>6. CASE ~(a < N1) /\ a < N1 + N2
  <2>1. x \in DataFree1(s, b, {})
    BY <1>1, <1>2, <1>6
  <2>2. a \in N1 .. N1 + N2
    BY <1>6, Sizes DEF Addrs
  <2>3. \A e \in Entries : Append(s, e) \in Places /\ Ref(disk, A, Append(s, e)) = disk[b][e]
    <3> TAKE e \in Entries
    <3>1. Append(s, e) = <<a, e>>
      <4>1. a \in Int /\ e \in Int
        BY <2>2, Sizes DEF Entries
      <4> QED
        BY <1>2, <4>1, Appended
    <3>2. Ref(disk, A, <<a, e>>) = At(disk, A[a], e) /\ <<a, e>> \in Places
      BY <2>2, PlacesAre, RefIs
    <3> QED
      BY <1>2, <1>4, <3>1, <3>2 DEF At
  <2> QED
    BY <1>3, <1>4, <2>1, <2>3, DataFree1Is
<1>7. CASE ~(a < N1) /\ ~(a < N1 + N2)
  <2>1. x \in DataFree2(<<a>>, A[a])
    BY <1>1, <1>7
  <2>2. a = N1 + N2
    BY <1>7, Sizes DEF Addrs
  <2> QED
    BY <1>2, <1>4, <2>1, <2>2, DataFree2Is
<1> QED
  BY <1>5, <1>6, <1>7

\* path_unlink(): the blocks of the tree become those to free.
LEMMA UnlinkStartTree == ASSUME IInv, TreeInv, NEW i \in Inums, UnlinkStart(i) PROVE TreeInv'
<1>1. /\ call[i].op = "none" /\ i \in named /\ named' = named \ {i}
      /\ UNCHANGED <<bits, disk, dinode, file, taken, past>>
  BY DEF UnlinkStart, Idle, History
<1>2. PICK c : c = NewCall("unlink", 0, 0, FALSE, FreeData(Locked(i).addrs))
  OBVIOUS
<1>3. c.op = "unlink" /\ c.frees = FreeData(Locked(i).addrs)
  BY <1>2 DEF NewCall
<1>4. /\ \A j \in Inums : ip'[j] = IF j = i THEN Locked(i) ELSE ip[j]
      /\ \A j \in Inums : call'[j] = IF j = i THEN c ELSE call[j]
  BY <1>2 DEF UnlinkStart, IInv, Shape
<1>5. Locked(i).valid = TRUE /\ Locked(i).addrs = IF ip[i].valid THEN ip[i].addrs ELSE dinode[i].addrs
  BY DEF Locked, IInv, Shape
<1>6. \A j \in Inums \ {i} : Untouched(j)
  BY <1>1, <1>4 DEF Untouched, Unlinking
<1>7. Cached'
  <2>1. ASSUME NEW j \in Inums, j # i PROVE CachedAt(j)'
    <3>1. CachedAt(j) /\ file' = file /\ call'[j] = call[j]
      BY <1>1, <1>4, <2>1 DEF TreeInv, Cached
    <3> QED
      BY <1>6, <2>1, <3>1, SameCached
  <2>2. CachedAt(i)'
    BY <1>1, <1>3, <1>4, <1>5 DEF CachedAt
  <2> QED
    BY <2>1, <2>2 DEF Cached
<1>8. \A j \in Inums \ {i} : Vec'[j] = Vec[j] /\ Pend'[j] = Pend[j]
  BY <1>6, SameVec
<1>9. /\ Vec[i] = Locked(i).addrs /\ Pend[i] = {}
      /\ Vec'[i] = NoAddrs /\ Pend'[i] = FreeData(Vec[i])
  <2>1. /\ Vec[i] = Locked(i).addrs /\ Pend[i] = {}
    BY <1>1, <1>5 DEF Vec, Pend, Unlinking
  <2>2. Vec'[i] = NoAddrs /\ Pend'[i] = FreeData(Locked(i).addrs)
    BY <1>3, <1>4 DEF Vec, Pend, Unlinking
  <2> QED
    BY <2>1, <2>2
<1> SUFFICES ASSUME Clean(past') PROVE Ownership(disk, Vec', Pend', bits, taken)
  BY <1>1, <1>7 DEF TreeInv
<1>10. Ownership(disk, Vec, Pend, bits, taken)
  BY <1>1 DEF TreeInv
<1>11. Owned(disk, Vec, Pend, bits, taken)
  BY <1>10 DEF Ownership
<1>12. PICK A : A = Vec[i]
  OBVIOUS
<1>13. Sole(A) /\ \A s \in Places : Ref(disk, A, s) \in Blocks
  BY <1>11, <1>12, VecIs, OwnedSole, OwnedRef
<1>14. \A x \in FreeData(A) : Branch(A, x)
  BY <1>13, FreeDataIs
<1>15. ASSUME NEW j \in Inums, NEW s \in Places, NEW b \in Words, Has(disk, Vec', Pend', j, s, b)
       PROVE  Has(disk, Vec, Pend, j, s, b) /\ b \notin taken /\ b - DataStart \in bits
  <2>1. Has(disk, Vec, Pend, j, s, b)
    <3>1. CASE j # i
      BY <1>8, <1>15, <3>1 DEF Has
    <3>2. CASE j = i
      <4>1. Ref(disk, NoAddrs, s) = 0
        BY NoneHas
      <4>2. b # 0 /\ <<s, b>> \in FreeData(A)
        BY <1>9, <1>12, <1>15, <3>2, <4>1 DEF Has
      <4>3. b = Ref(disk, A, s)
        BY <1>14, <4>2 DEF Branch
      <4> QED
        BY <1>12, <3>2, <4>2, <4>3 DEF Has
    <3> QED
      BY <3>1, <3>2
  <2> QED
    BY <1>11, <2>1 DEF Owned
<1>16. PICK V2, P2 : V2 = Vec' /\ P2 = Pend'
  OBVIOUS
<1>17. Owned(disk, V2, P2, bits, taken)
  BY <1>11, <1>15, <1>16, OwnedSub
<1>18. \A j \in Inums : Pend'[j] \subseteq Places \X Words
  <2>1. FreeData(A) \subseteq Places \X Words
    <3>1. \A s \in Places : Ref(disk, A, s) \in Words
      BY <1>13, Numbers
    <3> QED
      BY <1>14, <3>1 DEF Branch
  <2> QED
    BY <1>8, <1>9, <1>10, <1>12, <2>1 DEF Ownership
<1> QED
  BY <1>10, <1>16, <1>17, <1>18 DEF Ownership

-----------------------------------------------------------------------------
(* Restarts.                                                               *)

\* The trees that a restart finds under the names are no larger than those in memory.
LEMMA RebootVec ==
  ASSUME IInv, TreeInv, NEW im, RebootFrom(im)
  PROVE  /\ Cached' /\ \A j \in Inums : Pend'[j] = {}
         /\ \A j \in Inums : \A a \in Addrs : Vec'[j][a] \in {0, Vec[j][a]}
<1>1. \A j \in Inums : /\ ip'[j].valid = FALSE /\ file'[j].open = FALSE /\ call'[j].op = "none"
  BY DEF RebootFrom, NoInode, Closed, NoCall, NewCall
<1>2. UNCHANGED <<dinode, named>>
  BY DEF RebootFrom
<1>3. Cached'
  BY <1>1 DEF Cached, CachedAt, Unlinking
<1>4. \A j \in Inums : /\ Pend'[j] = {}
                       /\ Vec'[j] = IF j \in named THEN dinode[j].addrs ELSE NoAddrs
  BY <1>1, <1>2 DEF Pend, Vec, Unlinking
<1>5. ASSUME NEW j \in Inums, NEW a \in Addrs PROVE Vec'[j][a] \in {0, Vec[j][a]}
  <2>1. CASE j \notin named
    BY <1>4, <2>1 DEF NoAddrs
  <2>2. CASE j \in named
    <3>1. CachedAt(j)
      BY DEF TreeInv, Cached
    <3>2. Vec[j] = IF ip[j].valid THEN ip[j].addrs ELSE dinode[j].addrs
      BY <2>2, <3>1 DEF Vec, CachedAt
    <3> QED
      BY <1>4, <2>2, <3>1, <3>2 DEF CachedAt
  <2> QED
    BY <2>1, <2>2
<1> QED
  BY <1>3, <1>4, <1>5

\* A restart from an image in which the trees under V are owned.
LEMMA RebootOwned ==
  ASSUME TreeInv, Cached', NEW im, RebootFrom(im), NEW V, Ownership(im.disk, V, Pend, im.bits, taken),
         \A j \in Inums : Pend'[j] = {},
         \A j \in Inums : \A a \in Addrs : Vec'[j][a] \in {0, V[j][a]}
  PROVE  TreeInv'
<1>1. disk' = im.disk /\ bits' = im.bits /\ taken' = {}
  BY DEF RebootFrom
<1>2. PICK V2, P2, d : V2 = Vec' /\ P2 = Pend' /\ d = im.disk
  OBVIOUS
<1>3. Ownership(d, V2, P2, im.bits, {})
  <2>1. \A j \in Inums : \A a \in Addrs : V2[j][a] \in {0, V[j][a]}
    BY <1>2
  <2>2. \A j \in Inums : P2[j] \subseteq Pend[j]
    BY <1>2
  <2>3. Ownership(d, V, Pend, im.bits, taken)
    BY <1>2
  <2> QED
    BY <2>1, <2>2, <2>3, OwnershipLess
<1> QED
  BY <1>1, <1>2, <1>3 DEF TreeInv

\* Power cut, or reset after a panic.
LEMMA RebootTree == ASSUME IInv, TreeInv, Reboot PROVE TreeInv'
<1>1. RebootFrom(Image)
  BY DEF Reboot
<1>2. Image.disk = disk /\ Image.bits = bits /\ Image.past = past
  BY ImageIs DEF IInv
<1>3. /\ Cached' /\ \A j \in Inums : Pend'[j] = {}
      /\ \A j \in Inums : \A a \in Addrs : Vec'[j][a] \in {0, Vec[j][a]}
  BY <1>1, RebootVec
<1>4. disk' = disk /\ bits' = bits /\ taken' \subseteq taken /\ past \subseteq past'
  BY <1>1, <1>2 DEF RebootFrom
<1> QED
  BY <1>3, <1>4, QuietStep

\* The inode of a copy loop has its addresses in memory.
LEMMA LoopVec ==
  ASSUME TreeInv, NEW i \in Inums, InLoop(i)
  PROVE  Vec[i] = ip[i].addrs /\ ip[i].valid /\ ~Unlinking(i) /\ CachedAt(i)
<1>1. CachedAt(i) /\ call[i].op \in {"read", "write"}
  BY DEF TreeInv, Cached, InLoop
<1> QED
  BY <1>1 DEF CachedAt, Vec, Unlinking

\* inode_locate_block() replaces no address, whatever the disk is like, and its images
\* know what it has come by.
LEMMA LocateKeeps ==
  ASSUME Image \in Images, NEW A \in [Addrs -> Words], NEW path, IsPath(path),
         NEW r, r = Locate(A, path)
  PROVE  Told(r) /\ \A x \in Addrs : A[x] # 0 => r.addrs[x] = A[x]
<1>1. PICK r0, r1, r2, r3, u2, u1 : Course(A, path, r, r0, r1, r2, r3, u2, u1)
  BY LocateSteps
<1>2. /\ Told(r) /\ r1 = Visit(r0, A[path[1]]) /\ r0 \in Walks
      /\ r.addrs = [A EXCEPT ![path[1]] = r1.blk]
  BY <1>1 DEF Course, Down
<1>3. A[path[1]] # 0 => r1.blk = A[path[1]]
  BY <1>2 DEF Visit, Walks
<1>4. path[1] \in Addrs
  BY PathShape
<1> QED
  BY <1>2, <1>3, <1>4

\* A power cut between two disk writes of locate_block().
LEMMA RebootInsideTree == ASSUME IInv, TreeInv, NEW i \in Inums, RebootInside(i) PROVE TreeInv'
<1>1. InLoop(i) /\ PathAt(i) # <<>>
  BY DEF RebootInside
<1>2. IsPath(PathAt(i)) /\ Image \in Images
  BY <1>1, PathAtIs, ImageIs DEF IInv
<1>3. PICK path, V : path = PathAt(i) /\ V = Vec
  OBVIOUS
<1>4. V \in Vecs /\ V[i] \in [Addrs -> Words] /\ V[i] = ip[i].addrs /\ disk \in Disks
  BY <1>1, <1>3, VecIs, LoopVec DEF Vecs
<1>5. PICK r : r = Locate(V[i], path)
  OBVIOUS
<1>6. r = Locate(ip[i].addrs, PathAt(i))
  BY <1>3, <1>4, <1>5
<1>7. Walk(r)
  BY <1>2, <1>3, <1>4, <1>5, LocateIs
<1>8. Told(r) /\ \A x \in Addrs : V[i][x] # 0 => r.addrs[x] = V[i][x]
  BY <1>2, <1>3, <1>4, <1>5, LocateKeeps
<1>9. PICK k \in DOMAIN r.images : RebootFrom(r.images[k])
  BY <1>6 DEF RebootInside
<1>10. k \in 1 .. Len(r.images) /\ past \subseteq r.images[k].past
  <2>1. r.images \in Seq(Images)
    BY <1>7 DEF Walk, Walks
  <2>2. k \in 1 .. Len(r.images)
    BY <1>9, <2>1
  <2> QED
    BY <1>7, <2>2 DEF Walk, Remembers
<1>11. PICK im : im = r.images[k]
  OBVIOUS
<1>12. RebootFrom(im) /\ past \subseteq im.past
  BY <1>9, <1>10, <1>11
<1>13. /\ Cached' /\ \A j \in Inums : Pend'[j] = {}
       /\ \A j \in Inums : \A a \in Addrs : Vec'[j][a] \in {0, V[j][a]}
  BY <1>3, <1>12, RebootVec
<1> SUFFICES ASSUME Clean(im.past) PROVE TreeInv'
  <2>1. Clean(past') => Clean(im.past)
    BY <1>12, StillClean DEF RebootFrom
  <2> QED
    BY <1>13, <2>1 DEF TreeInv
<1>14. Ownership(disk, V, Pend, bits, taken)
  <2>1. Clean(past)
    BY <1>12, StillClean
  <2> QED
    BY <1>3, <2>1 DEF TreeInv
<1>15. CASE KeepsTrees(V, im)
  <2>1. Ownership(im.disk, V, Pend, im.bits, taken)
    BY <1>14, <1>15, OwnershipKept
  <2> QED
    BY <1>12, <1>13, <2>1, RebootOwned
<1>16. CASE im.disk = disk /\ bits \subseteq im.bits
  BY <1>15, <1>16 DEF KeepsTrees, DataKept
<1>17. CASE im.past = r.last.past /\ ~KeepsTrees(V, im)
  <2>1. Clean(r.last.past)
    BY <1>17
  <2>2. Owned(disk, V, Pend, bits, taken)
    BY <1>14 DEF Ownership
  <2>3. Located(V, i, path, r)
    BY <1>2, <1>3, <1>4, <1>5, <2>1, <2>2, LocatedAt
  <2>4. /\ Grown(V[i], r.last.disk, r.addrs, r.last.bits) /\ bits \subseteq r.last.bits
        /\ OthersKept(V, i, r.last.disk) /\ im.disk = r.last.disk /\ im.bits = r.last.bits
    BY <1>10, <1>11, <1>17, <2>3 DEF Located, OthersKept
  <2>5. PICK V2 : V2 = [V EXCEPT ![i] = r.addrs]
    OBVIOUS
  <2>6. V2[i] = r.addrs /\ \A j \in Inums \ {i} : V2[j] = V[j]
    BY <1>4, <2>5 DEF Vecs
  <2>7. Grown(V[i], im.disk, r.addrs, im.bits) /\ bits \subseteq im.bits /\ OthersKept(V, i, im.disk)
    BY <2>4
  <2>8. Ownership(im.disk, V2, Pend, im.bits, taken)
    BY <1>4, <1>14, <2>6, <2>7, OwnershipGrown
  <2>9. \A j \in Inums : \A a \in Addrs : Vec'[j][a] \in {0, V2[j][a]}
    BY <1>8, <1>13, <2>6
  <2> QED
    BY <1>12, <1>13, <2>8, <2>9, RebootOwned
<1>18. \/ im.disk = disk /\ bits \subseteq im.bits
       \/ im.past = r.last.past
  BY <1>8, <1>10, <1>11 DEF Told
<1> QED
  BY <1>15, <1>16, <1>17, <1>18

\* A round of a copy loop: addresses and the total of its call change.
LEMMA TransferVec ==
  ASSUME IInv, TreeInv, NEW i \in Inums, InLoop(i), NEW R,
         \A x \in Addrs : ip[i].addrs[x] # 0 => R[x] = ip[i].addrs[x],
         ip'[i].addrs = R /\ ip'[i].valid = ip[i].valid,
         \A j \in Inums \ {i} : ip'[j] = ip[j],
         \A j \in Inums : call'[j].op = call[j].op /\ call'[j].frees = call[j].frees,
         UNCHANGED <<dinode, named, file>>
  PROVE  /\ Cached' /\ Vec'[i] = R /\ \A j \in Inums \ {i} : Vec'[j] = Vec[j]
         /\ \A j \in Inums : Pend'[j] = Pend[j]
<1>1. \A j \in Inums \ {i} : Untouched(j)
  BY DEF Untouched, Unlinking
<1>2. ip[i].valid /\ ~Unlinking(i) /\ CachedAt(i)
  BY LoopVec
<1>3. ASSUME NEW j \in Inums, j # i PROVE CachedAt(j)'
  <2>1. CachedAt(j) /\ call'[j].op = call[j].op /\ file'[j] = file[j]
    BY DEF TreeInv, Cached
  <2> QED
    BY <1>1, <1>3, <2>1, SameCached
<1>4. CachedAt(i)'
  <2>1. call'[i].op = call[i].op /\ file'[i] = file[i] /\ named' = named /\ dinode'[i] = dinode[i]
    OBVIOUS
  <2>2. ip'[i].valid /\ ~Unlinking(i)'
    BY <1>2, <2>1 DEF Unlinking
  <2>3. i \in named => \A a \in Addrs : dinode'[i].addrs[a] \in {0, ip'[i].addrs[a]}
    <3>1. i \in named => \A a \in Addrs : dinode[i].addrs[a] \in {0, ip[i].addrs[a]}
      BY <1>2 DEF CachedAt
    <3> QED
      BY <2>1, <3>1
  <2> QED
    BY <2>1, <2>2, <2>3 DEF CachedAt
<1>5. Cached'
  BY <1>3, <1>4 DEF Cached
<1>6. \A j \in Inums \ {i} : Vec'[j] = Vec[j] /\ Pend'[j] = Pend[j]
  BY <1>1, SameVec
<1>7. Vec'[i] = R /\ Pend'[i] = Pend[i]
  <2>1. ip'[i].valid /\ ~Unlinking(i)' /\ ~Unlinking(i)
    BY <1>2 DEF Unlinking
  <2> QED
    BY <2>1 DEF Vec, Pend
<1> QED
  BY <1>5, <1>6, <1>7

\* A round of inode_read_data() or inode_write_data(), its panics included.
LEMMA TransferTree == ASSUME IInv, TreeInv, NEW i \in Inums, Transfer(i) PROVE TreeInv'
<1>1. InLoop(i) /\ UNCHANGED <<dinode, named, file, taken>>
  BY DEF Transfer
<1>2. CASE PathAt(i) = <<>>
  <2>1. UNCHANGED <<bits, disk, ip, call, past>>
    BY <1>2 DEF Transfer
  <2>2. Cached' /\ Vec' = Vec /\ Pend' = Pend
    BY <1>1, <2>1, InodesKept
  <2> QED
    BY <1>1, <2>1, <2>2 DEF TreeInv
<1>3. CASE PathAt(i) # <<>>
  <2>1. IsPath(PathAt(i)) /\ Image \in Images
    BY <1>1, <1>3, PathAtIs, ImageIs DEF IInv
  <2>2. PICK path, V : path = PathAt(i) /\ V = Vec
    OBVIOUS
  <2>3. V \in Vecs /\ V[i] \in [Addrs -> Words] /\ V[i] = ip[i].addrs /\ disk \in Disks
    BY <1>1, <2>2, VecIs, LoopVec DEF Vecs
  <2>4. PICK r : r = Locate(V[i], path)
    OBVIOUS
  <2>5. r = Locate(ip[i].addrs, PathAt(i))
    BY <2>2, <2>3, <2>4
  <2>6. Walk(r) /\ (r.err = "no" => r.blk \in Blocks)
    BY <2>1, <2>2, <2>3, <2>4, LocateIs
  <2>7. \A x \in Addrs : V[i][x] # 0 => r.addrs[x] = V[i][x]
    BY <2>1, <2>2, <2>3, <2>4, LocateKeeps
  <2>8. r.last \in Images /\ r.addrs \in [Addrs -> Words] /\ past \subseteq r.last.past
    BY <2>6 DEF Walk, Walks, Remembers
  <2>9. PICK im : /\ bits' = im.bits /\ disk' = im.disk /\ past' = im.past
                  /\ \/ im = r.last
                     \/ r.err = "no" /\ im = Filled(i, r.last, r.blk)
    BY <1>3, <2>5 DEF Transfer
  <2>10. /\ im.bits = r.last.bits /\ im.past = r.last.past
         /\ \A c \in Blocks \ {r.blk} : im.disk[c] = r.last.disk[c]
    BY <2>6, <2>8, <2>9, FilledIs
  <2>11. \A j \in Inums \ {i} : ip'[j] = ip[j]
    BY <1>3, <2>5 DEF Transfer, IInv, Shape
  <2>12. ip'[i].addrs = r.addrs /\ ip'[i].valid = ip[i].valid
    <3>1. ip' = [ip EXCEPT ![i].addrs = r.addrs]
      BY <1>3, <2>5 DEF Transfer
    <3>2. i \in DOMAIN ip
      BY DEF IInv, Shape
    <3>3. ip[i] \in [valid : BOOLEAN, size : 0 .. MAXSIZE, addrs : [Addrs -> Words]]
      BY DEF IInv, Shape
    <3>4. ip'[i] = [ip[i] EXCEPT !.addrs = r.addrs]
      BY <3>1, <3>2
    <3>5. ip'[i].addrs = r.addrs
      BY <3>3, <3>4
    <3>6. ip'[i].valid = ip[i].valid
      BY <3>3, <3>4, Zenon
    <3> QED
      BY <3>5, <3>6
  <2>13. \A j \in Inums : call'[j].op = call[j].op /\ call'[j].frees = call[j].frees
    <3>1. call' = call \/ call' = [call EXCEPT ![i].total = @ + Round(i)]
      BY <1>3 DEF Transfer
    <3>2. \A j \in Inums : Calls(call[j])
      BY DEF IInv, Shape
    <3>3. call = [j \in Inums |-> call[j]]
      BY DEF IInv, Shape
    <3> QED
      BY <3>1, <3>2, <3>3 DEF Calls
  <2>14. /\ Cached' /\ Vec'[i] = r.addrs /\ \A j \in Inums \ {i} : Vec'[j] = V[j]
         /\ \A j \in Inums : Pend'[j] = Pend[j]
    BY <1>1, <2>2, <2>3, <2>7, <2>11, <2>12, <2>13, TransferVec
  <2> SUFFICES ASSUME Clean(past') PROVE Ownership(disk', Vec', Pend', bits', taken')
    BY <2>14 DEF TreeInv
  <2>15. Clean(r.last.past) /\ Clean(past)
    BY <2>8, <2>9, <2>10, StillClean
  <2>16. Ownership(disk, V, Pend, bits, taken) /\ Owned(disk, V, Pend, bits, taken)
    BY <2>2, <2>15 DEF TreeInv, Ownership
  <2>17. Located(V, i, path, r)
    BY <2>1, <2>2, <2>3, <2>4, <2>15, <2>16, LocatedAt
  <2>18. PICK V2 : V2 = Vec'
    OBVIOUS
  <2>19. V2[i] = r.addrs /\ \A j \in Inums \ {i} : V2[j] = V[j]
    BY <2>14, <2>18
  <2>20. PICK d, bs : d = r.last.disk /\ bs = r.last.bits
    OBVIOUS
  <2>21. Grown(V[i], d, r.addrs, bs) /\ bits \subseteq bs /\ OthersKept(V, i, d)
    BY <2>17, <2>20 DEF Located, OthersKept
  <2>22. Ownership(d, V2, Pend, bs, taken)
    BY <2>3, <2>16, <2>19, <2>21, OwnershipGrown
  <2>23. PICK d2 : d2 = im.disk
    OBVIOUS
  <2>24. Owned(d2, V2, Pend, bs, taken)
    <3>1. Owned(d, V2, Pend, bs, taken) /\ d \in Disks
      BY <2>8, <2>20, <2>22 DEF Ownership, Images, Disks
    <3>2. PICK b : b = r.blk
      OBVIOUS
    <3>3. b # 0 /\ b = Ref(d, V2[i], path) /\ path \in Places \ EntryPlaces
      BY <2>17, <2>19, <2>20, <3>2 DEF Located
    <3>4. \A c \in Blocks \ {b} : d2[c] = d[c]
      BY <2>10, <2>20, <2>23, <3>2
    <3>5. V2 \in Vecs
      <4>1. Vec' \in Vecs
        BY <2>3, <2>8, <2>14 DEF Vecs, Vec
      <4> QED
        BY <4>1, <2>18
    <3> QED
      BY <3>1, <3>3, <3>4, <3>5, OwnedFilled
  <2>25. Ownership(d2, V2, Pend, bs, taken)
    BY <2>22, <2>24 DEF Ownership
  <2>26. Pend' = Pend
    BY <2>14 DEF Pend
  <2> QED
    BY <1>1, <2>9, <2>10, <2>18, <2>20, <2>23, <2>25, <2>26
<1> QED
  BY <1>2, <1>3

-----------------------------------------------------------------------------
(* The theorems.                                                           *)

\* Every step keeps the invariant.
LEMMA NextTree == IInv /\ TreeInv /\ [Next]_vars => TreeInv'
<1> SUFFICES ASSUME IInv, TreeInv, [Next]_vars PROVE TreeInv'
  OBVIOUS
<1>1. CASE UNCHANGED vars
  <2>1. UNCHANGED <<bits, disk, dinode, named, ip, file, call, taken, past>>
    BY <1>1 DEF vars
  <2>2. Cached' /\ Vec' = Vec /\ Pend' = Pend
    BY <2>1, InodesKept
  <2> QED
    BY <2>1, <2>2 DEF TreeInv
<1>2. ASSUME NEW i \in Inums,
             \/ Open(i) \/ Close(i) \/ Evict(i)
             \/ Transfer(i) \/ ReadEnd(i) \/ WriteEnd(i)
             \/ UnlinkStart(i) \/ UnlinkFree(i) \/ UnlinkEnd(i)
             \/ RebootInside(i)
      PROVE  TreeInv'
  BY <1>2, OpenTree, CloseTree, EvictTree, TransferTree, ReadEndTree, WriteEndTree,
     UnlinkStartTree, UnlinkFreeTree, UnlinkEndTree, RebootInsideTree
<1>3. ASSUME NEW i \in Inums, NEW k \in Seeks, Lseek(i, k[2], k[1]) PROVE TreeInv'
  BY <1>3, LseekTree
<1>4. ASSUME NEW i \in Inums, NEW len \in Lens, NEW user \in BOOLEAN,
             WriteStart(i, len, user) \/ WriteRefused(i, len) \/ ReadStart(i, len, user)
      PROVE  TreeInv'
  <2>1. CASE WriteRefused(i, len)
    BY <1>1, <2>1 DEF WriteRefused
  <2> QED
    BY <1>4, <2>1, WriteStartTree, ReadStartTree
<1>5. ASSUME SysAlloc \/ \E b \in Blocks : SysFree(b) PROVE TreeInv'
  BY <1>5, SysAllocTree, SysFreeTree
<1>6. ASSUME Reboot PROVE TreeInv'
  BY <1>6, RebootTree
<1>7. ASSUME NEW e \in Entries, DirWrite(e) PROVE TreeInv'
  BY <1>7, DirWriteTree
<1> QED
  BY <1>1, <1>2, <1>3, <1>4, <1>5, <1>6, <1>7 DEF Next

\* Blocks that inodes have at places of their trees are their own.
LEMMA SoundRefs ==
  ASSUME IInv, Owned(disk, Vec, Pend, bits, taken), NEW R,
         \A x \in R : \E i \in Inums, s \in Places :
           x = <<i, s, Ref(disk, Vec[i], s)>> /\ Ref(disk, Vec[i], s) # 0
  PROVE  Sound(R)
<1>1. PICK V : V = Vec
  OBVIOUS
<1>2. V \in Vecs /\ disk \in Disks /\ Owned(disk, V, Pend, bits, taken)
  BY <1>1, VecIs
<1>3. ASSUME NEW x \in R
      PROVE  \E i \in Inums, s \in Places :
               x = <<i, s, x[3]>> /\ x[3] \in Words /\ Has(disk, V, Pend, i, s, x[3])
  <2>1. PICK i \in Inums, s \in Places :
               x = <<i, s, Ref(disk, Vec[i], s)>> /\ Ref(disk, Vec[i], s) # 0
    BY <1>3
  <2>2. PICK b : b = Ref(disk, V[i], s)
    OBVIOUS
  <2>3. x = <<i, s, b>> /\ b # 0
    BY <1>1, <2>1, <2>2
  <2>4. b \in Blocks /\ Has(disk, V, Pend, i, s, b)
    BY <1>2, <2>2, <2>3, OwnedRef
  <2>5. b \in Words /\ x[3] = b
    BY <2>3, <2>4, Numbers
  <2> QED
    BY <2>3, <2>4, <2>5
<1>4. ASSUME NEW x \in R, NEW y \in R, x[3] = y[3] PROVE x = y
  <2>1. PICK i \in Inums, s \in Places :
               x = <<i, s, x[3]>> /\ x[3] \in Words /\ Has(disk, V, Pend, i, s, x[3])
    BY <1>3
  <2>2. PICK j \in Inums, t \in Places :
               y = <<j, t, y[3]>> /\ y[3] \in Words /\ Has(disk, V, Pend, j, t, y[3])
    BY <1>3
  <2>3. PICK b \in Words : b = x[3] /\ b = y[3]
    BY <1>4, <2>1
  <2>4. i = j /\ s = t
    BY <1>2, <2>1, <2>2, <2>3 DEF Owned
  <2>5. x = <<i, s, b>> /\ y = <<j, t, b>>
    BY <2>1, <2>2, <2>3
  <2> QED
    BY <2>4, <2>5
<1>5. ASSUME NEW x \in R PROVE x[3] > RootBlock /\ x[3] \in Blocks \ taken /\ x[3] - DataStart \in bits
  <2>1. PICK i \in Inums, s \in Places :
               x = <<i, s, x[3]>> /\ x[3] \in Words /\ Has(disk, V, Pend, i, s, x[3])
    BY <1>3
  <2> QED
    BY <1>2, <2>1 DEF Owned
<1> QED
  BY <1>4, <1>5 DEF Sound

\* The trees that memory and the names on the disk show are part of what inodes have.
LEMMA TreeSound == ASSUME IInv, TreeInv PROVE TreesDisjoint
<1> SUFFICES ASSUME Clean(past) PROVE Sound(MemRefs) /\ Sound(DiskRefs)
  BY DEF TreesDisjoint, Clean
<1>1. Owned(disk, Vec, Pend, bits, taken)
  BY DEF TreeInv, Ownership
<1>2. ASSUME NEW x \in MemRefs
      PROVE  \E i \in Inums, s \in Places :
               x = <<i, s, Ref(disk, Vec[i], s)>> /\ Ref(disk, Vec[i], s) # 0
  <2>1. PICK i \in Live : x \in Refs(ip[i].addrs, i)
    BY <1>2 DEF MemRefs
  <2>2. i \in Inums /\ Vec[i] = ip[i].addrs
    BY <2>1 DEF Live, Vec
  <2>3. x \in Refs(Vec[i], i)
    BY <2>1, <2>2
  <2> QED
    BY <2>2, <2>3 DEF Refs
<1>3. ASSUME NEW x \in DiskRefs
      PROVE  \E i \in Inums, s \in Places :
               x = <<i, s, Ref(disk, Vec[i], s)>> /\ Ref(disk, Vec[i], s) # 0
  <2>1. PICK i \in named : x \in Refs(dinode[i].addrs, i)
    BY <1>3 DEF DiskRefs
  <2>2. i \in Inums
    BY DEF IInv, Shape
  <2>3. CachedAt(i)
    BY <2>2 DEF TreeInv, Cached
  <2>4. Vec[i] = IF ip[i].valid THEN ip[i].addrs ELSE dinode[i].addrs
    BY <2>2, <2>3 DEF Vec, CachedAt
  <2>5. PICK A, B : A = Vec[i] /\ B = dinode[i].addrs
    OBVIOUS
  <2>6. \A a \in Addrs : B[a] \in {0, A[a]}
    BY <2>3, <2>4, <2>5 DEF CachedAt
  <2>7. PICK s \in Places : x = <<i, s, Ref(disk, B, s)>> /\ Ref(disk, B, s) # 0
    BY <2>1, <2>5 DEF Refs
  <2>8. Ref(disk, B, s) \in {0, Ref(disk, A, s)}
    BY <2>6, Mono
  <2>9. x = <<i, s, Ref(disk, Vec[i], s)>> /\ Ref(disk, Vec[i], s) # 0
    BY <2>5, <2>7, <2>8
  <2> QED
    BY <2>2, <2>9
<1> QED
  BY <1>1, <1>2, <1>3, SoundRefs

\* Blocks have one owner at all times: in the trees, in what an unlink has still to
\* free, or with a process.
THEOREM TreeInductive == Spec => []TreeInv
<1>1. Init => IInv /\ TreeInv
  BY InitIInv, InitTree
<1>2. (IInv /\ TreeInv) /\ [Next]_vars => (IInv /\ TreeInv)'
  BY NextIInv, NextTree
<1> QED
  BY <1>1, <1>2, PTL DEF Spec

\* No block is in two files, twice in one, free in the bitmap or a process's while it
\* is in a file, in memory or on the disk that a restart would find, as long as the disk
\* has not been full and no block with old words in it has become an entry block.
THEOREM TreesStayDisjoint == Spec => []TreesDisjoint
<1>1. IInv /\ TreeInv => TreesDisjoint
  BY TreeSound
<1> QED
  BY <1>1, Inductive, TreeInductive, PTL
=============================================================================
