------------------------- MODULE InodeContentProofs -------------------------
(***************************************************************************)
(* Proofs that files hold what was written to them, and that the bitmap    *)
(* has a bit set exactly for the blocks in use, for every number of inodes *)
(* and blocks and every size of the tree.                                  *)
(***************************************************************************)
EXTENDS InodeDataProofs

-----------------------------------------------------------------------------
(* The words of files.                                                     *)

\* The words of the largest file, and the place of the block and the word in it of an
\* offset.
Offsets == 0 .. MAXSIZE - 1
PathTo(o) == Path(o \div E)
SlotOf(o) == o % E

\* The word at offset o of the tree under A on disk d.
WordOf(d, A, o) == At(d, Ref(d, A, PathTo(o)), SlotOf(o))

\* What is known of the content C of file i is under A on disk d.
Holds(C, i, d, A) ==
  \A o \in Offsets : C[o] # NoWord => C[o] = Data(i) /\ WordOf(d, A, o) = Data(i)

\* An inode of memory or of a name, and not being freed.
Kept(i) == ~Unlinking(i) /\ (ip[i].valid \/ i \in named)

\* The offsets that a call has transferred.
Moved(i) == call[i].off .. call[i].off + call[i].total - 1

\* Sizes in memory and on the disk agree.  A write starts within the file unless it makes
\* a gap, a read does so and ends there unless it wraps.  Of a file without gaps the words
\* known are those below its size and those of the write under way.
SizedAt(i) ==
  /\ ip[i].valid => ip[i].size = dinode[i].size
  /\ call[i].op = "write" => \A o \in Moved(i) : content[i][o] # NoWord
  /\ call[i].op = "write" /\ i \notin sparse => call[i].off <= dinode[i].size
  /\ call[i].op = "read" =>
       /\ call[i].off <= dinode[i].size
       /\ call[i].off + call[i].len < W => call[i].off + call[i].len <= dinode[i].size
  /\ Kept(i) /\ i \notin sparse => \A o \in Offsets :
       /\ o < dinode[i].size => content[i][o] # NoWord
       /\ content[i][o] # NoWord => o < dinode[i].size \/ (call[i].op = "write" /\ o \in Moved(i))

\* The words known are in the tree, and below the size of a file without gaps the saved
\* addresses lead to them.
IntactAt(i) == Kept(i) => Holds(content[i], i, disk, Vec[i])
SavedAt(i) == i \in named \ sparse =>
  \A o \in Offsets : o < dinode[i].size => dinode[i].addrs[PathTo(o)[1]] # 0

ContentInv ==
  /\ \A i \in Inums : SizedAt(i)
  /\ Clean(past) => \A i \in Inums : IntactAt(i) /\ SavedAt(i)

\* The number of the block at a place for data.
BlockAt(p) == IF Len(p) = 1 THEN p[1]
              ELSE IF Len(p) = 2 THEN N1 + (p[1] - N1) * E + p[2]
              ELSE N1 + N2 * E + p[2] * E + p[3]

\* inode_locate_block() tells block numbers apart.
LEMMA PathBlock ==
  ASSUME NEW bn \in Nat, bn < MaxBlocks
  PROVE  BlockAt(Path(bn)) = bn
<1> DEFINE c == bn - N1
           d == c - N2 * E
<1>1. c \in Int /\ d \in Int /\ N1 \in Nat /\ N2 * E \in Nat /\ E * E \in Nat /\ N2 \in Nat
      /\ E \in Nat /\ E >= 1
  BY Sizes
<1>0. ASSUME NEW x \in Nat PROVE x = (x \div E) * E + (x % E)
  BY <1>1
<1>2. CASE c < 0
  <2>1. Path(bn) = <<bn>>
    BY <1>2 DEF Path
  <2> QED
    BY <2>1 DEF BlockAt
<1>3. CASE c >= 0 /\ d < 0
  <2>1. Path(bn) = <<N1 + c \div E, c % E>>
    BY <1>3, <1>1 DEF Path
  <2>2. c \in Nat /\ c = (c \div E) * E + (c % E)
    BY <1>0, <1>1, <1>3
  <2>3. PICK q \in Nat, m \in Nat : q = c \div E /\ m = c % E
    BY <1>1, <2>2
  <2>4. PICK a \in Nat : a = N1 + q /\ a - N1 = q
    BY <1>1
  <2>5. BlockAt(<<a, m>>) = N1 + (a - N1) * E + m
    BY DEF BlockAt
  <2>6. N1 + q * E + m = N1 + c
    BY <2>2, <2>3, <1>1
  <2> QED
    BY <1>1, <2>1, <2>3, <2>4, <2>5, <2>6
<1>4. CASE c >= 0 /\ d >= 0
  <2>0. d < E * E
    BY <1>1 DEF MaxBlocks
  <2>1. Path(bn) = <<N1 + N2, d \div E, d % E>>
    BY <1>4, <1>1, <2>0 DEF Path
  <2>2. d \in Nat /\ d = (d \div E) * E + (d % E)
    BY <1>0, <1>1, <1>4
  <2>3. PICK q \in Nat, m \in Nat : q = d \div E /\ m = d % E
    BY <1>1, <2>2
  <2>5. BlockAt(<<N1 + N2, q, m>>) = N1 + N2 * E + q * E + m
    BY DEF BlockAt
  <2>6. N1 + N2 * E + q * E + m = N1 + N2 * E + d
    BY <2>2, <2>3, <1>1
  <2> QED
    BY <1>1, <2>1, <2>3, <2>5, <2>6
<1> QED
  BY <1>1, <1>2, <1>3, <1>4

\* An offset within the largest file is in a data block, and offsets with the same place
\* are in the same block.
LEMMA OffsetIs ==
  /\ \A o \in Offsets : /\ o \in Nat /\ IsPath(PathTo(o)) /\ PathTo(o) \in Places \ EntryPlaces
                        /\ PathTo(o)[1] \in Addrs /\ SlotOf(o) \in Entries
  /\ \A o, q \in Offsets : PathTo(o) = PathTo(q) => o \div E = q \div E
<1>1. MAXSIZE \in Nat
  BY Sizes
<1>2. ASSUME NEW o \in Offsets
      PROVE  o \in Nat /\ o \div E \in Nat /\ o \div E < MaxBlocks /\ SlotOf(o) \in Entries
  <2>1. o \in Nat /\ o < MAXSIZE
    BY <1>1 DEF Offsets
  <2> QED
    BY <2>1, BlockOf DEF SlotOf
<1>3. ASSUME NEW o \in Offsets PROVE IsPath(PathTo(o)) /\ BlockAt(PathTo(o)) = o \div E
  <2>1. PICK bn \in Nat : bn = o \div E /\ bn < MaxBlocks
    BY <1>2
  <2> QED
    BY <2>1, PathOf, PathBlock DEF PathTo
<1>4. ASSUME NEW p, IsPath(p) PROVE p \in Places \ EntryPlaces /\ p[1] \in Addrs
  <2>1. CASE \E a \in 0 .. N1 - 1 : p = <<a>>
    BY <2>1, LeafPlaces
  <2>2. CASE \E a \in N1 .. N1 + N2 - 1, e \in Entries : p = <<a, e>>
    BY <2>2, LeafPlaces
  <2>3. CASE \E e, f \in Entries : p = <<N1 + N2, e, f>>
    <3>1. PICK e \in Entries, f \in Entries : p = <<N1 + N2, e, f>>
      BY <2>3
    <3>2. p[1] = N1 + N2
      BY <3>1
    <3> QED
      BY <3>1, <3>2, LeafPlaces, PlacesAre
  <2> QED
    BY <1>4, <2>1, <2>2, <2>3 DEF IsPath
<1>5. \A o, q \in Offsets : PathTo(o) = PathTo(q) => o \div E = q \div E
  <2> SUFFICES ASSUME NEW o \in Offsets, NEW q \in Offsets, PathTo(o) = PathTo(q)
               PROVE  o \div E = q \div E
    OBVIOUS
  <2>1. BlockAt(PathTo(o)) = o \div E /\ BlockAt(PathTo(q)) = q \div E
    BY <1>3
  <2> QED
    BY <2>1
<1> QED
  BY <1>2, <1>3, <1>4, <1>5

\* Division with a rest.
LEMMA Division ==
  ASSUME NEW q \in Nat, NEW m \in Entries, NEW o \in Nat, o = q * E + m
  PROVE  o \div E = q /\ o % E = m
<1>1. E \in Nat /\ E >= 1 /\ m \in Nat /\ m < E
  BY Sizes DEF Entries
<1>2. PICK x \in Nat, y \in Nat : x = o \div E /\ y = o % E /\ o = x * E + y /\ y < E
  <2>1. o \div E \in Nat /\ o % E \in Nat /\ o % E < E
    BY <1>1
  <2>2. o = (o \div E) * E + (o % E)
    BY <1>1
  <2> QED
    BY <2>1, <2>2
<1>3. CASE x > q
  <2>1. PICK d \in Nat : x = q + 1 + d
    BY <1>3
  <2>2. x * E = q * E + E + d * E
    BY <2>1, <1>1
  <2>3. d * E \in Nat /\ q * E \in Nat
    BY <1>1
  <2> QED
    BY <1>1, <1>2, <2>2, <2>3
<1>4. CASE q > x
  <2>1. PICK d \in Nat : q = x + 1 + d
    BY <1>4
  <2>2. q * E = x * E + E + d * E
    BY <2>1, <1>1
  <2>3. d * E \in Nat /\ x * E \in Nat
    BY <1>1
  <2> QED
    BY <1>1, <1>2, <2>2, <2>3
<1>5. CASE x = q
  <2>1. q * E \in Nat
    BY <1>1
  <2> QED
    BY <1>1, <1>2, <1>5, <2>1
<1> QED
  BY <1>2, <1>3, <1>4, <1>5

\* The words of a round are those of its block at the words of its span.
LEMMA RoundWords ==
  ASSUME IInv, NEW i \in Inums, InLoop(i), PathAt(i) # <<>>
  PROVE  \A o \in Offsets : o \in Pos(i) .. Pos(i) + Round(i) - 1
                              <=> PathTo(o) = PathAt(i) /\ SlotOf(o) \in Span(i)
<1>1. /\ Pos(i) \in Nat /\ Round(i) \in Nat /\ Round(i) > 0 /\ Round(i) <= E - (Pos(i) % E)
      /\ Pos(i) % E \in Entries
  BY RoundIs
<1>2. Pos(i) + Round(i) <= MAXSIZE
  BY PathAtIs
<1>3. E \in Nat /\ E >= 1 /\ MAXSIZE \in Nat
  BY Sizes
<1>4. PICK p \in Nat, n \in Nat : p = Pos(i) /\ n = Round(i)
  BY <1>1
<1>5. p \in Offsets /\ PathAt(i) = PathTo(p)
  BY <1>1, <1>2, <1>3, <1>4 DEF Offsets, PathAt, PathTo
<1>6. PICK x \in Nat, m \in Nat : x = p \div E /\ m = p % E /\ p = x * E + m /\ m < E
  <2>1. p \div E \in Nat /\ p % E \in Nat /\ p % E < E
    BY <1>3
  <2>2. p = (p \div E) * E + (p % E)
    BY <1>3
  <2> QED
    BY <2>1, <2>2
<1>7. n > 0 /\ m + n <= E /\ Span(i) = m .. m + n - 1
  <2>1. Span(i) = m .. m + n - 1
    BY <1>4, <1>6 DEF Span
  <2>2. n > 0 /\ n <= E - m
    BY <1>1, <1>4, <1>6, Zenon
  <2> QED
    BY <1>3, <2>1, <2>2
<1>8. ASSUME NEW o \in Offsets, o \in p .. p + n - 1 PROVE PathTo(o) = PathTo(p) /\ SlotOf(o) \in Span(i)
  <2>1. PICK k \in Nat : o = p + k /\ k < n
    BY <1>8
  <2>2. m + k \in Nat /\ m + k < E /\ x * E \in Nat
    BY <1>3, <1>7, <2>1
  <2>3. m + k \in Entries
    BY <1>3, <2>2 DEF Entries
  <2>4. o = x * E + (m + k) /\ o \in Nat
    BY <1>6, <2>1, <2>2
  <2>5. o \div E = x /\ o % E = m + k
    BY <2>3, <2>4, Division
  <2>6. m + k \in Span(i)
    BY <1>7, <2>1
  <2> QED
    BY <1>6, <2>5, <2>6 DEF PathTo, SlotOf
<1>9. ASSUME NEW o \in Offsets, PathTo(o) = PathTo(p), SlotOf(o) \in Span(i) PROVE o \in p .. p + n - 1
  <2>1. o \in Nat /\ o \div E = x
    BY <1>5, <1>6, <1>9, OffsetIs
  <2>2. o = (o \div E) * E + (o % E)
    BY <1>3, <2>1
  <2>3. PICK y \in Nat : y = o % E /\ y \in m .. m + n - 1
    BY <1>7, <1>9, <2>1, <1>3 DEF SlotOf
  <2>4. o = x * E + y /\ x * E \in Nat
    BY <1>3, <2>1, <2>2, <2>3
  <2> QED
    BY <1>6, <2>3, <2>4
<1> QED
  BY <1>4, <1>5, <1>8, <1>9

\* A word of data is a word.
LEMMA NoDataWord == \A i \in Inums : Data(i) # NoWord
<1>1. \A i \in Inums : Data(i) \in Words
  BY Numbers
<1>2. \A w \in Words : w >= 0
  BY DEF Words
<1> QED
  BY <1>1, <1>2 DEF NoWord

\* A word of data is no 0, so a block is there.
LEMMA WordThere ==
  ASSUME NEW i \in Inums, NEW d, NEW A, NEW o, WordOf(d, A, o) = Data(i)
  PROVE  Ref(d, A, PathTo(o)) # 0 /\ WordOf(d, A, o) = d[Ref(d, A, PathTo(o))][SlotOf(o)]
<1>1. Data(i) # 0
  BY Numbers, Sizes DEF Inums
<1> QED
  BY <1>1 DEF WordOf, At

\* The block at a place hangs on one address.
LEMMA RefTop ==
  ASSUME NEW d, NEW A, NEW B, NEW s \in Places, A[s[1]] = B[s[1]]
  PROVE  Ref(d, A, s) = Ref(d, B, s)
<1>1. CASE \E a \in Addrs : s = <<a>>
  BY <1>1, RefIs
<1>2. CASE \E a \in N1 .. N1 + N2, e \in Entries : s = <<a, e>>
  BY <1>2, RefIs
<1>3. CASE \E e, f \in Entries : s = <<N1 + N2, e, f>>
  <2>1. PICK a, e, f : s = <<a, e, f>>
    BY <1>3
  <2>2. A[a] = B[a]
    BY <2>1
  <2>3. Ref(d, A, s) = At(d, At(d, A[a], e), f) /\ Ref(d, B, s) = At(d, At(d, B[a], e), f)
    BY <2>1, RefIs
  <2> QED
    BY <2>2, <2>3
<1> QED
  BY <1>1, <1>2, <1>3, PlaceCases

\* Where there is a block, there is an address.
LEMMA TopThere ==
  ASSUME NEW d, NEW A, NEW s \in Places, Ref(d, A, s) # 0
  PROVE  A[s[1]] # 0
<1>1. CASE \E a \in Addrs : s = <<a>>
  BY <1>1, RefIs
<1>2. CASE \E a \in N1 .. N1 + N2, e \in Entries : s = <<a, e>>
  <2>1. PICK a, e : s = <<a, e>>
    BY <1>2
  <2>2. Ref(d, A, s) = At(d, A[a], e) /\ s[1] = a
    BY <2>1, RefIs
  <2> QED
    BY <2>2 DEF At
<1>3. CASE \E e, f \in Entries : s = <<N1 + N2, e, f>>
  <2>1. PICK a, e, f : s = <<a, e, f>>
    BY <1>3
  <2>2. Ref(d, A, s) = At(d, At(d, A[a], e), f) /\ s[1] = a
    BY <2>1, RefIs
  <2> QED
    BY <2>2 DEF At
<1> QED
  BY <1>1, <1>2, <1>3, PlaceCases

\* Less is known, and the words known hang on the same addresses.
LEMMA HoldsLess ==
  ASSUME NEW C, NEW i \in Inums, NEW d, NEW A, Holds(C, i, d, A), NEW B, NEW C2,
         \A o \in Offsets : C2[o] # NoWord => C2[o] = C[o] /\ B[PathTo(o)[1]] = A[PathTo(o)[1]]
  PROVE  Holds(C2, i, d, B)
<1> SUFFICES ASSUME NEW o \in Offsets, C2[o] # NoWord
             PROVE  C2[o] = Data(i) /\ WordOf(d, B, o) = Data(i)
  BY DEF Holds
<1>1. C[o] = Data(i) /\ WordOf(d, A, o) = Data(i)
  BY DEF Holds
<1>2. PICK s \in Places : s = PathTo(o)
  BY OffsetIs
<1>3. A[s[1]] = B[s[1]]
  BY <1>2
<1>4. Ref(d, A, s) = Ref(d, B, s)
  BY <1>3, RefTop
<1> QED
  BY <1>1, <1>2, <1>4 DEF WordOf

\* Nothing is known.
LEMMA HoldsNone ==
  ASSUME NEW C, NEW i, NEW d, NEW A, \A o \in Offsets : C[o] = NoWord
  PROVE  Holds(C, i, d, A)
BY DEF Holds

\* The tree has grown and the data blocks are as before.
LEMMA HoldsGrown ==
  ASSUME NEW V, NEW j \in Inums, NEW C, Holds(C, j, disk, V[j]), NEW D, NEW R, DataKept(V, D),
         \A s \in Places : Ref(disk, V[j], s) # 0 => Ref(D, R, s) = Ref(disk, V[j], s)
  PROVE  Holds(C, j, D, R)
<1> SUFFICES ASSUME NEW o \in Offsets, C[o] # NoWord
             PROVE  C[o] = Data(j) /\ WordOf(D, R, o) = Data(j)
  BY DEF Holds
<1>1. C[o] = Data(j) /\ WordOf(disk, V[j], o) = Data(j)
  BY DEF Holds
<1>2. PICK s \in Places \ EntryPlaces : s = PathTo(o)
  BY OffsetIs
<1>3. PICK b : b = Ref(disk, V[j], s)
  OBVIOUS
<1>4. b # 0 /\ disk[b][SlotOf(o)] = Data(j)
  BY <1>1, <1>2, <1>3, WordThere
<1>5. Ref(D, R, s) = b /\ D[b] = disk[b]
  BY <1>3, <1>4 DEF DataKept
<1>6. WordOf(D, R, o) = D[b][SlotOf(o)]
  BY <1>2, <1>4, <1>5 DEF WordOf, At
<1> QED
  BY <1>1, <1>4, <1>5, <1>6

\* Disk d2 is d but for the words S of block b, which are file i's.
Rewritten(d, d2, i, b, S) ==
  /\ \A c \in Blocks \ {b} : d2[c] = d[c]
  /\ \A e \in Entries : d2[b][e] = IF e \in S THEN Data(i) ELSE d[b][e]

\* Data is written to the block at place p of inode i: the trees stay.
LEMMA RefsRewritten ==
  ASSUME NEW d \in Disks, NEW V \in Vecs, NEW P, NEW bs, NEW tk, Owned(d, V, P, bs, tk),
         NEW i \in Inums, NEW p \in Places \ EntryPlaces, NEW b, b = Ref(d, V[i], p), b # 0,
         NEW d2, \A c \in Blocks \ {b} : d2[c] = d[c], NEW j \in Inums
  PROVE  /\ \A s \in Places : Ref(d2, V[j], s) = Ref(d, V[j], s)
         /\ \A s \in Places : Ref(d, V[j], s) = b => j = i /\ s = p
         /\ \A s \in Places : Ref(d, V[j], s) \in Blocks
<1>1. b \in Blocks /\ b \in Words /\ Has(d, V, P, i, p, b)
  BY OwnedRef, Numbers
<1>2. ASSUME NEW s \in Places, Ref(d, V[j], s) = b PROVE j = i /\ s = p
  <2>1. Has(d, V, P, j, s, b)
    BY <1>2 DEF Has
  <2> QED
    BY <1>1, <2>1 DEF Owned
<1>3. \A s \in Places : Ref(d, V[j], s) \in Blocks
  BY OwnedRef
<1>4. \A q \in EntryPlaces : d2[Ref(d, V[j], q)] = d[Ref(d, V[j], q)]
  BY <1>2, <1>3, PlacesAre
<1>5. PICK A : A = V[j]
  OBVIOUS
<1>6. \A s \in Places : Ref(d2, A, s) = Ref(d, A, s)
  BY <1>4, <1>5, Loose
<1> QED
  BY <1>2, <1>3, <1>5, <1>6

\* Block b is for data, at place p of inode i.
Target(d, V, P, bs, tk, i, p, b) ==
  /\ d \in Disks /\ V \in Vecs /\ Owned(d, V, P, bs, tk)
  /\ p \in Places \ EntryPlaces /\ b = Ref(d, V[i], p) /\ b # 0

\* And every file holds what it held, file i also the words written.
LEMMA HoldsRewritten ==
  ASSUME NEW d, NEW V, NEW P, NEW bs, NEW tk, NEW i \in Inums, NEW p, NEW b,
         Target(d, V, P, bs, tk, i, p, b), NEW S, NEW d2, Rewritten(d, d2, i, b, S), NEW j \in Inums, NEW C, Holds(C, j, d, V[j]),
         NEW C2, \A o \in Offsets : \/ C2[o] = C[o]
                                    \/ j = i /\ PathTo(o) = p /\ SlotOf(o) \in S /\ C2[o] = Data(i)
  PROVE  Holds(C2, j, d2, V[j])
<1>0. /\ d \in Disks /\ V \in Vecs /\ Owned(d, V, P, bs, tk)
      /\ p \in Places \ EntryPlaces /\ b = Ref(d, V[i], p) /\ b # 0
  BY DEF Target
<1>1. /\ \A s \in Places : Ref(d2, V[j], s) = Ref(d, V[j], s)
      /\ \A s \in Places : Ref(d, V[j], s) = b => j = i /\ s = p
      /\ \A s \in Places : Ref(d, V[j], s) \in Blocks
  <2>1. \A c \in Blocks \ {b} : d2[c] = d[c]
    BY DEF Rewritten
  <2> QED
    BY <1>0, <2>1, RefsRewritten
<1> SUFFICES ASSUME NEW o \in Offsets, C2[o] # NoWord
             PROVE  C2[o] = Data(j) /\ WordOf(d2, V[j], o) = Data(j)
  BY DEF Holds
<1>2. PICK s \in Places, e \in Entries : s = PathTo(o) /\ e = SlotOf(o)
  BY OffsetIs
<1>3. PICK c : c = Ref(d, V[j], s)
  OBVIOUS
<1>4. Ref(d2, V[j], s) = c /\ c \in Blocks
  BY <1>1, <1>3
<1>5. WordOf(d2, V[j], o) = At(d2, c, e)
  BY <1>2, <1>4 DEF WordOf
<1>6. CASE C2[o] = C[o]
  <2>1. C[o] = Data(j) /\ WordOf(d, V[j], o) = Data(j)
    BY <1>6 DEF Holds
  <2>2. c # 0 /\ d[c][e] = Data(j)
    BY <1>2, <1>3, <2>1, WordThere
  <2>3. d2[c][e] = Data(j)
    <3>1. CASE c = b
      <4>1. j = i
        BY <1>1, <1>3, <3>1
      <4> QED
        BY <1>2, <2>2, <3>1, <4>1 DEF Rewritten
    <3>2. CASE c # b
      BY <1>4, <2>2, <3>2 DEF Rewritten
    <3> QED
      BY <3>1, <3>2
  <2> QED
    BY <1>5, <1>6, <2>1, <2>2, <2>3 DEF At
<1>7. CASE j = i /\ PathTo(o) = p /\ SlotOf(o) \in S /\ C2[o] = Data(i)
  <2>1. c = b /\ c # 0
    BY <1>0, <1>2, <1>3, <1>7
  <2>2. d2[b][e] = Data(i)
    BY <1>2, <1>7 DEF Rewritten
  <2> QED
    BY <1>5, <1>7, <2>1, <2>2 DEF At
<1> QED
  BY <1>6, <1>7

-----------------------------------------------------------------------------
(* The steps: what files hold.                                             *)

\* Nothing of inode j changes but its file.
Same(j) ==
  /\ ip'[j] = ip[j] /\ dinode'[j] = dinode[j] /\ call'[j] = call[j] /\ content'[j] = content[j]
  /\ (j \in named') = (j \in named) /\ (j \in sparse') = (j \in sparse)

\* Then the invariant keeps saying the same of it.
LEMMA SameSized == ASSUME NEW j, Same(j), SizedAt(j) PROVE SizedAt(j)'
BY DEF Same, SizedAt, Kept, Unlinking, Moved

\* Its tree has the addresses it had.
LEMMA SameKept ==
  ASSUME NEW j \in Inums, Same(j)
  PROVE  Vec'[j] = Vec[j] /\ Kept(j)' = Kept(j) /\ Unlinking(j)' = Unlinking(j)
BY DEF Same, Vec, Kept, Unlinking

\* And its words are where they were, if the disk is as it was.
LEMMA SameSaved == ASSUME NEW j \in Inums, Same(j), SavedAt(j) PROVE SavedAt(j)'
BY DEF Same, SavedAt

\* One inode at most changes, and the disk does not.
LEMMA OneStep ==
  ASSUME ContentInv, past \subseteq past', disk' = disk, NEW i,
         \A j \in Inums \ {i} : Same(j),
         i \in Inums => SizedAt(i)' /\ (Clean(past') => IntactAt(i)' /\ SavedAt(i)')
  PROVE  ContentInv'
<1>1. ASSUME NEW j \in Inums, j # i PROVE SizedAt(j)'
  <2>1. Same(j) /\ SizedAt(j)
    BY <1>1 DEF ContentInv
  <2> QED
    BY <2>1, SameSized
<1>2. ASSUME NEW j \in Inums, j # i, Clean(past') PROVE IntactAt(j)' /\ SavedAt(j)'
  <2>1. Same(j) /\ IntactAt(j) /\ SavedAt(j)
    BY <1>2, StillClean DEF ContentInv
  <2>2. Vec'[j] = Vec[j] /\ Kept(j)' = Kept(j) /\ content'[j] = content[j]
    BY <2>1, SameKept DEF Same
  <2>3. IntactAt(j)'
    BY <2>1, <2>2 DEF IntactAt
  <2> QED
    BY <2>1, <2>3, SameSaved
<1> QED
  BY <1>1, <1>2 DEF ContentInv

\* At the start nothing has been written.
LEMMA InitContent == Init => ContentInv
<1> SUFFICES ASSUME Init, NEW i \in Inums PROVE SizedAt(i) /\ IntactAt(i) /\ SavedAt(i)
  BY DEF ContentInv
<1>1. /\ ip[i] = NoInode /\ dinode[i] = [size |-> 0, addrs |-> NoAddrs] /\ call[i] = NoCall
      /\ content[i] = [o \in 0 .. MAXSIZE - 1 |-> NoWord]
  BY DEF Init
<1>2. ip[i].valid = FALSE /\ dinode[i].size = 0 /\ call[i].op = "none"
  BY <1>1 DEF NoInode, NoCall, NewCall
<1>3. \A o \in Offsets : content[i][o] = NoWord /\ ~(o < 0)
  BY <1>1, Sizes DEF Offsets
<1>4. SizedAt(i)
  BY <1>2, <1>3 DEF SizedAt
<1>5. IntactAt(i)
  BY <1>3, HoldsNone DEF IntactAt
<1>6. SavedAt(i)
  BY <1>2, <1>3 DEF SavedAt
<1> QED
  BY <1>4, <1>5, <1>6

\* sys_open(): the inode in memory is the one on the disk.
LEMMA OpenContent == ASSUME IInv, TreeInv, ContentInv, NEW i \in Inums, Open(i) PROVE ContentInv'
<1>1. /\ call[i].op = "none" /\ i \in named
      /\ UNCHANGED <<disk, dinode, named, call, content, sparse, past>>
  BY DEF Open, Idle, OnDisk, History
<1>2. \A j \in Inums : ip'[j] = IF j = i THEN Locked(i) ELSE ip[j]
  BY DEF Open, IInv, Shape
<1>3. /\ Locked(i).valid = TRUE
      /\ Locked(i).addrs = IF ip[i].valid THEN ip[i].addrs ELSE dinode[i].addrs
      /\ Locked(i).size = IF ip[i].valid THEN ip[i].size ELSE dinode[i].size
  BY DEF Locked, IInv, Shape
<1>4. \A j \in Inums \ {i} : Same(j)
  BY <1>1, <1>2 DEF Same
<1>5. SizedAt(i) /\ Kept(i)
  BY <1>1 DEF ContentInv, Kept, Unlinking
<1>6. SizedAt(i)'
  <2>1. ip'[i].size = dinode'[i].size
    BY <1>1, <1>2, <1>3, <1>5 DEF SizedAt
  <2> QED
    BY <1>1, <1>5, <2>1 DEF SizedAt, Moved
<1>7. Vec'[i] = Vec[i]
  BY <1>1, <1>2, <1>3 DEF Vec, Unlinking
<1>8. Clean(past') => IntactAt(i)' /\ SavedAt(i)'
  <2> SUFFICES ASSUME Clean(past) PROVE IntactAt(i)' /\ SavedAt(i)'
    BY <1>1
  <2>1. Holds(content[i], i, disk, Vec[i]) /\ SavedAt(i)
    BY <1>5 DEF ContentInv, IntactAt
  <2> QED
    BY <1>1, <1>7, <2>1 DEF IntactAt, SavedAt
<1> QED
  BY <1>1, <1>4, <1>6, <1>8, OneStep

\* Steps that concern no inode.
LEMMA QuietContent ==
  ASSUME ContentInv, UNCHANGED <<disk, dinode, named, ip, call, content, sparse, past>>
  PROVE  ContentInv'
<1>1. \A j \in Inums : Same(j)
  BY DEF Same
<1>2. 0 \notin Inums
  BY Sizes DEF Inums
<1> QED
  BY <1>1, <1>2, OneStep

\* inode_alloc() clearing a slot: the words of a file without gaps are below its size,
\* where the saved addresses lead to them.
LEMMA EvictContent == ASSUME IInv, TreeInv, ContentInv, NEW i \in Inums, Evict(i) PROVE ContentInv'
<1>1. /\ call[i].op = "none" /\ ip[i].valid
      /\ UNCHANGED <<disk, dinode, named, call, sparse, past>>
  BY DEF Evict, Idle, OnDisk
<1>2. \A j \in Inums : ip'[j] = IF j = i THEN NoInode ELSE ip[j]
  BY DEF Evict, IInv, Shape
<1>3. NoInode.valid = FALSE
  BY DEF NoInode
<1>4. /\ \A j \in Inums \ {i} : content'[j] = content[j]
      /\ i \notin sparse => content'[i] = content[i]
      /\ i \in sparse => \A o \in Offsets : content'[i][o] = NoWord
  <2>1. \A j \in Inums : content'[j] = IF j = i THEN (IF i \in sparse THEN [o \in DOMAIN content[i] |-> NoWord]
                                                      ELSE content[i])
                                       ELSE content[j]
    BY DEF Evict, IInv, Shape
  <2>2. DOMAIN content[i] = Offsets
    BY DEF IInv, Shape, Offsets
  <2> QED
    BY <2>1, <2>2
<1>5. \A j \in Inums \ {i} : Same(j)
  BY <1>1, <1>2, <1>4 DEF Same
<1>6. SizedAt(i) /\ Kept(i)
  BY <1>1 DEF ContentInv, Kept, Unlinking
<1>7. SizedAt(i)'
  <2>1. ip'[i].valid = FALSE
    BY <1>2, <1>3
  <2>2. i \notin sparse => \A o \in Offsets :
          (o < dinode[i].size => content'[i][o] # NoWord) /\ (content'[i][o] # NoWord => o < dinode[i].size)
    BY <1>1, <1>4, <1>6 DEF SizedAt
  <2> QED
    BY <1>1, <2>1, <2>2 DEF SizedAt
<1>8. Clean(past') => IntactAt(i)' /\ SavedAt(i)'
  <2> SUFFICES ASSUME Clean(past) PROVE IntactAt(i)' /\ SavedAt(i)'
    BY <1>1
  <2>1. Holds(content[i], i, disk, Vec[i]) /\ SavedAt(i)
    BY <1>6 DEF ContentInv, IntactAt
  <2>2. SavedAt(i)'
    BY <1>1, <2>1 DEF SavedAt
  <2>3. IntactAt(i)'
    <3> SUFFICES ASSUME i \in named PROVE Holds(content'[i], i, disk, Vec'[i])
      BY <1>1, <1>2, <1>3 DEF IntactAt, Kept
    <3>1. Vec[i] = ip[i].addrs /\ Vec'[i] = dinode[i].addrs
      BY <1>1, <1>2, <1>3 DEF Vec, Unlinking
    <3>2. CASE i \in sparse
      BY <1>4, <3>2, HoldsNone
    <3>3. CASE i \notin sparse
      <4>1. PICK A, B, C : A = Vec[i] /\ B = Vec'[i] /\ C = content[i]
        OBVIOUS
      <4>2. \A o \in Offsets : C[o] # NoWord => B[PathTo(o)[1]] = A[PathTo(o)[1]]
        <5> SUFFICES ASSUME NEW o \in Offsets, C[o] # NoWord PROVE B[PathTo(o)[1]] = A[PathTo(o)[1]]
          OBVIOUS
        <5>1. o < dinode[i].size
          BY <1>1, <1>6, <3>3, <4>1 DEF SizedAt
        <5>2. B[PathTo(o)[1]] # 0 /\ PathTo(o)[1] \in Addrs
          BY <2>1, <3>1, <3>3, <4>1, <5>1, OffsetIs DEF SavedAt
        <5>3. \A a \in Addrs : B[a] \in {0, A[a]}
          BY <1>1, <3>1, <4>1 DEF TreeInv, Cached, CachedAt
        <5> QED
          BY <5>2, <5>3
      <4>3. Holds(C, i, disk, A)
        BY <2>1, <4>1
      <4>4. Holds(C, i, disk, B)
        BY <4>2, <4>3, HoldsLess
      <4> QED
        BY <1>4, <3>3, <4>1, <4>4
    <3> QED
      BY <3>2, <3>3
  <2> QED
    BY <2>2, <2>3
<1> QED
  BY <1>1, <1>5, <1>7, <1>8, OneStep

\* Sizes, offsets and lengths are numbers.
LEMMA CountsAre ==
  ASSUME IInv, NEW i \in Inums
  PROVE  /\ ip[i].size \in Nat /\ dinode[i].size \in Nat /\ file[i].offset \in Nat
         /\ dinode[i].size <= MAXSIZE /\ MAXSIZE \in Nat
         /\ call[i].off \in Nat /\ call[i].len \in Nat /\ call[i].total \in Nat
<1>1. /\ ip[i].size \in 0 .. MAXSIZE /\ dinode[i].size \in 0 .. MAXSIZE /\ file[i].offset \in 0 .. W - 1
      /\ Calls(call[i])
  BY DEF IInv, Shape
<1>2. call[i].off \in 0 .. W - 1 /\ call[i].len \in 0 .. W - 1 /\ call[i].total \in 0 .. W - 1
  BY <1>1 DEF Calls
<1> QED
  BY <1>1, <1>2, Sizes, Zero

\* A call on inode i starts or ends and nothing else is changed, but that a write may
\* begin beyond the size.
LEMMA CallContent ==
  ASSUME IInv, ContentInv, NEW i \in Inums, NEW c, \A j \in Inums : call'[j] = IF j = i THEN c ELSE call[j],
         UNCHANGED <<disk, dinode, named, ip, content, past>>, ~Unlinking(i), c.op # "unlink",
         sparse \subseteq sparse', \A j \in Inums \ {i} : j \in sparse' => j \in sparse,
         SizedAt(i)'
  PROVE  ContentInv'
<1>1. \A j \in Inums \ {i} : Same(j)
  BY DEF Same
<1>2. call'[i] = c
  OBVIOUS
<1>3. Vec'[i] = Vec[i] /\ Kept(i)' = Kept(i)
  BY <1>2 DEF Vec, Kept, Unlinking
<1>4. IntactAt(i) /\ SavedAt(i) => IntactAt(i)' /\ SavedAt(i)'
  BY <1>3 DEF IntactAt, SavedAt
<1>5. Clean(past') => IntactAt(i) /\ SavedAt(i)
  BY DEF ContentInv
<1> QED
  BY <1>1, <1>4, <1>5, OneStep

\* file_write() up to the first round of inode_write_data(): not beyond the size, or the
\* file has a gap.
LEMMA WriteStartContent ==
  ASSUME IInv, TreeInv, ContentInv, NEW i \in Inums, NEW len \in Lens, NEW user \in BOOLEAN,
         WriteStart(i, len, user)
  PROVE  ContentInv'
<1>0. PICK c : c = NewCall("write", file[i].offset, len, user, {})
  OBVIOUS
<1>1. /\ call[i].op = "none" /\ file[i].open /\ call' = [call EXCEPT ![i] = c]
      /\ sparse' = IF file[i].offset > ip[i].size THEN sparse \cup {i} ELSE sparse
      /\ UNCHANGED <<disk, dinode, named, ip, content, past>>
  BY <1>0 DEF WriteStart, HasFile, Idle, OnDisk
<1>2. c.op = "write" /\ c.off = file[i].offset /\ c.total = 0
  BY <1>0 DEF NewCall
<1>3. \A j \in Inums : call'[j] = IF j = i THEN c ELSE call[j]
  BY <1>1 DEF IInv, Shape
<1>4. CachedAt(i) /\ SizedAt(i)
  BY DEF TreeInv, Cached, ContentInv
<1>5. ip[i].valid /\ ip[i].size = dinode[i].size
  BY <1>1, <1>4 DEF CachedAt, SizedAt
<1>6. ip[i].size \in Nat /\ file[i].offset \in Nat
  BY CountsAre
<1>7. SizedAt(i)'
  <2>1. call'[i] = c /\ dinode'[i] = dinode[i] /\ ip'[i] = ip[i] /\ content'[i] = content[i]
    BY <1>1, <1>3
  <2>2. i \notin sparse' => i \notin sparse /\ c.off <= dinode[i].size
    BY <1>1, <1>2, <1>5, <1>6
  <2>3. \A o : o \notin Moved(i)'
    BY <1>2, <1>6, <2>1 DEF Moved
  <2>4. Kept(i)' = Kept(i)
    BY <1>1, <1>2, <2>1 DEF Kept, Unlinking
  <2>5. Kept(i) /\ i \notin sparse => \A o \in Offsets :
          /\ o < dinode[i].size => content[i][o] # NoWord
          /\ content[i][o] # NoWord => o < dinode[i].size
    BY <1>1, <1>4 DEF SizedAt
  <2> QED
    BY <1>2, <1>5, <2>1, <2>2, <2>3, <2>4, <2>5 DEF SizedAt
<1>8. ~Unlinking(i) /\ c.op # "unlink" /\ sparse \subseteq sparse'
      /\ \A j \in Inums \ {i} : j \in sparse' => j \in sparse
  BY <1>1, <1>2 DEF Unlinking
<1> QED
  BY <1>1, <1>3, <1>7, <1>8, CallContent

\* file_read() up to the first round of inode_read_data(): within the size.
LEMMA ReadStartContent ==
  ASSUME IInv, TreeInv, ContentInv, NEW i \in Inums, NEW len \in Lens, NEW user \in BOOLEAN,
         ReadStart(i, len, user)
  PROVE  ContentInv'
<1> DEFINE off == file[i].offset
           cut == IF (off + len) % W > ip[i].size THEN ip[i].size - off ELSE len
<1>0. PICK c : c = NewCall("read", off, cut, user, {})
  OBVIOUS
<1>1. /\ call[i].op = "none" /\ file[i].open /\ call' = [call EXCEPT ![i] = c]
      /\ UNCHANGED <<disk, dinode, named, ip, content, sparse, past>>
  BY <1>0 DEF ReadStart, HasFile, Idle, OnDisk, History
<1>2. c.op = "read" /\ c.off = off /\ c.len = cut /\ c.total = 0
  BY <1>0 DEF NewCall
<1>3. \A j \in Inums : call'[j] = IF j = i THEN c ELSE call[j]
  BY <1>1 DEF IInv, Shape
<1>4. CachedAt(i) /\ SizedAt(i)
  BY DEF TreeInv, Cached, ContentInv
<1>5. ip[i].valid /\ ip[i].size = dinode[i].size
  BY <1>1, <1>4 DEF CachedAt, SizedAt
<1>6. /\ ip[i].size \in Nat /\ off \in Nat /\ len \in Nat /\ W \in Nat /\ W > 0 /\ off < ip[i].size
  <2>1. len \in 0 .. W - 1
    BY DataAssumption
  <2> QED
    BY <2>1, CountsAre, Zero DEF ReadStart
<1>7. off + cut < W => off + cut <= ip[i].size
  <2>1. PICK s \in Nat, f \in Nat : s = ip[i].size /\ f = off
    BY <1>6
  <2>2. CASE (off + len) % W > s
    BY <1>6, <2>1, <2>2
  <2>3. CASE ~((off + len) % W > s)
    <3>1. cut = len
      BY <2>1, <2>3
    <3>2. f + len < W => (f + len) % W = f + len
      BY <1>6
    <3> QED
      BY <1>6, <2>1, <2>3, <3>1, <3>2
  <2> QED
    BY <2>2, <2>3
<1> HIDE DEF cut
<1>8. SizedAt(i)'
  <2>1. call'[i] = c /\ dinode'[i] = dinode[i] /\ ip'[i] = ip[i] /\ content'[i] = content[i]
    BY <1>1, <1>3
  <2>2. /\ c.off <= dinode[i].size
        /\ c.off + c.len < W => c.off + c.len <= dinode[i].size
    BY <1>2, <1>5, <1>6, <1>7
  <2>4. Kept(i)' = Kept(i)
    BY <1>1, <1>2, <2>1 DEF Kept, Unlinking
  <2>5. Kept(i) /\ i \notin sparse => \A o \in Offsets :
          /\ o < dinode[i].size => content[i][o] # NoWord
          /\ content[i][o] # NoWord => o < dinode[i].size
    BY <1>1, <1>4 DEF SizedAt
  <2> QED
    BY <1>1, <1>2, <1>5, <2>1, <2>2, <2>4, <2>5 DEF SizedAt
<1>9. ~Unlinking(i) /\ c.op # "unlink"
  BY <1>1, <1>2 DEF Unlinking
<1> QED
  BY <1>1, <1>3, <1>8, <1>9, CallContent

\* file_read() at its end.
LEMMA ReadEndContent == ASSUME IInv, TreeInv, ContentInv, NEW i \in Inums, ReadEnd(i) PROVE ContentInv'
<1>1. /\ call[i].op = "read"
      /\ UNCHANGED <<disk, dinode, named, ip, content, sparse, past>>
  BY DEF ReadEnd, Done, OnDisk, History
<1>2. \A j \in Inums : call'[j] = IF j = i THEN NoCall ELSE call[j]
  BY DEF ReadEnd, IInv, Shape
<1>3. NoCall.op = "none"
  BY DEF NoCall, NewCall
<1>4. SizedAt(i)'
  <2>1. SizedAt(i) /\ call'[i] = NoCall
    BY <1>2 DEF ContentInv
  <2>4. Kept(i)' = Kept(i)
    BY <1>1, <1>3, <2>1 DEF Kept, Unlinking
  <2> QED
    BY <1>1, <1>3, <2>1, <2>4 DEF SizedAt
<1>5. ~Unlinking(i)
  BY <1>1 DEF Unlinking
<1> QED
  BY <1>1, <1>2, <1>3, <1>4, <1>5, CallContent

\* inode_write_data() at its end: the words of the write are now below the size, and if
\* that has grown the addresses of memory are saved.
LEMMA WriteEndContent == ASSUME IInv, TreeInv, ContentInv, NEW i \in Inums, WriteEnd(i) PROVE ContentInv'
<1>0. CachedAt(i) /\ SizedAt(i)
  BY DEF TreeInv, Cached, ContentInv
<1>1. /\ call[i].op = "write" /\ call[i].total = call[i].len /\ ip[i].valid
      /\ UNCHANGED <<disk, named, content, sparse, past>>
  BY <1>0 DEF WriteEnd, Done, History, CachedAt
<1>2. \A j \in Inums : call'[j] = IF j = i THEN NoCall ELSE call[j]
  BY DEF WriteEnd, IInv, Shape
<1>3. NoCall.op = "none"
  BY DEF NoCall, NewCall
<1>4. /\ ip[i].size \in Nat /\ ip[i].size = dinode[i].size /\ ip[i].size <= MAXSIZE /\ MAXSIZE \in Nat
      /\ call[i].off \in Nat /\ call[i].total \in Nat
  BY <1>0, <1>1, CountsAre DEF SizedAt
<1>5. PICK size \in Nat : size = IF Pos(i) > ip[i].size THEN Pos(i) ELSE ip[i].size
  BY <1>4 DEF Pos
<1>6. /\ \A j \in Inums \ {i} : ip'[j] = ip[j] /\ dinode'[j] = dinode[j]
      /\ ip'[i].valid = ip[i].valid /\ ip'[i].addrs = ip[i].addrs
      /\ ip'[i].size = size /\ dinode'[i].size = size
      /\ dinode'[i].addrs = IF Pos(i) > ip[i].size THEN ip[i].addrs ELSE dinode[i].addrs
  <2>1. CASE Pos(i) > ip[i].size
    <3>1. /\ ip' = [ip EXCEPT ![i].size = Pos(i)]
          /\ dinode' = [dinode EXCEPT ![i] = [size |-> Pos(i), addrs |-> ip[i].addrs]]
      BY <2>1 DEF WriteEnd
    <3>2. ip'[i].valid = ip[i].valid /\ ip'[i].addrs = ip[i].addrs /\ ip'[i].size = Pos(i)
      BY <3>1, ZenonT(40) DEF IInv, Shape
    <3>3. \A j \in Inums : dinode'[j] = IF j = i THEN [size |-> Pos(i), addrs |-> ip[i].addrs]
                                       ELSE dinode[j]
      BY <3>1 DEF IInv, Shape
    <3>4. \A j \in Inums \ {i} : ip'[j] = ip[j]
      BY <3>1 DEF IInv, Shape
    <3> QED
      BY <1>5, <2>1, <3>2, <3>3, <3>4
  <2>2. CASE ~(Pos(i) > ip[i].size)
    BY <1>4, <1>5, <2>2 DEF WriteEnd
  <2> QED
    BY <2>1, <2>2
<1>7. \A j \in Inums \ {i} : Same(j)
  BY <1>1, <1>2, <1>6 DEF Same
<1>8. Kept(i) /\ Kept(i)' /\ Vec[i] = ip[i].addrs /\ Vec'[i] = ip[i].addrs
  <2>1. ~Unlinking(i) /\ ~Unlinking(i)' /\ ip'[i].valid
    BY <1>1, <1>2, <1>3, <1>6 DEF Unlinking
  <2> QED
    BY <1>1, <1>6, <2>1 DEF Kept, Vec
<1>9. i \notin sparse => \A o \in Offsets : o < size <=> content[i][o] # NoWord
  <2> SUFFICES ASSUME i \notin sparse, NEW o \in Offsets PROVE o < size <=> content[i][o] # NoWord
    OBVIOUS
  <2>1. o \in Nat
    BY OffsetIs
  <2>2. PICK f \in Nat, t \in Nat, s \in Nat : f = call[i].off /\ t = call[i].total /\ s = dinode[i].size
    BY <1>4
  <2>3. f <= s /\ size = (IF f + t > s THEN f + t ELSE s) /\ Moved(i) = f .. f + t - 1
    BY <1>0, <1>1, <1>4, <1>5, <2>2 DEF SizedAt, Pos, Moved
  <2>4. /\ o < s => content[i][o] # NoWord
        /\ o \in f .. f + t - 1 => content[i][o] # NoWord
        /\ content[i][o] # NoWord => o < s \/ o \in f .. f + t - 1
    BY <1>0, <1>1, <1>8, <2>2, <2>3 DEF SizedAt
  <2> QED
    BY <2>1, <2>3, <2>4
<1>10. SizedAt(i)'
  BY <1>1, <1>2, <1>3, <1>6, <1>9 DEF SizedAt
<1>11. Clean(past') => IntactAt(i)' /\ SavedAt(i)'
  <2> SUFFICES ASSUME Clean(past) PROVE IntactAt(i)' /\ SavedAt(i)'
    BY <1>1
  <2>1. Holds(content[i], i, disk, Vec[i]) /\ SavedAt(i)
    BY <1>8 DEF ContentInv, IntactAt
  <2>2. IntactAt(i)'
    BY <1>1, <1>8, <2>1 DEF IntactAt
  <2>3. SavedAt(i)'
    <3> SUFFICES ASSUME i \in named, i \notin sparse, NEW o \in Offsets, o < size
                 PROVE  dinode'[i].addrs[PathTo(o)[1]] # 0
      BY <1>1, <1>6 DEF SavedAt
    <3>1. CASE Pos(i) > ip[i].size
      <4>1. content[i][o] # NoWord
        BY <1>9
      <4>2. PICK A : A = Vec[i]
        OBVIOUS
      <4>3. WordOf(disk, A, o) = Data(i)
        BY <2>1, <4>1, <4>2 DEF Holds
      <4>4. Ref(disk, A, PathTo(o)) # 0 /\ PathTo(o) \in Places
        BY <4>3, WordThere, OffsetIs
      <4>5. A[PathTo(o)[1]] # 0
        BY <4>4, TopThere
      <4> QED
        BY <1>6, <1>8, <3>1, <4>2, <4>5
    <3>2. CASE ~(Pos(i) > ip[i].size)
      <4>1. o < dinode[i].size
        BY <1>4, <1>5, <3>2
      <4> QED
        BY <1>6, <2>1, <3>2, <4>1 DEF SavedAt
    <3> QED
      BY <3>1, <3>2
  <2> QED
    BY <2>2, <2>3
<1> QED
  BY <1>1, <1>7, <1>10, <1>11, OneStep

\* path_unlink() up to inode_free_data(): the content of the inode is given up.
LEMMA UnlinkStartContent ==
  ASSUME IInv, TreeInv, ContentInv, NEW i \in Inums, UnlinkStart(i) PROVE ContentInv'
<1>0. PICK c : c = NewCall("unlink", 0, 0, FALSE, FreeData(Locked(i).addrs))
  OBVIOUS
<1>1. /\ call' = [call EXCEPT ![i] = c] /\ named' = named \ {i}
      /\ UNCHANGED <<disk, dinode, content, sparse, past>>
  BY <1>0 DEF UnlinkStart, History
<1>2. c.op = "unlink"
  BY <1>0 DEF NewCall
<1>3. \A j \in Inums : call'[j] = IF j = i THEN c ELSE call[j]
  BY <1>1 DEF IInv, Shape
<1>4. \A j \in Inums : ip'[j] = IF j = i THEN Locked(i) ELSE ip[j]
  BY DEF UnlinkStart, IInv, Shape
<1>5. Locked(i).size = IF ip[i].valid THEN ip[i].size ELSE dinode[i].size
  BY DEF Locked, IInv, Shape
<1>6. \A j \in Inums \ {i} : Same(j)
  BY <1>1, <1>3, <1>4 DEF Same
<1>7. Unlinking(i)' /\ ip'[i].size = dinode'[i].size
  <2>1. SizedAt(i)
    BY DEF ContentInv
  <2> QED
    BY <1>1, <1>2, <1>3, <1>4, <1>5, <2>1 DEF Unlinking, SizedAt
<1>8. SizedAt(i)' /\ IntactAt(i)' /\ SavedAt(i)'
  <2>1. call'[i].op = "unlink"
    BY <1>2, <1>3
  <2>2. ~Kept(i)' /\ i \notin named'
    BY <1>1, <1>7 DEF Kept
  <2> QED
    BY <1>7, <2>1, <2>2 DEF SizedAt, IntactAt, SavedAt
<1> QED
  BY <1>1, <1>6, <1>8, OneStep

\* inode_free_data() frees a block: the disk is not written.
LEMMA UnlinkFreeContent ==
  ASSUME IInv, TreeInv, ContentInv, NEW i \in Inums, UnlinkFree(i) PROVE ContentInv'
<1>0. CachedAt(i) /\ SizedAt(i)
  BY DEF TreeInv, Cached, ContentInv
<1>1. call[i].op = "unlink" /\ UNCHANGED <<disk, dinode, named, ip, content, sparse, past>>
  BY DEF UnlinkFree, History
<1>2. (\A j \in Inums \ {i} : call'[j] = call[j]) /\ call'[i].op = "unlink"
  <2>1. call' = call \/ \E F : call' = [call EXCEPT ![i] = [call[i] EXCEPT !.frees = F]]
    BY DEF UnlinkFree, IInv, Shape
  <2>2. call = [j \in Inums |-> call[j]] /\ Calls(call[i])
    BY DEF IInv, Shape
  <2>3. CASE call' = call
    BY <1>1, <2>3
  <2>4. CASE \E F : call' = [call EXCEPT ![i] = [call[i] EXCEPT !.frees = F]]
    <3>1. PICK F : call' = [call EXCEPT ![i] = [call[i] EXCEPT !.frees = F]]
      BY <2>4
    <3>2. PICK c : c = [call[i] EXCEPT !.frees = F]
      OBVIOUS
    <3>3. c.op = "unlink"
      BY <1>1, <2>2, <3>2 DEF Calls
    <3> QED
      BY <2>2, <3>1, <3>2, <3>3
  <2> QED
    BY <2>1, <2>3, <2>4
<1>3. \A j \in Inums \ {i} : Same(j)
  BY <1>1, <1>2 DEF Same
<1>4. ~Kept(i)' /\ i \notin named'
  BY <1>0, <1>1, <1>2 DEF Kept, Unlinking, CachedAt
<1>5. SizedAt(i)' /\ IntactAt(i)' /\ SavedAt(i)'
  BY <1>0, <1>1, <1>2, <1>4 DEF SizedAt, IntactAt, SavedAt
<1> QED
  BY <1>1, <1>3, <1>5, OneStep

\* The end of inode_free_data(): an empty inode, with nothing in it.
LEMMA UnlinkEndContent ==
  ASSUME IInv, TreeInv, ContentInv, NEW i \in Inums, UnlinkEnd(i) PROVE ContentInv'
<1>0. CachedAt(i)
  BY DEF TreeInv, Cached
<1>1. /\ call[i].op = "unlink" /\ i \notin named
      /\ UNCHANGED <<disk, named, sparse, past>>
  BY <1>0 DEF UnlinkEnd, CachedAt, Unlinking
<1>2. \A j \in Inums : call'[j] = IF j = i THEN NoCall ELSE call[j]
  BY DEF UnlinkEnd, IInv, Shape
<1>3. NoCall.op = "none"
  BY DEF NoCall, NewCall
<1>4. /\ \A j \in Inums \ {i} : ip'[j] = ip[j] /\ dinode'[j] = dinode[j]
      /\ ip'[i].size = 0 /\ dinode'[i].size = 0
  <2>1. /\ ip' = [ip EXCEPT ![i] = [ip[i] EXCEPT !.size = 0, !.addrs = NoAddrs]]
        /\ dinode' = [dinode EXCEPT ![i] = [size |-> 0, addrs |-> NoAddrs]]
    BY DEF UnlinkEnd, IInv, Shape
  <2>2. PICK n : n = [ip[i] EXCEPT !.size = 0, !.addrs = NoAddrs]
    OBVIOUS
  <2>3. n.size = 0
    BY <2>2 DEF IInv, Shape
  <2> QED
    BY <2>1, <2>2, <2>3 DEF IInv, Shape
<1>5. /\ \A j \in Inums \ {i} : content'[j] = content[j]
      /\ \A o \in Offsets : content'[i][o] = NoWord
  <2>1. \A j \in Inums : content'[j] = IF j = i THEN [o \in DOMAIN content[i] |-> NoWord] ELSE content[j]
    BY DEF UnlinkEnd, IInv, Shape
  <2>2. DOMAIN content[i] = Offsets
    BY DEF IInv, Shape, Offsets
  <2> QED
    BY <2>1, <2>2
<1>6. \A j \in Inums \ {i} : Same(j)
  BY <1>1, <1>2, <1>4, <1>5 DEF Same
<1>7. SizedAt(i)'
  <2>1. \A o \in Offsets : ~(o < 0)
    BY OffsetIs
  <2> QED
    BY <1>2, <1>3, <1>4, <1>5, <2>1 DEF SizedAt
<1>8. IntactAt(i)' /\ SavedAt(i)'
  BY <1>1, <1>5, HoldsNone DEF IntactAt, SavedAt
<1> QED
  BY <1>1, <1>6, <1>7, <1>8, OneStep

\* An inode with a name is not being freed, and its saved addresses are in its tree.
LEMMA NamedKept ==
  ASSUME IInv, TreeInv, NEW j \in named
  PROVE  j \in Inums /\ Kept(j) /\ \A a \in Addrs : dinode[j].addrs[a] \in {0, Vec[j][a]}
<1>1. j \in Inums
  BY DEF IInv, Shape
<1>2. CachedAt(j)
  BY <1>1 DEF TreeInv, Cached
<1>3. Kept(j) /\ Vec[j] = IF ip[j].valid THEN ip[j].addrs ELSE dinode[j].addrs
  BY <1>1, <1>2 DEF Vec, CachedAt, Kept
<1> QED
  BY <1>1, <1>2, <1>3 DEF CachedAt

\* A restart from an image in which the trees under R hold what the files with a name held:
\* the saved addresses lead to it up to the saved size.
LEMMA RestartContent ==
  ASSUME IInv, TreeInv, ContentInv, NEW im, RebootFrom(im), past \subseteq im.past,
         NEW R, Clean(im.past) => \A j \in named :
                  /\ Holds(content[j], j, im.disk, R[j])
                  /\ \A a \in Addrs : dinode[j].addrs[a] \in {0, R[j][a]}
  PROVE  ContentInv'
<1>1. \A j \in Inums : ip'[j].valid = FALSE /\ call'[j].op = "none"
  BY DEF RebootFrom, NoInode, NoCall, NewCall
<1>2. UNCHANGED <<dinode, named, sparse>> /\ disk' = im.disk /\ past' = im.past \cup {"crash"}
  BY DEF RebootFrom
<1>3. ASSUME NEW j \in Inums, NEW o \in Offsets
      PROVE  content'[j][o] = IF j \in sparse \/ o >= dinode[j].size THEN NoWord ELSE content[j][o]
  <2>1. DOMAIN content[j] = Offsets
    BY DEF IInv, Shape, Offsets
  <2> QED
    BY <2>1 DEF RebootFrom
<1>4. ASSUME NEW j \in Inums PROVE Kept(j)' = (j \in named)
  <2>1. ~Unlinking(j)' /\ ~ip'[j].valid
    BY <1>1 DEF Unlinking
  <2> QED
    BY <1>2, <2>1 DEF Kept
<1>5. ASSUME NEW j \in Inums, NEW o \in Offsets
      PROVE  o \in Nat /\ dinode[j].size \in Nat /\ (o >= dinode[j].size <=> ~(o < dinode[j].size))
  <2>1. o \in Nat /\ dinode[j].size \in Nat
    BY OffsetIs, CountsAre
  <2> QED
    BY <2>1
<1>6. ASSUME NEW j \in Inums PROVE SizedAt(j)'
  <2>1. ASSUME j \in named, j \notin sparse, NEW o \in Offsets
        PROVE  o < dinode[j].size <=> content'[j][o] # NoWord
    <3>1. Kept(j) /\ SizedAt(j)
      BY <2>1, NamedKept DEF ContentInv
    <3>2. o < dinode[j].size => content[j][o] # NoWord
      BY <2>1, <3>1 DEF SizedAt
    <3> QED
      BY <1>3, <1>5, <2>1, <3>2
  <2> QED
    BY <1>1, <1>2, <1>4, <2>1 DEF SizedAt
<1>7. ASSUME NEW j \in Inums, Clean(past') PROVE IntactAt(j)' /\ SavedAt(j)'
  <2>1. Clean(im.past) /\ Clean(past)
    BY <1>2, <1>7, StillClean
  <2>2. SavedAt(j)
    BY <2>1 DEF ContentInv
  <2>3. SavedAt(j)'
    BY <1>2, <2>2 DEF SavedAt
  <2>4. IntactAt(j)'
    <3> SUFFICES ASSUME j \in named PROVE Holds(content'[j], j, disk', Vec'[j])
      BY <1>4 DEF IntactAt
    <3>1. Vec'[j] = dinode[j].addrs
      <4>1. ~Unlinking(j)' /\ ~ip'[j].valid
        BY <1>1 DEF Unlinking
      <4> QED
        BY <1>2, <4>1 DEF Vec
    <3>2. PICK A, B, C, C2, d : A = R[j] /\ B = Vec'[j] /\ C = content[j] /\ C2 = content'[j] /\ d = im.disk
      OBVIOUS
    <3>3. Holds(C, j, d, A) /\ \A a \in Addrs : B[a] \in {0, A[a]}
      BY <2>1, <3>1, <3>2
    <3>4. ASSUME NEW o \in Offsets, C2[o] # NoWord
          PROVE  C2[o] = C[o] /\ B[PathTo(o)[1]] = A[PathTo(o)[1]]
      <4>1. j \notin sparse /\ o < dinode[j].size /\ C2[o] = C[o]
        BY <1>3, <1>5, <3>2, <3>4
      <4>2. B[PathTo(o)[1]] # 0 /\ PathTo(o)[1] \in Addrs
        BY <2>2, <3>1, <3>2, <4>1, OffsetIs DEF SavedAt
      <4> QED
        BY <3>3, <4>1, <4>2
    <3>5. Holds(C2, j, d, B)
      BY <3>3, <3>4, HoldsLess
    <3> QED
      BY <1>2, <3>2, <3>5
  <2> QED
    BY <2>3, <2>4
<1> QED
  BY <1>6, <1>7 DEF ContentInv

\* Power cut, or reset after a panic.
LEMMA RebootContent == ASSUME IInv, TreeInv, ContentInv, Reboot PROVE ContentInv'
<1>1. RebootFrom(Image)
  BY DEF Reboot
<1>2. Image.disk = disk /\ Image.past = past
  BY ImageIs DEF IInv, Image
<1>3. PICK V, im : V = Vec /\ im = Image
  OBVIOUS
<1>4. Clean(im.past) => \A j \in named : /\ Holds(content[j], j, im.disk, V[j])
                                         /\ \A a \in Addrs : dinode[j].addrs[a] \in {0, V[j][a]}
  <2> SUFFICES ASSUME Clean(past), NEW j \in named
               PROVE  /\ Holds(content[j], j, disk, V[j])
                      /\ \A a \in Addrs : dinode[j].addrs[a] \in {0, V[j][a]}
    BY <1>2, <1>3
  <2>1. j \in Inums /\ Kept(j) /\ \A a \in Addrs : dinode[j].addrs[a] \in {0, Vec[j][a]}
    BY NamedKept
  <2>2. IntactAt(j)
    BY <2>1 DEF ContentInv
  <2> QED
    BY <1>3, <2>1, <2>2 DEF IntactAt
<1>5. RebootFrom(im) /\ past \subseteq im.past
  BY <1>1, <1>2, <1>3
<1> QED
  BY <1>4, <1>5, RestartContent

\* A power cut between two disk writes of locate_block(): no image lacks a word that a
\* file held.
LEMMA RebootInsideContent ==
  ASSUME IInv, TreeInv, ContentInv, NEW i \in Inums, RebootInside(i) PROVE ContentInv'
<1>1. InLoop(i) /\ PathAt(i) # <<>>
  BY DEF RebootInside
<1>2. IsPath(PathAt(i)) /\ Image \in Images
  BY <1>1, PathAtIs, ImageIs DEF IInv
<1>3. PICK path, V : path = PathAt(i) /\ V = Vec
  OBVIOUS
<1>4. V \in Vecs /\ V[i] \in [Addrs -> Words] /\ V[i] = ip[i].addrs /\ disk \in Disks
  BY <1>1, <1>3, VecIs, LoopVec DEF Vecs
<1>5. PICK r : r = Locate(V[i], path)
  OBVIOUS
<1>6. r = Locate(ip[i].addrs, PathAt(i))
  BY <1>3, <1>4, <1>5
<1>7. Walk(r)
  BY <1>2, <1>3, <1>4, <1>5, LocateIs
<1>8. Told(r) /\ \A x \in Addrs : V[i][x] # 0 => r.addrs[x] = V[i][x]
  BY <1>2, <1>3, <1>4, <1>5, LocateKeeps
<1>9. PICK k \in DOMAIN r.images : RebootFrom(r.images[k])
  BY <1>6 DEF RebootInside
<1>10. k \in 1 .. Len(r.images) /\ past \subseteq r.images[k].past
  <2>1. r.images \in Seq(Images)
    BY <1>7 DEF Walk, Walks
  <2>2. k \in 1 .. Len(r.images)
    BY <1>9, <2>1
  <2> QED
    BY <1>7, <2>2 DEF Walk, Remembers
<1>11. PICK im : im = r.images[k]
  OBVIOUS
<1>12. RebootFrom(im) /\ past \subseteq im.past
  BY <1>9, <1>10, <1>11
<1>13. PICK V2 : V2 = [V EXCEPT ![i] = r.addrs]
  OBVIOUS
<1>14. V2[i] = r.addrs /\ \A j \in Inums \ {i} : V2[j] = V[j]
  BY <1>4, <1>13 DEF Vecs
<1>15. ASSUME Clean(im.past), NEW j \in named
       PROVE  j \in Inums /\ Holds(content[j], j, disk, V[j]) /\ Owned(disk, V, Pend, bits, taken)
              /\ \A a \in Addrs : dinode[j].addrs[a] \in {0, V[j][a]}
  <2>1. j \in Inums /\ Kept(j) /\ \A a \in Addrs : dinode[j].addrs[a] \in {0, Vec[j][a]}
    BY NamedKept
  <2>2. Clean(past)
    BY <1>12, <1>15, StillClean
  <2>3. IntactAt(j) /\ Owned(disk, Vec, Pend, bits, taken)
    BY <2>1, <2>2 DEF ContentInv, TreeInv, Ownership
  <2> QED
    BY <1>3, <2>1, <2>3 DEF IntactAt
<1>16. CASE KeepsTrees(V, im)
  <2>1. ASSUME Clean(im.past), NEW j \in named PROVE Holds(content[j], j, im.disk, V[j])
    <3>1. PICK A, C, d : A = V[j] /\ C = content[j] /\ d = im.disk
      OBVIOUS
    <3>2. j \in Inums /\ Holds(C, j, disk, V[j])
      BY <1>15, <2>1, <3>1
    <3>3. DataKept(V, d) /\ \A s \in Places : Ref(d, A, s) = Ref(disk, V[j], s)
      BY <1>16, <3>1, <3>2 DEF KeepsTrees
    <3>4. Holds(C, j, d, A)
      BY <3>2, <3>3, HoldsGrown
    <3> QED
      BY <3>1, <3>4
  <2> QED
    BY <1>12, <1>15, <2>1, RestartContent
<1>17. CASE im.disk = disk /\ bits \subseteq im.bits
  BY <1>16, <1>17 DEF KeepsTrees, DataKept
<1>18. CASE im.past = r.last.past /\ ~KeepsTrees(V, im)
  <2>1. ASSUME Clean(im.past), NEW j \in named
        PROVE  Holds(content[j], j, im.disk, V2[j]) /\ \A a \in Addrs : dinode[j].addrs[a] \in {0, V2[j][a]}
    <3>1. /\ j \in Inums /\ Holds(content[j], j, disk, V[j]) /\ Owned(disk, V, Pend, bits, taken)
          /\ \A a \in Addrs : dinode[j].addrs[a] \in {0, V[j][a]}
      BY <1>15, <2>1
    <3>2. Located(V, i, path, r)
      BY <1>2, <1>3, <1>4, <1>5, <1>18, <2>1, <3>1, LocatedAt
    <3>3. PICK A, C, d : A = V2[j] /\ C = content[j] /\ d = im.disk
      OBVIOUS
    <3>4. d = r.last.disk
      BY <1>10, <1>11, <1>18, <3>2, <3>3 DEF Located
    <3>5. DataKept(V, d) /\ \A s \in Places : Ref(disk, V[j], s) # 0 => Ref(d, A, s) = Ref(disk, V[j], s)
      <4>1. CASE j = i
        BY <1>14, <3>2, <3>3, <3>4, <4>1 DEF Located, Grown
      <4>2. CASE j # i
        BY <1>14, <3>1, <3>2, <3>3, <3>4, <4>2 DEF Located
      <4> QED
        BY <4>1, <4>2
    <3>6. Holds(C, j, disk, V[j])
      BY <3>1, <3>3
    <3>7. Holds(C, j, d, A)
      BY <3>1, <3>5, <3>6, HoldsGrown
    <3>8. \A a \in Addrs : V[j][a] # 0 => V2[j][a] = V[j][a]
      BY <1>8, <1>14, <3>1
    <3> QED
      BY <3>1, <3>3, <3>7, <3>8
  <2> QED
    BY <1>12, <2>1, RestartContent
<1>19. \/ im.disk = disk /\ bits \subseteq im.bits
       \/ im.past = r.last.past
  BY <1>8, <1>10, <1>11 DEF Told
<1> QED
  BY <1>16, <1>17, <1>18, <1>19

\* The round of inode i has written its words to the block that the walk r has come to.
Wrote(i, r) ==
  /\ call[i].op = "write" /\ panicked' = "no" /\ r.err = "no"
  /\ Rewritten(r.last.disk, disk', i, r.blk, Span(i))
  /\ \A o \in Offsets : content'[i][o] = IF o \in Pos(i) .. Pos(i) + Round(i) - 1
                                         THEN Data(i) ELSE content[i][o]

\* A round of inode i with the walk r of inode_locate_block().
Went(i, r) ==
  /\ r.last \in Images /\ r.addrs \in [Addrs -> Words] /\ past \subseteq past'
  /\ bits' = r.last.bits /\ past' = r.last.past /\ UNCHANGED <<dinode, named, file, taken, sparse>>
  /\ ip'[i].addrs = r.addrs /\ ip'[i].valid = ip[i].valid /\ ip'[i].size = ip[i].size
  /\ \A x \in Addrs : ip[i].addrs[x] # 0 => r.addrs[x] = ip[i].addrs[x]
  /\ \A j \in Inums \ {i} : ip'[j] = ip[j] /\ call'[j] = call[j] /\ content'[j] = content[j]
  /\ call'[i].op = call[i].op /\ call'[i].off = call[i].off /\ call'[i].len = call[i].len
  /\ call'[i].frees = call[i].frees
  /\ call'[i].total = IF panicked' = "no" THEN call[i].total + Round(i) ELSE call[i].total
  /\ \/ Wrote(i, r)
     \/ disk' = r.last.disk /\ content' = content /\ (call[i].op = "write" => panicked' # "no")
  /\ Clean(past') => Located(Vec, i, PathAt(i), r)

\* What a round does.
LEMMA TransferIs ==
  ASSUME IInv, TreeInv, NEW i \in Inums, Transfer(i), PathAt(i) # <<>>
  PROVE  \E r : Went(i, r)
<1>1. InLoop(i) /\ UNCHANGED <<dinode, named, file, taken, sparse>>
  BY DEF Transfer
<1>2. IsPath(PathAt(i)) /\ Image \in Images
  BY <1>1, PathAtIs, ImageIs DEF IInv
<1>3. PICK path, V : path = PathAt(i) /\ V = Vec
  OBVIOUS
<1>4. V \in Vecs /\ V[i] \in [Addrs -> Words] /\ V[i] = ip[i].addrs /\ disk \in Disks
  BY <1>1, <1>3, VecIs, LoopVec DEF Vecs
<1>5. PICK r : r = Locate(V[i], path)
  OBVIOUS
<1>6. r = Locate(ip[i].addrs, PathAt(i))
  BY <1>3, <1>4, <1>5
<1>7. Walk(r) /\ (r.err = "no" => r.blk \in Blocks)
  BY <1>2, <1>3, <1>4, <1>5, LocateIs
<1>8. \A x \in Addrs : V[i][x] # 0 => r.addrs[x] = V[i][x]
  BY <1>2, <1>3, <1>4, <1>5, LocateKeeps
<1>9. r.last \in Images /\ r.addrs \in [Addrs -> Words] /\ past \subseteq r.last.past
  BY <1>7 DEF Walk, Walks, Remembers
<1> DEFINE why == IF r.err # "no" THEN r.err
                  ELSE IF call[i].user THEN "page fault" ELSE "no"
           writes == why = "no" /\ call[i].op = "write"
           im == IF writes THEN Filled(i, r.last, r.blk) ELSE r.last
           con == [o \in DOMAIN content[i] |-> IF o \in Pos(i) .. Pos(i) + Round(i) - 1
                                               THEN Data(i) ELSE content[i][o]]
           c == [call[i] EXCEPT !.total = @ + Round(i)]
<1>10. /\ panicked' = why
       /\ bits' = im.bits /\ disk' = im.disk
       /\ ip' = [ip EXCEPT ![i].addrs = r.addrs]
       /\ call' = IF why = "no" THEN [call EXCEPT ![i] = c] ELSE call
       /\ content' = IF writes THEN [content EXCEPT ![i] = con] ELSE content
       /\ past' = im.past
  BY <1>6 DEF Transfer, IInv, Shape
<1>11. why = "no" => r.err = "no"
  OBVIOUS
<1> HIDE DEF why
<1>12. /\ im.bits = r.last.bits /\ im.past = r.last.past
       /\ ~writes => im.disk = r.last.disk
       /\ writes => Rewritten(r.last.disk, im.disk, i, r.blk, Span(i))
  <2>1. CASE ~writes
    BY <2>1
  <2>2. CASE writes
    <3>1. r.blk \in Blocks /\ im = Filled(i, r.last, r.blk)
      BY <1>7, <1>11, <2>2
    <3>2. /\ im.bits = r.last.bits /\ im.past = r.last.past
          /\ \A b \in Blocks \ {r.blk} : im.disk[b] = r.last.disk[b]
      BY <1>9, <3>1, FilledIs
    <3>3. \A e \in Entries : im.disk[r.blk][e] = IF e \in Span(i) THEN Data(i) ELSE r.last.disk[r.blk][e]
      BY <1>9, <3>1 DEF Filled, Images
    <3> QED
      BY <2>2, <3>2, <3>3 DEF Rewritten
  <2> QED
    BY <2>1, <2>2
<1> HIDE DEF im
<1>13. /\ ip'[i].addrs = r.addrs /\ ip'[i].valid = ip[i].valid /\ ip'[i].size = ip[i].size
       /\ \A j \in Inums \ {i} : ip'[j] = ip[j]
  <2>1. ip' = [ip EXCEPT ![i].addrs = r.addrs]
    BY <1>10
  <2>2. i \in DOMAIN ip /\ DOMAIN ip = Inums
    BY DEF IInv, Shape
  <2>3. ip[i] \in [valid : BOOLEAN, size : 0 .. MAXSIZE, addrs : [Addrs -> Words]]
    BY DEF IInv, Shape
  <2>4. ip'[i] = [ip[i] EXCEPT !.addrs = r.addrs] /\ \A j \in Inums \ {i} : ip'[j] = ip[j]
    BY <2>1, <2>2
  <2>5. ip'[i].addrs = r.addrs /\ ip'[i].size = ip[i].size
    BY <2>3, <2>4
  <2>6. ip'[i].valid = ip[i].valid
    BY <2>3, <2>4, Zenon
  <2> QED
    BY <2>4, <2>5, <2>6
<1>14. /\ call'[i].op = call[i].op /\ call'[i].off = call[i].off /\ call'[i].len = call[i].len
       /\ call'[i].frees = call[i].frees
       /\ call'[i].total = (IF why = "no" THEN call[i].total + Round(i) ELSE call[i].total)
       /\ \A j \in Inums \ {i} : call'[j] = call[j]
  <2>1. Calls(call[i]) /\ call = [j \in Inums |-> call[j]]
    BY DEF IInv, Shape
  <2>2. /\ c.op = call[i].op /\ c.off = call[i].off /\ c.len = call[i].len
        /\ c.frees = call[i].frees /\ c.total = call[i].total + Round(i)
    BY <2>1 DEF Calls
  <2> HIDE DEF c
  <2>3. CASE why = "no"
    BY <1>10, <2>1, <2>2, <2>3
  <2>4. CASE why # "no"
    BY <1>10, <2>4
  <2> QED
    BY <2>3, <2>4
<1>15. /\ \A j \in Inums \ {i} : content'[j] = content[j]
       /\ writes => \A o \in Offsets : content'[i][o] = IF o \in Pos(i) .. Pos(i) + Round(i) - 1
                                                        THEN Data(i) ELSE content[i][o]
  <2>1. DOMAIN content = Inums /\ DOMAIN content[i] = Offsets
    BY DEF IInv, Shape, Offsets
  <2>2. \A o \in Offsets : con[o] = IF o \in Pos(i) .. Pos(i) + Round(i) - 1
                                    THEN Data(i) ELSE content[i][o]
    BY <2>1
  <2> HIDE DEF con
  <2> QED
    BY <1>10, <2>1, <2>2
<1>16. ASSUME Clean(past') PROVE Located(Vec, i, PathAt(i), r)
  <2>1. Clean(r.last.past) /\ Clean(past)
    BY <1>9, <1>10, <1>12, <1>16, StillClean
  <2>2. Owned(disk, V, Pend, bits, taken)
    BY <1>3, <2>1 DEF TreeInv, Ownership
  <2>3. Located(V, i, path, r)
    BY <1>2, <1>3, <1>4, <1>5, <2>1, <2>2, LocatedAt
  <2> QED
    BY <1>3, <2>3
<1>17. CASE writes
  <2>1. Wrote(i, r)
    BY <1>10, <1>11, <1>12, <1>15, <1>17 DEF Wrote
  <2> QED
    BY <1>1, <1>3, <1>4, <1>8, <1>9, <1>10, <1>12, <1>13, <1>14, <1>15, <1>16, <2>1 DEF Went
<1>18. CASE ~writes
  <2>1. disk' = r.last.disk /\ content' = content /\ (call[i].op = "write" => panicked' # "no")
    BY <1>10, <1>12, <1>18
  <2> QED
    BY <1>1, <1>3, <1>4, <1>8, <1>9, <1>10, <1>12, <1>13, <1>14, <1>15, <1>16, <2>1 DEF Went
<1> QED
  BY <1>17, <1>18

\* What the call has moved, its round included, is within the largest file.
LEMMA MovedIs ==
  ASSUME IInv, NEW i \in Inums, InLoop(i), PathAt(i) # <<>>
  PROVE  /\ \A o : o \in Moved(i) => o \in Offsets
         /\ \A o : o \in Pos(i) .. Pos(i) + Round(i) - 1 => o \in Offsets
         /\ \A o : o \in call[i].off .. call[i].off + (call[i].total + Round(i)) - 1
                     <=> o \in Moved(i) \/ o \in Pos(i) .. Pos(i) + Round(i) - 1
<1>1. Pos(i) + Round(i) <= MAXSIZE
  BY PathAtIs
<1>2. PICK f \in Nat, t \in Nat, n \in Nat : f = call[i].off /\ t = call[i].total /\ n = Round(i) /\ n > 0
                                             /\ Pos(i) = f + t
  BY RoundIs, CountsAre
<1>3. MAXSIZE \in Nat /\ f + t + n <= MAXSIZE
  BY <1>1, <1>2, Sizes
<1>4. Moved(i) = f .. f + t - 1 /\ Pos(i) .. Pos(i) + Round(i) - 1 = f + t .. f + t + n - 1
  BY <1>2 DEF Moved
<1>5. call[i].off .. call[i].off + (call[i].total + Round(i)) - 1 = f .. f + (t + n) - 1
  BY <1>2
<1>6. \A o : o \in f .. f + t - 1 => o \in Offsets
  BY <1>3 DEF Offsets
<1>7. \A o : o \in f + t .. f + t + n - 1 => o \in Offsets
  BY <1>3 DEF Offsets
<1>8. \A x, y, z \in Nat : \A o \in Int :
        o \in x .. x + (y + z) - 1 <=> o \in x .. x + y - 1 \/ o \in x + y .. x + y + z - 1
  OBVIOUS
<1>9. \A o : o \in f .. f + (t + n) - 1 <=> o \in f .. f + t - 1 \/ o \in f + t .. f + t + n - 1
  <2>1. \A o \in Int : o \in f .. f + (t + n) - 1
                         <=> o \in f .. f + t - 1 \/ o \in f + t .. f + t + n - 1
    BY <1>8
  <2>2. \A o : \/ o \in f .. f + (t + n) - 1 \/ o \in f .. f + t - 1 \/ o \in f + t .. f + t + n - 1
               => o \in Int
    OBVIOUS
  <2> QED
    BY <2>1, <2>2
<1> QED
  BY <1>4, <1>5, <1>6, <1>7, <1>8, <1>9

\* A round of inode_read_data() or inode_write_data(): every file holds what it held, and
\* the words of the round are in the file that is written.
LEMMA TransferContent ==
  ASSUME IInv, TreeInv, ContentInv, NEW i \in Inums, Transfer(i) PROVE ContentInv'
<1>1. InLoop(i)
  BY DEF Transfer
<1>2. CASE PathAt(i) = <<>>
  BY <1>2, QuietContent DEF Transfer
<1>3. CASE PathAt(i) # <<>>
  <2>1. PICK r : Went(i, r)
    BY <1>3, TransferIs
  <2>2. /\ ip[i].valid /\ ~Unlinking(i) /\ CachedAt(i) /\ Vec[i] = ip[i].addrs
    BY <1>1, LoopVec
  <2>3. \A j \in Inums \ {i} : Same(j)
    BY <2>1 DEF Went, Same
  <2>4. /\ \A j \in Inums \ {i} : Vec'[j] = Vec[j] /\ Kept(j)' = Kept(j)
        /\ Vec'[i] = r.addrs /\ Kept(i)' /\ Kept(i)
    <3>1. ~Unlinking(i)' /\ ip'[i].valid
      BY <2>1, <2>2 DEF Went, Unlinking
    <3>2. ip'[i].addrs = r.addrs
      BY <2>1 DEF Went
    <3> QED
      BY <2>2, <2>3, <3>1, <3>2, SameKept DEF Kept, Vec
  <2>5. SizedAt(i)'
    <3>1. SizedAt(i)
      BY DEF ContentInv
    <3>2. \A o \in Offsets : content[i][o] # NoWord => content'[i][o] # NoWord
      BY <2>1, NoDataWord DEF Went, Wrote
    <3>3. CASE Wrote(i, r)
      <4>1. Moved(i)' = call[i].off .. call[i].off + (call[i].total + Round(i)) - 1
        BY <2>1, <3>3 DEF Moved, Went, Wrote
      <4>2. \A o \in Moved(i)' : content'[i][o] # NoWord
        <5> SUFFICES ASSUME NEW o \in Moved(i)' PROVE content'[i][o] # NoWord
          OBVIOUS
        <5>1. o \in Offsets /\ (o \in Moved(i) \/ o \in Pos(i) .. Pos(i) + Round(i) - 1)
          BY <1>1, <1>3, <4>1, MovedIs
        <5>2. o \in Moved(i) => content[i][o] # NoWord
          BY <3>1, <3>3 DEF SizedAt, Wrote
        <5> QED
          BY <3>2, <3>3, <5>1, <5>2, NoDataWord DEF Wrote
      <4>3. \A o \in Offsets : content'[i][o] # NoWord => content[i][o] # NoWord \/ o \in Moved(i)'
        BY <1>1, <1>3, <3>3, <4>1, MovedIs DEF Wrote
      <4>4. \A o \in Moved(i) : o \in Moved(i)'
        BY <1>1, <1>3, <4>1, MovedIs
      <4> HIDE DEF Moved
      <4> QED
        BY <2>1, <2>4, <3>1, <3>2, <3>3, <4>2, <4>3, <4>4 DEF SizedAt, Went, Wrote
    <3>4. CASE content' = content /\ (call[i].op = "write" => panicked' # "no")
      <4>1. call[i].op = "write" => Moved(i)' = Moved(i)
        BY <2>1, <3>4 DEF Moved, Went
      <4> HIDE DEF Moved
      <4> QED
        BY <2>1, <2>4, <3>1, <3>4, <4>1 DEF SizedAt, Went
    <3> QED
      BY <2>1, <3>3, <3>4 DEF Went
  <2>6. ASSUME NEW j \in Inums PROVE SizedAt(j)'
    <3>1. SizedAt(j)
      BY DEF ContentInv
    <3> QED
      BY <2>3, <2>5, <3>1, SameSized
  <2>7. ASSUME NEW j \in Inums, Clean(past') PROVE IntactAt(j)' /\ SavedAt(j)'
    <3>1. Clean(past) /\ Located(Vec, i, PathAt(i), r)
      BY <2>1, <2>7, StillClean DEF Went
    <3>2. IntactAt(j) /\ SavedAt(j)
      BY <3>1 DEF ContentInv
    <3>3. SavedAt(j)'
      BY <2>1, <3>2 DEF SavedAt, Went
    <3>4. IntactAt(j)'
      <4> SUFFICES ASSUME Kept(j)' PROVE Holds(content'[j], j, disk', Vec'[j])
        BY DEF IntactAt
      <4>1. PICK V, V2, d, d2, C, C2, path, b :
              /\ V = Vec /\ V2 = Vec' /\ d = r.last.disk /\ d2 = disk' /\ C = content[j] /\ C2 = content'[j]
              /\ path = PathAt(i) /\ b = r.blk
        OBVIOUS
      <4>2. Holds(C, j, disk, V[j])
        BY <2>4, <3>2, <4>1 DEF IntactAt
      <4>3. Located(V, i, path, r) /\ V2[i] = r.addrs /\ \A k \in Inums \ {i} : V2[k] = V[k]
        BY <2>4, <3>1, <4>1
      <4>4. PICK A : A = V2[j]
        OBVIOUS
      <4>5. DataKept(V, d) /\ \A s \in Places : Ref(disk, V[j], s) # 0 => Ref(d, A, s) = Ref(disk, V[j], s)
        <5>1. CASE j = i
          BY <4>1, <4>3, <4>4, <5>1 DEF Located, Grown
        <5>2. CASE j # i
          BY <4>1, <4>3, <4>4, <5>2 DEF Located
        <5> QED
          BY <5>1, <5>2
      <4>6. Holds(C, j, d, A)
        BY <4>2, <4>5, HoldsGrown
      <4>7. Holds(C, j, d, V2[j])
        BY <4>4, <4>6
      <4>8. CASE disk' = r.last.disk /\ content' = content
        BY <4>1, <4>7, <4>8
      <4>9. CASE Wrote(i, r)
        <5>1. d \in Disks /\ V2 \in Vecs /\ path \in Places \ EntryPlaces /\ b # 0 /\ b = Ref(d, V2[i], path)
          <6>1. V2 \in Vecs
            <7>1. Vec \in Vecs /\ r.addrs \in [Addrs -> Words]
              BY <2>1, VecIs DEF Went
            <7>2. Vec' \in Vecs
              BY <2>4, <7>1 DEF Vecs, Vec
            <7> QED
              BY <4>1, <7>2
          <6>2. d \in Disks
            BY <2>1, <4>1 DEF Went, Images, Disks
          <6> QED
            BY <4>1, <4>3, <6>1, <6>2 DEF Located
        <5>2. PICK bs : bs = r.last.bits
          OBVIOUS
        <5>3. Owned(d, V2, Pend, bs, taken)
          <6>1. Ownership(disk, V, Pend, bits, taken) /\ V \in Vecs /\ disk \in Disks
            BY <3>1, <4>1, VecIs DEF TreeInv
          <6>2. Grown(V[i], d, r.addrs, bs) /\ bits \subseteq bs /\ OthersKept(V, i, d)
            BY <4>1, <4>3, <5>2 DEF Located, OthersKept
          <6>3. Ownership(d, V2, Pend, bs, taken)
            BY <4>3, <6>1, <6>2, OwnershipGrown
          <6> QED
            BY <6>3 DEF Ownership
        <5>4. PICK S : S = Span(i)
          OBVIOUS
        <5>5. Rewritten(d, d2, i, b, S)
          BY <4>1, <4>9, <5>4 DEF Wrote
        <5>6. \A o \in Offsets : \/ C2[o] = C[o]
                                 \/ j = i /\ PathTo(o) = path /\ SlotOf(o) \in S /\ C2[o] = Data(i)
          <6>1. CASE j = i
            BY <1>1, <1>3, <4>1, <4>9, <5>4, <6>1, RoundWords DEF Wrote
          <6>2. CASE j # i
            BY <2>1, <4>1, <6>2 DEF Went
          <6> QED
            BY <6>1, <6>2
        <5>8. PICK P, tk : Target(d, V2, P, bs, tk, i, path, b)
          BY <5>1, <5>3 DEF Target
        <5>7. Holds(C2, j, d2, V2[j])
          BY <4>7, <5>8, <5>5, <5>6, HoldsRewritten
        <5> QED
          BY <4>1, <5>7
      <4> QED
        BY <2>1, <4>8, <4>9 DEF Went
    <3> QED
      BY <3>3, <3>4
  <2> QED
    BY <2>6, <2>7 DEF ContentInv
<1> QED
  BY <1>2, <1>3

\* A directory writing to block 0 leaves the words of files.
LEMMA DirWriteContent ==
  ASSUME IInv, TreeInv, ContentInv, NEW e \in Entries, DirWrite(e)
  PROVE  ContentInv'
<1>1. UNCHANGED <<bits, dinode, named, ip, file, call, taken, content, sparse, past>>
  BY DEF DirWrite, History
<1>2. Vec' = Vec /\ \A j \in Inums : Same(j)
  BY <1>1, InodesKept DEF Same
<1>3. ASSUME NEW j \in Inums PROVE SizedAt(j)'
  <2>1. SizedAt(j)
    BY DEF ContentInv
  <2> QED
    BY <1>1, <2>1 DEF SizedAt, Kept, Moved, Unlinking
<1>4. ASSUME NEW j \in Inums, Clean(past') PROVE IntactAt(j)' /\ SavedAt(j)'
  <2>1. IntactAt(j) /\ SavedAt(j) /\ Clean(past)
    BY <1>1, <1>4 DEF ContentInv
  <2>2. SavedAt(j)'
    BY <1>1, <2>1 DEF SavedAt
  <2>3. PICK A, d2 : A = Vec[j] /\ d2 = disk'
    OBVIOUS
  <2>4. /\ \A c \in Blocks \ {0} : d2[c] = disk[c]
        /\ \A s \in Places : Ref(disk, A, s) \in Blocks /\ Ref(d2, A, s) = Ref(disk, A, s)
    BY <2>1, <2>3, DirWriteRefs
  <2>5. ASSUME NEW o \in Offsets PROVE WordOf(d2, A, o) = WordOf(disk, A, o)
    <3>1. PathTo(o) \in Places
      BY OffsetIs
    <3> QED
      BY <2>4, <3>1 DEF WordOf, At
  <2>6. Kept(j)' = Kept(j)
    BY <1>1 DEF Kept, Unlinking
  <2>7. Holds(content[j], j, disk, A) => Holds(content[j], j, d2, A)
    BY <2>5 DEF Holds
  <2> QED
    BY <1>1, <1>2, <2>1, <2>2, <2>3, <2>6, <2>7 DEF IntactAt
<1> QED
  BY <1>3, <1>4 DEF ContentInv

\* Every step keeps the invariant.
LEMMA NextContent == IInv /\ TreeInv /\ ContentInv /\ [Next]_vars => ContentInv'
<1> SUFFICES ASSUME IInv, TreeInv, ContentInv, [Next]_vars PROVE ContentInv'
  OBVIOUS
<1>1. CASE UNCHANGED vars
  BY <1>1, QuietContent DEF vars
<1>2. ASSUME NEW i \in Inums,
             \/ Open(i) \/ Close(i) \/ Evict(i)
             \/ Transfer(i) \/ ReadEnd(i) \/ WriteEnd(i)
             \/ UnlinkStart(i) \/ UnlinkFree(i) \/ UnlinkEnd(i)
             \/ RebootInside(i)
      PROVE  ContentInv'
  <2>1. CASE Close(i)
    BY <2>1, QuietContent DEF Close, OnDisk, History
  <2> QED
    BY <1>2, <2>1, OpenContent, EvictContent, TransferContent, ReadEndContent, WriteEndContent,
       UnlinkStartContent, UnlinkFreeContent, UnlinkEndContent, RebootInsideContent
<1>3. ASSUME NEW i \in Inums, NEW k \in Seeks, Lseek(i, k[2], k[1]) PROVE ContentInv'
  BY <1>3, QuietContent DEF Lseek, OnDisk
<1>4. ASSUME NEW i \in Inums, NEW len \in Lens, NEW user \in BOOLEAN,
             WriteStart(i, len, user) \/ WriteRefused(i, len) \/ ReadStart(i, len, user)
      PROVE  ContentInv'
  <2>1. CASE WriteRefused(i, len)
    BY <1>1, <2>1 DEF WriteRefused
  <2> QED
    BY <1>4, <2>1, WriteStartContent, ReadStartContent
<1>5. ASSUME SysAlloc PROVE ContentInv'
  BY <1>5, QuietContent DEF SysAlloc, History
<1>6. ASSUME NEW b \in Blocks, SysFree(b) PROVE ContentInv'
  BY <1>6, QuietContent DEF SysFree, History
<1>7. ASSUME Reboot PROVE ContentInv'
  BY <1>7, RebootContent
<1>8. ASSUME NEW e \in Entries, DirWrite(e) PROVE ContentInv'
  BY <1>8, DirWriteContent
<1> QED
  BY <1>1, <1>2, <1>3, <1>4, <1>5, <1>6, <1>7, <1>8 DEF Next

\* What the invariant says of words is what the files hold.
LEMMA ContentHeld == ASSUME IInv, TreeInv, ContentInv PROVE ContentAsWritten
<1> SUFFICES ASSUME Clean(past)
             PROVE  /\ \A i \in Live : \A o \in DOMAIN content[i] :
                         content[i][o] # NoWord => WordAt(ip[i].addrs, o) = content[i][o]
                    /\ \A i \in named \ sparse : \A o \in 0 .. dinode[i].size - 1 :
                         content[i][o] # NoWord /\ WordAt(dinode[i].addrs, o) = content[i][o]
  BY DEF ContentAsWritten, Clean
<1>1. ASSUME NEW A, NEW o PROVE WordAt(A, o) = WordOf(disk, A, o)
  BY DEF WordAt, WordOf, PathTo, SlotOf
<1>2. \A i \in Inums : IntactAt(i) /\ SavedAt(i) /\ SizedAt(i)
  BY DEF ContentInv
<1>3. ASSUME NEW i \in Live, NEW o \in DOMAIN content[i], content[i][o] # NoWord
      PROVE  WordAt(ip[i].addrs, o) = content[i][o]
  <2>1. i \in Inums /\ ip[i].valid /\ ~Unlinking(i)
    BY DEF Live
  <2>2. Kept(i) /\ Vec[i] = ip[i].addrs
    BY <2>1 DEF Kept, Vec
  <2>3. o \in Offsets
    BY <2>1 DEF IInv, Shape, Offsets
  <2> QED
    BY <1>1, <1>2, <1>3, <2>1, <2>2, <2>3 DEF IntactAt, Holds
<1>4. ASSUME NEW i \in named \ sparse, NEW o \in 0 .. dinode[i].size - 1
      PROVE  content[i][o] # NoWord /\ WordAt(dinode[i].addrs, o) = content[i][o]
  <2>1. i \in Inums /\ Kept(i) /\ \A a \in Addrs : dinode[i].addrs[a] \in {0, Vec[i][a]}
    BY NamedKept
  <2>2. o \in Offsets /\ o < dinode[i].size
    <3>1. dinode[i].size \in Nat /\ dinode[i].size <= MAXSIZE /\ MAXSIZE \in Nat
      BY <2>1, CountsAre
    <3> QED
      BY <3>1 DEF Offsets
  <2>3. content[i][o] # NoWord
    BY <1>2, <2>1, <2>2 DEF SizedAt
  <2>4. PICK A, B, s : A = Vec[i] /\ B = dinode[i].addrs /\ s = PathTo(o)
    OBVIOUS
  <2>5. content[i][o] = Data(i) /\ WordOf(disk, A, o) = Data(i)
    BY <1>2, <2>1, <2>2, <2>3, <2>4 DEF IntactAt, Holds
  <2>6. s \in Places /\ B[s[1]] = A[s[1]]
    <3>1. B[s[1]] # 0 /\ s[1] \in Addrs /\ s \in Places
      BY <1>2, <2>1, <2>2, <2>4, OffsetIs DEF SavedAt
    <3> QED
      BY <2>1, <2>4, <3>1
  <2>7. Ref(disk, A, s) = Ref(disk, B, s)
    BY <2>6, RefTop
  <2>8. WordOf(disk, B, o) = Data(i)
    BY <2>4, <2>5, <2>7 DEF WordOf
  <2> QED
    BY <1>1, <2>3, <2>4, <2>5, <2>8
<1> QED
  BY <1>3, <1>4

\* Words known are in the trees, and for files without gaps up to the saved size the saved
\* addresses lead to them, at all times.
THEOREM ContentInductive == Spec => []ContentInv
<1>1. Init => ContentInv
  BY InitContent
<1>2. (IInv /\ TreeInv) /\ ContentInv /\ [Next]_vars => ContentInv'
  BY NextContent
<1> QED
  BY <1>1, <1>2, Inductive, TreeInductive, PTL DEF Spec

\* Files hold what inode_write_data() wrote to them, whatever calls on other files, reads
\* of gaps, frees, evictions and reads from the disk again came after; and a file without
\* gaps has it on the disk, up to the saved size, after a power cut between any two disk
\* writes: as long as the disk has not been full and no block with old words in it has
\* become an entry block.
THEOREM ContentStaysAsWritten == Spec => []ContentAsWritten
<1>1. IInv /\ TreeInv /\ ContentInv => ContentAsWritten
  BY ContentHeld
<1> QED
  BY <1>1, Inductive, TreeInductive, ContentInductive, PTL

-----------------------------------------------------------------------------
(* The bits of the bitmap.                                                 *)

\* The entry blocks of a tree are filled from the left, so that data_free(), which stops
\* at the first 0, frees all of it.
Dense(d, A) ==
  /\ \A a \in N1 .. N1 + N2, e \in Entries : Ref(d, A, <<a, e>>) # 0 =>
       \A x \in 0 .. e : Ref(d, A, <<a, x>>) # 0
  /\ \A e, f \in Entries : Ref(d, A, <<N1 + N2, e, f>>) # 0 =>
       \A x \in 0 .. f : Ref(d, A, <<N1 + N2, e, x>>) # 0

\* Bit x is set for the root directory, a process, or a place of a tree.
Accounted(d, V, P, tk, x) ==
  \/ x = 0 \/ x + DataStart \in tk
  \/ \E i \in Inums, s \in Places : Has(d, V, P, i, s, x + DataStart)

\* What a call has transferred has blocks.
MovedThere(i) ==
  call[i].op \in {"read", "write"} => \A o \in Moved(i) : Ref(disk, Vec[i], PathTo(o)) # 0

\* Addresses are unsaved only during a write beyond the size saved, or a read that wraps
\* and will not come to its end.
Unsaved(i) ==
  i \in named /\ ip[i].valid /\ dinode[i].addrs # ip[i].addrs =>
    \/ call[i].op = "read" /\ call[i].off + call[i].len >= W
    \/ call[i].op = "write" /\ (Pos(i) > dinode[i].size \/ ~Running)

\* An inode without a name is in memory because it is open.
Nameless(i) == Running /\ ip[i].valid /\ ~Unlinking(i) /\ i \notin named => file[i].open

FullAt(i) == Dense(disk, Vec[i]) /\ MovedThere(i) /\ Unsaved(i) /\ Nameless(i)

BitsInv ==
  past = {} /\ sparse = {} =>
    /\ \A x \in bits : Accounted(disk, Vec, Pend, taken, x)
    /\ \A i \in Inums : FullAt(i)

\* The number of a block, by the number of indices.
LEMMA BlockAtIs ==
  /\ \A a : BlockAt(<<a>>) = a
  /\ \A a, e : BlockAt(<<a, e>>) = N1 + (a - N1) * E + e
  /\ \A a, e, f : BlockAt(<<a, e, f>>) = N1 + N2 * E + e * E + f
BY DEF BlockAt

\* inode_locate_block() finds every place for data.
LEMMA PathInverse ==
  ASSUME NEW p, IsPath(p)
  PROVE  BlockAt(p) \in Nat /\ Path(BlockAt(p)) = p
<1>1. N1 \in Nat /\ N2 \in Nat /\ E \in Nat /\ E >= 1 /\ N2 * E \in Nat /\ E * E \in Nat /\ N2 >= 1
  BY Sizes
<1>2. CASE \E a \in 0 .. N1 - 1 : p = <<a>>
  <2>1. PICK a \in 0 .. N1 - 1 : p = <<a>>
    BY <1>2
  <2>2. BlockAt(p) = a
    BY <2>1, BlockAtIs
  <2> QED
    BY <1>1, <2>1, <2>2 DEF Path
<1>3. CASE \E a \in N1 .. N1 + N2 - 1, e \in Entries : p = <<a, e>>
  <2>1. PICK a \in N1 .. N1 + N2 - 1, e \in Entries : p = <<a, e>>
    BY <1>3
  <2>2. PICK q \in Nat : q = a - N1 /\ a = N1 + q /\ q < N2
    BY <1>1
  <2>3. e \in Nat /\ e < E /\ q * E \in Nat
    BY <1>1 DEF Entries
  <2>4. PICK c \in Nat : c = q * E + e
    BY <2>3
  <2>5. c \div E = q /\ c % E = e
    BY <2>4, Division
  <2>6. PICK bn \in Nat : bn = N1 + c /\ bn - N1 = c
    BY <1>1
  <2>7. BlockAt(p) = bn
    <3>1. BlockAt(<<a, e>>) = N1 + (a - N1) * E + e
      BY BlockAtIs
    <3>2. N1 + q * E + e = bn
      BY <1>1, <2>3, <2>4, <2>6
    <3> QED
      BY <2>1, <2>2, <3>1, <3>2
  <2>8. c < N2 * E
    <3>1. PICK k \in Nat : N2 = q + 1 + k
      BY <1>1, <2>2
    <3>2. N2 * E = q * E + E + k * E /\ k * E \in Nat
      BY <1>1, <3>1
    <3> QED
      BY <1>1, <2>3, <2>4, <3>2
  <2>9. Path(bn) = <<N1 + c \div E, c % E>>
    <3>1. ~(bn - N1 < 0) /\ (bn - N1) - N2 * E < 0
      BY <1>1, <2>6, <2>8
    <3> QED
      BY <2>6, <3>1 DEF Path
  <2> QED
    BY <2>1, <2>2, <2>5, <2>7, <2>9
<1>4. CASE \E e, f \in Entries : p = <<N1 + N2, e, f>>
  <2>1. PICK e \in Entries, f \in Entries : p = <<N1 + N2, e, f>>
    BY <1>4
  <2>3. e \in Nat /\ e < E /\ f \in Nat /\ f < E /\ e * E \in Nat
    BY <1>1 DEF Entries
  <2>4. PICK d \in Nat : d = e * E + f
    BY <2>3
  <2>5. d \div E = e /\ d % E = f
    BY <2>3, <2>4, Division
  <2>6. PICK bn \in Nat : bn = N1 + N2 * E + d /\ bn - N1 - N2 * E = d /\ bn - N1 = N2 * E + d
    BY <1>1
  <2>7. BlockAt(p) = bn
    <3>1. BlockAt(<<N1 + N2, e, f>>) = N1 + N2 * E + e * E + f
      BY BlockAtIs
    <3>2. N1 + N2 * E + e * E + f = bn
      BY <1>1, <2>3, <2>4, <2>6
    <3> QED
      BY <2>1, <3>1, <3>2
  <2>8. d < E * E
    <3>1. PICK n \in Nat : n = E
      BY <1>1
    <3>2. PICK k \in Nat : n = e + 1 + k
      BY <2>3, <3>1
    <3>3. n * E = e * E + E + k * E /\ k * E \in Nat
      BY <1>1, <2>3, <3>2
    <3> QED
      BY <1>1, <2>3, <2>4, <3>1, <3>3
  <2>9. Path(bn) = <<N1 + N2, d \div E, d % E>>
    <3>1. ~(bn - N1 < 0) /\ ~((bn - N1) - N2 * E < 0) /\ (bn - N1) - N2 * E = d
      BY <1>1, <2>6
    <3> QED
      BY <2>8, <3>1 DEF Path
  <2> QED
    BY <2>1, <2>5, <2>7, <2>9
<1> QED
  BY <1>2, <1>3, <1>4 DEF IsPath

\* Blocks with smaller numbers have smaller offsets.
LEMMA EarlierOffset ==
  ASSUME NEW pos \in Offsets, NEW p, IsPath(p), BlockAt(p) < BlockAt(PathTo(pos))
  PROVE  \E o \in Offsets : o < pos /\ PathTo(o) = p
<1>1. E \in Nat /\ E >= 1 /\ MAXSIZE \in Nat /\ pos \in Nat /\ pos < MAXSIZE
  BY Sizes DEF Offsets
<1>2. PICK x \in Nat : x = BlockAt(p) /\ Path(x) = p
  BY PathInverse
<1>3. PICK y \in Nat, m \in Nat : y = pos \div E /\ pos = y * E + m
  <2>1. pos \div E \in Nat /\ pos % E \in Nat
    BY <1>1
  <2>2. pos = (pos \div E) * E + (pos % E)
    BY <1>1
  <2> QED
    BY <2>1, <2>2
<1>4. BlockAt(PathTo(pos)) = y
  <2>1. y < MaxBlocks
    BY <1>1, <1>3, BlockOf
  <2> QED
    BY <1>3, <2>1, PathBlock DEF PathTo
<1>5. PICK k \in Nat : y = x + 1 + k
  <2>1. x < y
    BY <1>2, <1>4
  <2> QED
    BY <2>1
<1>6. y * E = x * E + E + k * E /\ k * E \in Nat /\ x * E \in Nat
  BY <1>1, <1>5
<1>7. PICK o \in Nat : o = x * E + 0
  BY <1>6
<1>8. o < pos /\ o \in Offsets
  BY <1>1, <1>3, <1>6, <1>7 DEF Offsets
<1>9. o \div E = x
  BY <1>7, Numbers, Division
<1>10. PathTo(o) = p
  BY <1>2, <1>9 DEF PathTo
<1> QED
  BY <1>8, <1>10

\* The order of block numbers is that of the indices.
LEMMA EarlierBlock ==
  /\ \A a \in N1 .. N1 + N2 - 1 : \A e, x \in Entries : x < e => BlockAt(<<a, x>>) < BlockAt(<<a, e>>)
  /\ \A e, f, x, y \in Entries : x < e \/ (x = e /\ y < f) =>
       BlockAt(<<N1 + N2, x, y>>) < BlockAt(<<N1 + N2, e, f>>)
<1>1. N1 \in Nat /\ N2 \in Nat /\ E \in Nat /\ E >= 1 /\ N2 * E \in Nat
  BY Sizes
<1>2. ASSUME NEW a \in N1 .. N1 + N2 - 1, NEW e \in Entries, NEW x \in Entries, x < e
      PROVE  BlockAt(<<a, x>>) < BlockAt(<<a, e>>)
  <2>1. PICK q \in Nat : q = a - N1
    BY <1>1
  <2>2. PICK n \in Nat : n = q * E
    BY <1>1
  <2>3. BlockAt(<<a, x>>) = N1 + n + x /\ BlockAt(<<a, e>>) = N1 + n + e
    BY <2>1, <2>2, BlockAtIs
  <2> QED
    BY <1>1, <1>2, <2>3 DEF Entries
<1>3. ASSUME NEW e \in Entries, NEW f \in Entries, NEW x \in Entries, NEW y \in Entries,
             x < e \/ (x = e /\ y < f)
      PROVE  BlockAt(<<N1 + N2, x, y>>) < BlockAt(<<N1 + N2, e, f>>)
  <2>1. PICK m \in Nat, n \in Nat : m = x * E /\ n = e * E
    BY <1>1 DEF Entries
  <2>2. PICK z \in Nat : z = N1 + N2 * E
    BY <1>1
  <2>3. BlockAt(<<N1 + N2, x, y>>) = z + m + y /\ BlockAt(<<N1 + N2, e, f>>) = z + n + f
    BY <2>1, <2>2, BlockAtIs
  <2>4. f \in Nat /\ y \in Nat /\ y < E
    BY <1>1 DEF Entries
  <2>5. CASE x < e
    <3>1. PICK k \in Nat : e = x + 1 + k /\ x \in Nat
      BY <1>1, <2>5 DEF Entries
    <3>2. e * E = x * E + E + k * E /\ k * E \in Nat
      BY <1>1, <3>1
    <3> QED
      BY <1>1, <2>1, <2>3, <2>4, <3>2
  <2>6. CASE x = e /\ y < f
    BY <2>1, <2>3, <2>4, <2>6
  <2> QED
    BY <1>3, <2>5, <2>6
<1> QED
  BY <1>2, <1>3

-----------------------------------------------------------------------------
(* Freeing a tree.                                                         *)

\* The entries of a block that is filled from the left are all visited.
LEMMA LeadingAll ==
  ASSUME NEW b, NEW above, b \in Blocks \ above, NEW e \in Entries, \A x \in 0 .. e : disk[b][x] # 0
  PROVE  <<e, disk[b][e]>> \in Leading(b, above)
<1>1. Leading(b, above) = {<<f, disk[b][f]>> : f \in {g \in Entries : \A d \in 0 .. g : disk[b][d] # 0}}
  BY DEF Leading
<1>2. e \in {g \in Entries : \A d \in 0 .. g : disk[b][d] # 0}
  OBVIOUS
<1> QED
  BY <1>1, <1>2

\* data_free() of level 1 frees the block itself and the blocks of its entries.
LEMMA DataFree1All ==
  ASSUME NEW s, NEW b, NEW above, b \in Blocks \ above
  PROVE  /\ <<s, b>> \in DataFree1(s, b, above)
         /\ \A e \in Entries : (\A x \in 0 .. e : disk[b][x] # 0) =>
              <<Append(s, e), disk[b][e]>> \in DataFree1(s, b, above)
<1>1. <<s, b>> \in DataFree1(s, b, above)
  BY DEF DataFree1
<1>2. ASSUME NEW e \in Entries, \A x \in 0 .. e : disk[b][x] # 0
      PROVE  <<Append(s, e), disk[b][e]>> \in DataFree1(s, b, above)
  <2>1. PICK y : y = <<e, disk[b][e]>>
    OBVIOUS
  <2>2. y \in Leading(b, above) /\ y[1] = e /\ y[2] = disk[b][e]
    BY <1>2, <2>1, LeadingAll
  <2>3. <<Append(s, y[1]), y[2]>> \in DataFree1(s, b, above)
    BY <2>2 DEF DataFree1
  <2> QED
    BY <2>2, <2>3
<1> QED
  BY <1>1, <1>2

\* Of an address of level 0, 1 or 2, what inode_free_data() frees.
LEMMA FreeDataHas ==
  ASSUME NEW A, NEW a \in Addrs, A[a] # 0
  PROVE  /\ a < N1 => << <<a>>, A[a]>> \in FreeData(A)
         /\ ~(a < N1) /\ a < N1 + N2 => DataFree1(<<a>>, A[a], {}) \subseteq FreeData(A)
         /\ ~(a < N1) /\ ~(a < N1 + N2) => DataFree2(<<a>>, A[a]) \subseteq FreeData(A)
<1> DEFINE F(c) == IF c < N1 THEN {<< <<c>>, A[c]>>}
                   ELSE IF c < N1 + N2 THEN DataFree1(<<c>>, A[c], {}) ELSE DataFree2(<<c>>, A[c])
<1>1. F(a) \subseteq FreeData(A)
  BY DEF FreeData
<1> QED
  BY <1>1

\* The entry blocks of level 1 under the block of level 2.
LEMMA DataFree2Has ==
  ASSUME NEW s, NEW b \in Blocks, NEW e \in Entries, \A x \in 0 .. e : disk[b][x] # 0
  PROVE  /\ DataFree1(Append(s, e), disk[b][e], {b}) \subseteq DataFree2(s, b)
         /\ <<s, b>> \in DataFree2(s, b)
<1>1. PICK y : y = <<e, disk[b][e]>>
  OBVIOUS
<1>2. y \in Leading(b, {}) /\ y[1] = e /\ y[2] = disk[b][e]
  BY <1>1, LeadingAll
<1>3. e # Unreadable
  BY Sizes DEF Entries, Unreadable
<1> DEFINE G(x) == IF x[1] = Unreadable THEN {<<Append(s, x[1]), x[2]>>}
                   ELSE DataFree1(Append(s, x[1]), x[2], {b})
<1>4. DataFree2(s, b) = {<<s, b>>} \cup UNION {G(x) : x \in Leading(b, {})}
  BY DEF DataFree2
<1>5. G(y) = DataFree1(Append(s, e), disk[b][e], {b})
  BY <1>2, <1>3
<1> QED
  BY <1>2, <1>4, <1>5

\* inode_free_data() frees all of a tree whose entry blocks are filled from the left.
LEMMA FreeDataAll ==
  ASSUME NEW A, Sole(A), Dense(disk, A)
  PROVE  \A s \in Places : Ref(disk, A, s) # 0 => <<s, Ref(disk, A, s)>> \in FreeData(A)
<1> SUFFICES ASSUME NEW s \in Places, Ref(disk, A, s) # 0
             PROVE  <<s, Ref(disk, A, s)>> \in FreeData(A)
  OBVIOUS
<1>1. N1 \in Nat /\ N2 \in Nat /\ N2 >= 1
  BY Sizes
<1>2. \A e \in Entries : e \in Int /\ 0 \in 0 .. e /\ \A x \in 0 .. e : x \in Entries
  BY Sizes DEF Entries
<1>3. ASSUME NEW a \in N1 .. N1 + N2, A[a] # 0
      PROVE  /\ A[a] \in Blocks /\ a \in Addrs /\ a \in Int
             /\ \A e \in Entries : Ref(disk, A, <<a, e>>) = disk[A[a]][e] /\ Append(<<a>>, e) = <<a, e>>
             /\ \A e \in Entries : Ref(disk, A, <<a, e>>) # 0 => \A x \in 0 .. e : disk[A[a]][x] # 0
  <2>1. a \in Addrs /\ a \in Int /\ <<a>> \in Places
    BY <1>1, PlacesAre
  <2>2. A[a] \in Blocks
    BY <1>3, <2>1, RefIs DEF Sole
  <2>3. \A e \in Entries : Ref(disk, A, <<a, e>>) = disk[A[a]][e]
    BY <1>3, RefIs DEF At
  <2>4. \A e \in Entries : Append(<<a>>, e) = <<a, e>>
    BY <1>2, <2>1, Appended
  <2>5. \A e \in Entries : Ref(disk, A, <<a, e>>) # 0 => \A x \in 0 .. e : Ref(disk, A, <<a, x>>) # 0
    BY DEF Dense
  <2> QED
    BY <1>2, <2>1, <2>2, <2>3, <2>4, <2>5
<1>4. CASE \E a \in Addrs : s = <<a>>
  <2>1. PICK a \in Addrs : s = <<a>>
    BY <1>4
  <2>2. Ref(disk, A, s) = A[a] /\ A[a] # 0
    BY <2>1, RefIs
  <2>3. CASE a < N1
    BY <2>1, <2>2, <2>3, FreeDataHas
  <2>4. CASE ~(a < N1)
    <3>1. a \in N1 .. N1 + N2
      BY <1>1, <2>4 DEF Addrs
    <3>2. PICK b \in Blocks : b = A[a]
      BY <1>3, <2>2, <3>1
    <3>3. <<s, b>> \in DataFree1(s, b, {}) /\ <<s, b>> \in DataFree2(s, b)
      BY DEF DataFree1, DataFree2
    <3> QED
      BY <2>1, <2>2, <2>4, <3>2, <3>3, FreeDataHas
  <2> QED
    BY <2>3, <2>4
<1>5. CASE \E a \in N1 .. N1 + N2, e \in Entries : s = <<a, e>>
  <2>1. PICK a \in N1 .. N1 + N2, e \in Entries : s = <<a, e>>
    BY <1>5
  <2>2. A[a] # 0
    BY <2>1, RefIs DEF At
  <2>3. PICK b \in Blocks : b = A[a] /\ b # 0
    BY <1>3, <2>2
  <2>4. /\ Ref(disk, A, s) = disk[b][e] /\ Append(<<a>>, e) = s /\ a \in Addrs
        /\ \A x \in 0 .. e : disk[b][x] # 0
    BY <1>3, <2>1, <2>2, <2>3
  <2>5. CASE a < N1 + N2
    <3>1. <<s, disk[b][e]>> \in DataFree1(<<a>>, b, {})
      BY <2>4, DataFree1All
    <3>2. ~(a < N1)
      BY <1>1
    <3>3. DataFree1(<<a>>, A[a], {}) \subseteq FreeData(A)
      BY <2>2, <2>4, <2>5, <3>2, FreeDataHas
    <3> QED
      BY <2>3, <2>4, <3>1, <3>3
  <2>6. CASE ~(a < N1 + N2)
    <3>1. DataFree1(s, disk[b][e], {b}) \subseteq DataFree2(<<a>>, b)
      BY <2>4, DataFree2Has
    <3>2. <<s, disk[b][e]>> \in DataFree1(s, disk[b][e], {b})
      BY DEF DataFree1
    <3>3. ~(a < N1)
      BY <1>1
    <3>4. DataFree2(<<a>>, A[a]) \subseteq FreeData(A)
      BY <2>2, <2>4, <2>6, <3>3, FreeDataHas
    <3> QED
      BY <2>3, <2>4, <3>1, <3>2, <3>4
  <2> QED
    BY <2>5, <2>6
<1>6. CASE \E e, f \in Entries : s = <<N1 + N2, e, f>>
  <2>0. PICK a \in N1 .. N1 + N2 : a = N1 + N2
    BY <1>1
  <2>1. PICK e \in Entries, f \in Entries : s = <<a, e, f>>
    BY <1>6, <2>0
  <2>2. Ref(disk, A, s) = At(disk, At(disk, A[a], e), f)
    BY <2>1, RefIs
  <2>3. A[a] # 0 /\ At(disk, A[a], e) # 0
    BY <2>2 DEF At
  <2>4. PICK b \in Blocks : b = A[a] /\ b # 0
    BY <1>3, <2>3
  <2>5. PICK c : c = disk[b][e] /\ c = At(disk, A[a], e) /\ c # 0
    BY <2>3, <2>4 DEF At
  <2>6. PICK t : t = <<a, e>>
    OBVIOUS
  <2>7. t \in Places /\ Ref(disk, A, t) = c /\ <<a>> \in Places /\ Ref(disk, A, <<a>>) = b /\ t # <<a>>
    BY <1>3, <2>3, <2>4, <2>5, <2>6, PlacesAre, RefIs
  <2>8. c \in Blocks \ {b}
    BY <2>4, <2>5, <2>7 DEF Sole
  <2>9. /\ Append(<<a>>, e) = t /\ a \in Addrs /\ a \in Int
        /\ \A x \in 0 .. e : disk[b][x] # 0
    BY <1>3, <2>3, <2>4, <2>5, <2>6, <2>7
  <2>10. \A x \in Entries : Ref(disk, A, <<a, e, x>>) = disk[c][x]
    <3>1. \A x \in Entries : Ref(disk, A, <<a, e, x>>) = At(disk, c, x)
      BY <2>5, RefIs
    <3> QED
      BY <2>5, <3>1 DEF At
  <2>11. \A x \in 0 .. f : disk[c][x] # 0
    <3>1. \A x \in 0 .. f : Ref(disk, A, <<N1 + N2, e, x>>) # 0
      BY <2>0, <2>1 DEF Dense
    <3> QED
      BY <1>2, <2>0, <2>10, <3>1
  <2>12. Append(t, f) = s
    BY <1>2, <2>1, <2>6, <2>9, Appended
  <2>13. <<s, disk[c][f]>> \in DataFree1(t, c, {b})
    BY <2>8, <2>11, <2>12, DataFree1All
  <2>14. DataFree1(t, c, {b}) \subseteq DataFree2(<<a>>, b)
    BY <2>5, <2>9, DataFree2Has
  <2>15. DataFree2(<<a>>, b) \subseteq FreeData(A)
    <3>1. ~(a < N1) /\ ~(a < N1 + N2)
      BY <1>1, <2>0
    <3>2. DataFree2(<<a>>, A[a]) \subseteq FreeData(A)
      BY <2>3, <2>9, <3>1, FreeDataHas
    <3> QED
      BY <2>4, <3>2
  <2>16. Ref(disk, A, s) = disk[c][f]
    BY <2>1, <2>10
  <2> QED
    BY <2>13, <2>14, <2>15, <2>16
<1> QED
  BY <1>4, <1>5, <1>6, PlaceCases

-----------------------------------------------------------------------------
(* Steps.                                                                  *)

\* No power cut, no full disk, no old entries, no gaps.
Calm == past = {} /\ sparse = {}

AllAccounted(d, V, P, tk, bs) == \A x \in bs : Accounted(d, V, P, tk, x)

\* The trees V on disk d are within those of V2 on d2.
Covers(d, V, P, d2, V2, P2) ==
  \A j \in Inums, s \in Places : \A b : Has(d, V, P, j, s, b) => Has(d2, V2, P2, j, s, b)

\* More places and processes account for fewer bits.
LEMMA AccountedMore ==
  ASSUME NEW d, NEW V, NEW P, NEW tk, NEW bs, AllAccounted(d, V, P, tk, bs),
         NEW d2, NEW V2, NEW P2, Covers(d, V, P, d2, V2, P2),
         NEW tk2, tk \subseteq tk2, NEW bs2, bs2 \subseteq bs
  PROVE  AllAccounted(d2, V2, P2, tk2, bs2)
BY DEF AllAccounted, Accounted, Covers

\* A tree of no blocks.
LEMMA DenseNone == ASSUME NEW d PROVE Dense(d, NoAddrs)
BY NoneHas, PlacesAre DEF Dense

\* An inode that a step leaves alone.
LEMMA SameFull ==
  ASSUME NEW j \in Inums, Same(j), file'[j] = file[j], Running' => Running, disk' = disk, FullAt(j)
  PROVE  FullAt(j)'
<1>1. Vec'[j] = Vec[j] /\ Unlinking(j)' = Unlinking(j)
  BY SameKept
<1>2. Dense(disk, Vec[j])'
  BY <1>1 DEF FullAt
<1>3. MovedThere(j)'
  BY <1>1 DEF FullAt, MovedThere, Moved, Same
<1>4. Unsaved(j)'
  BY DEF FullAt, Unsaved, Same, Pos
<1>5. Nameless(j)'
  BY <1>1 DEF FullAt, Nameless, Same
<1> QED
  BY <1>2, <1>3, <1>4, <1>5 DEF FullAt

\* A step on one inode.
LEMMA OneBits ==
  ASSUME BitsInv, past \subseteq past', sparse \subseteq sparse', disk' = disk, Running' => Running,
         NEW i, \A j \in Inums \ {i} : Same(j) /\ file'[j] = file[j],
         Calm /\ Calm' => /\ i \in Inums => FullAt(i)'
                          /\ \A x \in bits' : Accounted(disk', Vec', Pend', taken', x)
  PROVE  BitsInv'
<1> SUFFICES ASSUME Calm' PROVE (\A x \in bits : Accounted(disk, Vec, Pend, taken, x))'
                                /\ \A j \in Inums : FullAt(j)'
  BY DEF BitsInv, Calm
<1>1. Calm
  BY DEF Calm
<1>2. ASSUME NEW j \in Inums PROVE FullAt(j)'
  <2>1. FullAt(j)
    BY <1>1 DEF BitsInv, Calm
  <2>2. CASE j = i
    BY <1>1, <2>2
  <2>3. CASE j # i
    BY <2>1, <2>3, SameFull
  <2> QED
    BY <2>2, <2>3
<1> QED
  BY <1>1, <1>2

\* Of what a calm state has.
LEMMA CalmHas ==
  ASSUME IInv, TreeInv, BitsInv, Calm
  PROVE  /\ \A j \in Inums : FullAt(j) /\ CachedAt(j)
         /\ \A x \in bits : Accounted(disk, Vec, Pend, taken, x)
         /\ Clean(past) /\ Ownership(disk, Vec, Pend, bits, taken)
<1>1. Clean(past)
  BY DEF Clean, Calm
<1> QED
  BY <1>1 DEF BitsInv, Calm, TreeInv, Cached

\* Trees and pending frees unchanged, no bit set.
LEMMA SameBits ==
  ASSUME IInv, TreeInv, BitsInv, Calm, \A j \in Inums : Vec'[j] = Vec[j] /\ Pend'[j] = Pend[j],
         disk' = disk, bits' \subseteq bits, taken \subseteq taken'
  PROVE  \A x \in bits' : Accounted(disk', Vec', Pend', taken', x)
<1>1. \A x \in bits : Accounted(disk, Vec, Pend, taken, x)
  BY CalmHas
<1>2. PICK V, P, V2, P2, bs2, tk2 :
        V = Vec /\ P = Pend /\ V2 = Vec' /\ P2 = Pend' /\ bs2 = bits' /\ tk2 = taken'
  OBVIOUS
<1>3. Covers(disk, V, P, disk, V2, P2)
  BY <1>2 DEF Has, Covers
<1>4. AllAccounted(disk, V, P, taken, bits) /\ bs2 \subseteq bits /\ taken \subseteq tk2
  BY <1>1, <1>2 DEF AllAccounted
<1>5. AllAccounted(disk, V2, P2, tk2, bs2)
  BY <1>3, <1>4, AccountedMore
<1> QED
  BY <1>2, <1>5 DEF AllAccounted

\* The disk of mkfs.
LEMMA InitBits == Init => BitsInv
<1> SUFFICES ASSUME Init PROVE BitsInv
  OBVIOUS
<1>1. /\ bits = {0} /\ \A i \in Inums : ip[i].valid = FALSE /\ call[i].op = "none"
      /\ \A i \in Inums : dinode[i].addrs = NoAddrs
  BY DEF Init, NoInode, NoCall, NewCall
<1>2. ASSUME NEW i \in Inums PROVE FullAt(i)
  <2>1. Vec[i] = NoAddrs
    BY <1>1 DEF Vec, Unlinking
  <2>2. Dense(disk, Vec[i])
    BY <2>1, DenseNone
  <2> QED
    BY <1>1, <2>2 DEF FullAt, MovedThere, Unsaved, Nameless
<1> QED
  BY <1>1, <1>2 DEF BitsInv, Accounted

\* sys_open(): the tree in memory is the one on the disk.
LEMMA OpenBits == ASSUME IInv, TreeInv, BitsInv, NEW i \in Inums, Open(i) PROVE BitsInv'
<1>1. /\ call[i].op = "none" /\ i \in named
      /\ UNCHANGED <<bits, disk, dinode, named, call, taken, panicked, content, sparse, past>>
      /\ \A j \in Inums \ {i} : file'[j] = file[j]
  BY DEF Open, Idle, OnDisk, History, IInv, Shape
<1>2. \A j \in Inums : ip'[j] = IF j = i THEN Locked(i) ELSE ip[j]
  BY DEF Open, IInv, Shape
<1>3. /\ Locked(i).valid = TRUE
      /\ Locked(i).addrs = IF ip[i].valid THEN ip[i].addrs ELSE dinode[i].addrs
  BY DEF Locked, IInv, Shape
<1>4. \A j \in Inums \ {i} : Same(j)
  BY <1>1, <1>2 DEF Same
<1>5. Vec'[i] = Vec[i] /\ \A j \in Inums : Pend'[j] = Pend[j]
  BY <1>1, <1>2, <1>3 DEF Vec, Pend, Unlinking
<1>6. \A j \in Inums : Vec'[j] = Vec[j]
  BY <1>4, <1>5, SameKept
<1>7. ASSUME Calm PROVE FullAt(i)'
  <2>1. FullAt(i)
    BY <1>7, CalmHas
  <2>2. Unsaved(i)'
    BY <1>1, <1>2, <1>3, <2>1 DEF FullAt, Unsaved
  <2>3. Dense(disk, Vec[i])'
    BY <1>1, <1>5, <2>1 DEF FullAt
  <2> QED
    BY <1>1, <2>2, <2>3 DEF FullAt, MovedThere, Nameless
<1> QED
  BY <1>1, <1>4, <1>5, <1>6, <1>7, SameBits, OneBits DEF Running

\* The last file_close().
LEMMA CloseBits == ASSUME IInv, TreeInv, BitsInv, NEW i \in Inums, Close(i) PROVE BitsInv'
<1>1. /\ call[i].op = "none" /\ Running
      /\ UNCHANGED <<bits, disk, dinode, named, ip, call, taken, content, sparse, past>>
      /\ \A j \in Inums \ {i} : file'[j] = file[j]
      /\ i \in named \/ panicked' = "destroy"
  BY DEF Close, HasFile, Idle, OnDisk, History, IInv, Shape
<1>2. \A j \in Inums : Same(j)
  BY <1>1 DEF Same
<1>3. \A j \in Inums : Vec'[j] = Vec[j] /\ Pend'[j] = Pend[j]
  BY <1>1, <1>2, SameKept DEF Pend, Unlinking
<1>4. ASSUME Calm PROVE FullAt(i)'
  <2>1. FullAt(i)
    BY <1>4, CalmHas
  <2>2. Unsaved(i)'
    BY <1>1, <2>1 DEF FullAt, Unsaved
  <2>3. Dense(disk, Vec[i])'
    BY <1>1, <1>3, <2>1 DEF FullAt
  <2> QED
    BY <1>1, <2>2, <2>3 DEF FullAt, MovedThere, Nameless, Running
<1> QED
  BY <1>1, <1>2, <1>3, <1>4, SameBits, OneBits

\* inode_alloc() clearing a slot: the inode has a name, and its addresses are saved.
LEMMA EvictBits == ASSUME IInv, TreeInv, BitsInv, NEW i \in Inums, Evict(i) PROVE BitsInv'
<1>1. /\ call[i].op = "none" /\ Running /\ ip[i].valid /\ ~file[i].open
      /\ UNCHANGED <<bits, disk, dinode, named, file, call, taken, panicked, sparse, past>>
  BY DEF Evict, Idle, OnDisk
<1>2. \A j \in Inums : ip'[j] = IF j = i THEN NoInode ELSE ip[j]
  BY DEF Evict, IInv, Shape
<1>3. NoInode.valid = FALSE
  BY DEF NoInode
<1>4. \A j \in Inums \ {i} : content'[j] = content[j]
  BY DEF Evict, IInv, Shape
<1>5. \A j \in Inums \ {i} : Same(j)
  BY <1>1, <1>2, <1>4 DEF Same
<1>6. ASSUME Calm PROVE FullAt(i)' /\ \A j \in Inums : Vec'[j] = Vec[j] /\ Pend'[j] = Pend[j]
  <2>1. FullAt(i)
    BY <1>6, CalmHas
  <2>2. i \in named
    BY <1>1, <2>1 DEF FullAt, Nameless, Unlinking
  <2>3. dinode[i].addrs = ip[i].addrs
    BY <1>1, <2>1, <2>2 DEF FullAt, Unsaved
  <2>4. Vec'[i] = Vec[i]
    BY <1>1, <1>2, <1>3, <2>2, <2>3 DEF Vec, Unlinking
  <2>5. \A j \in Inums : Vec'[j] = Vec[j] /\ Pend'[j] = Pend[j]
    BY <1>1, <1>5, <2>4, SameKept DEF Pend, Unlinking
  <2>6. Dense(disk, Vec[i])'
    BY <1>1, <2>1, <2>4 DEF FullAt
  <2> QED
    BY <1>1, <1>2, <1>3, <2>2, <2>5, <2>6 DEF FullAt, MovedThere, Unsaved, Nameless
<1> QED
  BY <1>1, <1>5, <1>6, SameBits, OneBits DEF Running

\* sys_lseek.
LEMMA LseekBits ==
  ASSUME IInv, TreeInv, BitsInv, NEW i \in Inums, NEW o, NEW flags, Lseek(i, o, flags)
  PROVE  BitsInv'
<1>1. /\ file[i].open
      /\ UNCHANGED <<bits, disk, dinode, named, ip, call, taken, panicked, content, sparse, past>>
      /\ \A j \in Inums \ {i} : file'[j] = file[j]
      /\ file'[i].open = file[i].open
  BY DEF Lseek, OnDisk, IInv, Shape
<1>2. \A j \in Inums : Same(j)
  BY <1>1 DEF Same
<1>3. \A j \in Inums : Vec'[j] = Vec[j] /\ Pend'[j] = Pend[j]
  BY <1>1, <1>2, SameKept DEF Pend, Unlinking
<1>4. ASSUME Calm PROVE FullAt(i)'
  <2>1. FullAt(i)
    BY <1>4, CalmHas
  <2>2. Unsaved(i)'
    BY <1>1, <2>1 DEF FullAt, Unsaved, Pos, Running
  <2>3. Dense(disk, Vec[i])' /\ MovedThere(i)'
    BY <1>1, <1>3, <2>1 DEF FullAt, MovedThere, Moved
  <2>4. Nameless(i)'
    BY <1>1 DEF Nameless
  <2> QED
    BY <2>2, <2>3, <2>4 DEF FullAt
<1> QED
  BY <1>1, <1>2, <1>3, <1>4, SameBits, OneBits DEF Running

\* The start of a read or write: it has moved nothing.
LEMMA StartBits ==
  ASSUME IInv, TreeInv, BitsInv, NEW i \in Inums, NEW c, call[i].op = "none",
         c.op \in {"read", "write"}, c.total = 0, c.off \in Nat,
         \A j \in Inums : call'[j] = IF j = i THEN c ELSE call[j],
         UNCHANGED <<bits, disk, dinode, named, ip, file, taken, panicked, content, past>>,
         sparse \subseteq sparse', \A j \in Inums \ {i} : j \in sparse' => j \in sparse
  PROVE  BitsInv'
<1>1. \A j \in Inums \ {i} : Same(j)
  BY DEF Same
<1>2. call'[i] = c /\ ~Unlinking(i) /\ ~Unlinking(i)'
  BY DEF Unlinking
<1>3. \A j \in Inums : Vec'[j] = Vec[j] /\ Pend'[j] = Pend[j]
  <2>1. Vec'[i] = Vec[i] /\ Pend'[i] = Pend[i]
    BY <1>2 DEF Vec, Pend
  <2>2. ASSUME NEW j \in Inums, j # i PROVE Vec'[j] = Vec[j] /\ Pend'[j] = Pend[j]
    BY <1>1, <2>2, SameKept DEF Pend
  <2> QED
    BY <2>1, <2>2
<1>4. ASSUME Calm PROVE FullAt(i)'
  <2>1. FullAt(i)
    BY <1>4, CalmHas
  <2>2. Unsaved(i)'
    BY <2>1 DEF FullAt, Unsaved
  <2>3. Dense(disk, Vec[i])'
    BY <1>3, <2>1 DEF FullAt
  <2>4. MovedThere(i)'
    <3>1. \A o : o \notin Moved(i)'
      BY <1>2 DEF Moved
    <3> QED
      BY <3>1 DEF MovedThere
  <2>5. Nameless(i)'
    BY <1>2, <2>1 DEF FullAt, Nameless, Running
  <2> QED
    BY <2>2, <2>3, <2>4, <2>5 DEF FullAt
<1> QED
  BY <1>1, <1>3, <1>4, SameBits, OneBits DEF Running

\* inode_write_data() at its start.
LEMMA WriteStartBits ==
  ASSUME IInv, TreeInv, BitsInv, NEW i \in Inums, NEW len, NEW user, WriteStart(i, len, user)
  PROVE  BitsInv'
<1>0. PICK c : c = NewCall("write", file[i].offset, len, user, {})
  OBVIOUS
<1>1. /\ call[i].op = "none" /\ call' = [call EXCEPT ![i] = c]
      /\ sparse' = IF file[i].offset > ip[i].size THEN sparse \cup {i} ELSE sparse
      /\ UNCHANGED <<bits, disk, dinode, named, ip, file, taken, panicked, content, past>>
  BY <1>0 DEF WriteStart, HasFile, Idle, OnDisk
<1>2. c.op = "write" /\ c.off = file[i].offset /\ c.total = 0
  BY <1>0 DEF NewCall
<1>3. \A j \in Inums : call'[j] = IF j = i THEN c ELSE call[j]
  BY <1>1 DEF IInv, Shape
<1>4. c.off \in Nat
  BY <1>2, CountsAre
<1> QED
  BY <1>1, <1>2, <1>3, <1>4, StartBits

\* inode_read_data() at its start.
LEMMA ReadStartBits ==
  ASSUME IInv, TreeInv, BitsInv, NEW i \in Inums, NEW len, NEW user, ReadStart(i, len, user)
  PROVE  BitsInv'
<1>0. PICK c, cut : /\ c = NewCall("read", file[i].offset, cut, user, {})
                    /\ call' = [call EXCEPT ![i] = c]
  BY DEF ReadStart
<1>1. /\ call[i].op = "none"
      /\ UNCHANGED <<bits, disk, dinode, named, ip, file, taken, panicked, content, sparse, past>>
  BY DEF ReadStart, HasFile, Idle, OnDisk, History
<1>2. c.op = "read" /\ c.off = file[i].offset /\ c.total = 0
  BY <1>0 DEF NewCall
<1>3. \A j \in Inums : call'[j] = IF j = i THEN c ELSE call[j]
  BY <1>0 DEF IInv, Shape
<1>4. c.off \in Nat
  BY <1>2, CountsAre
<1> QED
  BY <1>1, <1>2, <1>3, <1>4, StartBits

\* The end of a read: it has not wrapped, so it has allocated nothing.
LEMMA ReadEndBits == ASSUME IInv, TreeInv, BitsInv, NEW i \in Inums, ReadEnd(i) PROVE BitsInv'
<1>1. /\ call[i].op = "read" /\ call[i].total = call[i].len
      /\ UNCHANGED <<bits, disk, dinode, named, ip, taken, panicked, content, sparse, past>>
      /\ \A j \in Inums \ {i} : file'[j] = file[j]
      /\ file'[i].open = file[i].open
  BY DEF ReadEnd, Done, OnDisk, History, IInv, Shape
<1>2. \A j \in Inums : call'[j] = IF j = i THEN NoCall ELSE call[j]
  BY DEF ReadEnd, IInv, Shape
<1>3. NoCall.op = "none"
  BY DEF NoCall, NewCall
<1>4. \A j \in Inums \ {i} : Same(j)
  BY <1>1, <1>2 DEF Same
<1>5. ~Unlinking(i) /\ ~Unlinking(i)'
  BY <1>1, <1>2, <1>3 DEF Unlinking
<1>6. \A j \in Inums : Vec'[j] = Vec[j] /\ Pend'[j] = Pend[j]
  <2>1. Vec'[i] = Vec[i] /\ Pend'[i] = Pend[i]
    BY <1>1, <1>5 DEF Vec, Pend
  <2>2. ASSUME NEW j \in Inums, j # i PROVE Vec'[j] = Vec[j] /\ Pend'[j] = Pend[j]
    BY <1>2, <1>4, <2>2, SameKept DEF Pend
  <2> QED
    BY <2>1, <2>2
<1>7. ~(call[i].off + call[i].len >= W)
  <2>1. Within(call[i]) /\ Calls(call[i])
    BY DEF IInv, Shape
  <2>2. call[i].off \in 0 .. W - 1 /\ call[i].len \in 0 .. W - 1
    BY <2>1 DEF Calls
  <2>3. call[i].len > 0 => call[i].off + call[i].len <= MAXSIZE
    BY <1>1, <2>1 DEF Within
  <2> QED
    BY <2>2, <2>3, Sizes
<1>8. ASSUME Calm PROVE FullAt(i)'
  <2>1. FullAt(i)
    BY <1>8, CalmHas
  <2>2. Unsaved(i)'
    BY <1>1, <1>7, <2>1 DEF FullAt, Unsaved
  <2>3. Dense(disk, Vec[i])'
    BY <1>1, <1>6, <2>1 DEF FullAt
  <2>4. MovedThere(i)'
    BY <1>2, <1>3 DEF MovedThere
  <2>5. Nameless(i)'
    BY <1>1, <1>5, <2>1 DEF FullAt, Nameless, Running
  <2> QED
    BY <2>2, <2>3, <2>4, <2>5 DEF FullAt
<1> QED
  BY <1>1, <1>4, <1>6, <1>8, SameBits, OneBits DEF Running

\* The end of a write: the addresses are saved, or have not changed.
LEMMA WriteEndBits ==
  ASSUME IInv, TreeInv, ContentInv, BitsInv, NEW i \in Inums, WriteEnd(i) PROVE BitsInv'
<1>0. CachedAt(i) /\ SizedAt(i)
  BY DEF TreeInv, Cached, ContentInv
<1>1. /\ call[i].op = "write" /\ Running /\ ip[i].valid
      /\ UNCHANGED <<bits, disk, named, taken, panicked, content, sparse, past>>
      /\ \A j \in Inums \ {i} : file'[j] = file[j]
      /\ file'[i].open = file[i].open
  <2>1. /\ call[i].op = "write" /\ Running
        /\ UNCHANGED <<bits, disk, named, taken, panicked, content, sparse, past>>
    BY DEF WriteEnd, Done, History
  <2>2. file' = [file EXCEPT ![i].offset = (@ + call[i].total) % W]
    BY DEF WriteEnd
  <2>3. (\A j \in Inums \ {i} : file'[j] = file[j]) /\ file'[i].open = file[i].open
    BY <2>2 DEF IInv, Shape
  <2> QED
    BY <1>0, <2>1, <2>3 DEF CachedAt
<1>2. \A j \in Inums : call'[j] = IF j = i THEN NoCall ELSE call[j]
  BY DEF WriteEnd, IInv, Shape
<1>3. NoCall.op = "none"
  BY DEF NoCall, NewCall
<1>4. ip[i].size = dinode[i].size
  BY <1>0, <1>1 DEF SizedAt
<1>5. /\ \A j \in Inums \ {i} : ip'[j] = ip[j] /\ dinode'[j] = dinode[j]
      /\ ip'[i].valid = ip[i].valid /\ ip'[i].addrs = ip[i].addrs
      /\ dinode'[i].addrs = IF Pos(i) > ip[i].size THEN ip[i].addrs ELSE dinode[i].addrs
  <2>1. CASE Pos(i) > ip[i].size
    <3>1. /\ ip' = [ip EXCEPT ![i].size = Pos(i)]
          /\ dinode' = [dinode EXCEPT ![i] = [size |-> Pos(i), addrs |-> ip[i].addrs]]
      BY <2>1 DEF WriteEnd
    <3>2. ip'[i].valid = ip[i].valid /\ ip'[i].addrs = ip[i].addrs
      BY <3>1, ZenonT(40) DEF IInv, Shape
    <3>3. \A j \in Inums : dinode'[j] = IF j = i THEN [size |-> Pos(i), addrs |-> ip[i].addrs]
                                       ELSE dinode[j]
      BY <3>1 DEF IInv, Shape
    <3>4. \A j \in Inums \ {i} : ip'[j] = ip[j]
      BY <3>1 DEF IInv, Shape
    <3> QED
      BY <2>1, <3>2, <3>3, <3>4
  <2>2. CASE ~(Pos(i) > ip[i].size)
    BY <2>2 DEF WriteEnd
  <2> QED
    BY <2>1, <2>2
<1>6. \A j \in Inums \ {i} : Same(j)
  BY <1>1, <1>2, <1>5 DEF Same
<1>7. ~Unlinking(i) /\ ~Unlinking(i)'
  BY <1>1, <1>2, <1>3 DEF Unlinking
<1>8. \A j \in Inums : Vec'[j] = Vec[j] /\ Pend'[j] = Pend[j]
  <2>1. Vec'[i] = Vec[i] /\ Pend'[i] = Pend[i]
    BY <1>1, <1>5, <1>7 DEF Vec, Pend
  <2>2. ASSUME NEW j \in Inums, j # i PROVE Vec'[j] = Vec[j] /\ Pend'[j] = Pend[j]
    BY <1>2, <1>6, <2>2, SameKept DEF Pend
  <2> QED
    BY <2>1, <2>2
<1>9. ASSUME Calm PROVE FullAt(i)'
  <2>1. FullAt(i)
    BY <1>9, CalmHas
  <2>2. Unsaved(i)'
    BY <1>1, <1>4, <1>5, <2>1 DEF FullAt, Unsaved
  <2>3. Dense(disk, Vec[i])'
    BY <1>1, <1>8, <2>1 DEF FullAt
  <2>4. MovedThere(i)'
    BY <1>2, <1>3 DEF MovedThere
  <2>5. Nameless(i)'
    BY <1>1, <1>5, <1>7, <2>1 DEF FullAt, Nameless, Running
  <2> QED
    BY <2>2, <2>3, <2>4, <2>5 DEF FullAt
<1> QED
  BY <1>1, <1>6, <1>8, <1>9, SameBits, OneBits DEF Running

\* path_unlink(): inode_free_data() will free the whole tree.
LEMMA UnlinkStartBits == ASSUME IInv, TreeInv, BitsInv, NEW i \in Inums, UnlinkStart(i) PROVE BitsInv'
<1>1. /\ call[i].op = "none" /\ i \in named /\ named' = named \ {i}
      /\ UNCHANGED <<bits, disk, dinode, file, taken, panicked, content, sparse, past>>
  BY DEF UnlinkStart, Idle, History
<1>2. PICK c : c = NewCall("unlink", 0, 0, FALSE, FreeData(Locked(i).addrs))
  OBVIOUS
<1>3. c.op = "unlink" /\ c.frees = FreeData(Locked(i).addrs)
  BY <1>2 DEF NewCall
<1>4. /\ \A j \in Inums : ip'[j] = IF j = i THEN Locked(i) ELSE ip[j]
      /\ \A j \in Inums : call'[j] = IF j = i THEN c ELSE call[j]
  BY <1>2 DEF UnlinkStart, IInv, Shape
<1>5. Locked(i).addrs = IF ip[i].valid THEN ip[i].addrs ELSE dinode[i].addrs
  BY DEF Locked, IInv, Shape
<1>6. \A j \in Inums \ {i} : Same(j)
  BY <1>1, <1>4 DEF Same
<1>7. \A j \in Inums \ {i} : Vec'[j] = Vec[j] /\ Pend'[j] = Pend[j]
  BY <1>4, <1>6, SameKept DEF Pend
<1>8. PICK A : A = Vec[i] /\ Pend[i] = {} /\ Vec'[i] = NoAddrs /\ Pend'[i] = FreeData(A)
  <2>1. Vec[i] = Locked(i).addrs /\ Pend[i] = {}
    BY <1>1, <1>5 DEF Vec, Pend, Unlinking
  <2>2. Vec'[i] = NoAddrs /\ Pend'[i] = FreeData(Locked(i).addrs)
    BY <1>3, <1>4 DEF Vec, Pend, Unlinking
  <2> QED
    BY <2>1, <2>2
<1>9. ASSUME Calm PROVE FullAt(i)'
  <2>1. Dense(disk, Vec[i])'
    BY <1>8, DenseNone
  <2>2. MovedThere(i)' /\ Unsaved(i)' /\ Nameless(i)'
    BY <1>1, <1>3, <1>4 DEF MovedThere, Unsaved, Nameless, Unlinking
  <2> QED
    BY <2>1, <2>2 DEF FullAt
<1>10. ASSUME Calm PROVE \A x \in bits' : Accounted(disk', Vec', Pend', taken', x)
  <2>1. Dense(disk, A) /\ Owned(disk, Vec, Pend, bits, taken)
    BY <1>8, <1>10, CalmHas DEF FullAt, Ownership
  <2>2. Sole(A)
    BY <1>8, <2>1, VecIs, OwnedSole
  <2>3. \A s \in Places : Ref(disk, A, s) # 0 => <<s, Ref(disk, A, s)>> \in FreeData(A)
    BY <2>1, <2>2, FreeDataAll
  <2>4. PICK V, P, V2, P2 : V = Vec /\ P = Pend /\ V2 = Vec' /\ P2 = Pend'
    OBVIOUS
  <2>5. Covers(disk, V, P, disk, V2, P2)
    <3> SUFFICES ASSUME NEW j \in Inums, NEW s \in Places, NEW b, Has(disk, V, P, j, s, b)
                 PROVE  Has(disk, V2, P2, j, s, b)
      BY DEF Covers
    <3>1. CASE j = i
      <4>1. b # 0 /\ b = Ref(disk, A, s)
        BY <1>8, <2>4, <3>1 DEF Has
      <4> QED
        BY <1>8, <2>3, <2>4, <3>1, <4>1 DEF Has
    <3>2. CASE j # i
      BY <1>7, <2>4, <3>2 DEF Has
    <3> QED
      BY <3>1, <3>2
  <2>6. AllAccounted(disk, V, P, taken, bits)
    BY <1>10, <2>4, CalmHas DEF AllAccounted
  <2>7. AllAccounted(disk, V2, P2, taken, bits)
    BY <2>5, <2>6, AccountedMore
  <2> QED
    BY <1>1, <2>4, <2>7 DEF AllAccounted
<1> QED
  BY <1>1, <1>6, <1>9, <1>10, OneBits DEF Running

\* The bit of a block that is freed is cleared.
LEMMA FreedBit ==
  ASSUME NEW bs, NEW b \in Int, b > RootBlock
  PROVE  /\ FreeBlock(bs, b) \subseteq bs
         /\ \A x \in FreeBlock(bs, b) : x \in Int => x + DataStart # b
BY DEF FreeBlock, DataStart, RootBlock

\* data_free() of one block: its place no longer accounts for a bit, and the bit is cleared.
LEMMA UnlinkFreeBits == ASSUME IInv, TreeInv, BitsInv, NEW i \in Inums, UnlinkFree(i) PROVE BitsInv'
<1>1. /\ Running /\ call[i].op = "unlink" /\ call[i].frees # {}
      /\ UNCHANGED <<disk, dinode, named, ip, file, taken, content, sparse, past>>
  BY DEF UnlinkFree, History
<1>2. PICK x : x = FirstFreed(call[i].frees)
  OBVIOUS
<1>3. \/ x[2] = Unreadable /\ UNCHANGED <<bits, call>>
      \/ /\ x[2] # Unreadable /\ bits' = FreeBlock(bits, x[2])
         /\ call' = [call EXCEPT ![i].frees = @ \ {x}]
  BY <1>2 DEF UnlinkFree
<1>4. ASSUME \A j \in Inums : call'[j].op = call[j].op,
             \A j \in Inums \ {i} : call'[j] = call[j]
      PROVE  FullAt(i)' /\ \A j \in Inums \ {i} : Same(j)
  <2>1. Vec'[i] = NoAddrs /\ call'[i].op = "unlink"
    BY <1>1, <1>4 DEF Vec, Unlinking
  <2>2. Dense(disk, Vec[i])'
    BY <2>1, DenseNone
  <2>3. i \notin named'
    BY <1>1 DEF TreeInv, Cached, CachedAt, Unlinking
  <2>4. MovedThere(i)' /\ Unsaved(i)' /\ Nameless(i)'
    BY <2>1, <2>3 DEF MovedThere, Unsaved, Nameless, Unlinking
  <2> QED
    BY <1>1, <1>4, <2>2, <2>4 DEF FullAt, Same
<1>5. CASE UNCHANGED <<bits, call>>
  <2>1. FullAt(i)' /\ \A j \in Inums \ {i} : Same(j)
    BY <1>4, <1>5
  <2>2. Vec' = Vec /\ Pend' = Pend
    BY <1>1, <1>5, InodesKept
  <2>3. Calm => \A y \in bits' : Accounted(disk', Vec', Pend', taken', y)
    BY <1>1, <1>5, <2>2, SameBits
  <2> QED
    BY <1>1, <2>1, <2>3, OneBits
<1>6. CASE /\ x[2] # Unreadable /\ bits' = FreeBlock(bits, x[2])
           /\ call' = [call EXCEPT ![i].frees = @ \ {x}]
  <2>1. /\ \A j \in Inums : call'[j].op = call[j].op
        /\ \A j \in Inums \ {i} : call'[j] = call[j]
        /\ call'[i].frees = call[i].frees \ {x}
    <3>1. PICK c : c = [call[i] EXCEPT !.frees = @ \ {x}]
      OBVIOUS
    <3>2. Calls(call[i])
      BY DEF IInv, Shape
    <3>3. c.op = call[i].op /\ c.frees = call[i].frees \ {x}
      BY <3>1, <3>2 DEF Calls
    <3>4. \A j \in Inums : call'[j] = IF j = i THEN c ELSE call[j]
      BY <1>6, <3>1 DEF IInv, Shape
    <3> QED
      BY <3>3, <3>4
  <2>2. FullAt(i)' /\ \A j \in Inums \ {i} : Same(j)
    BY <1>4, <2>1
  <2>3. /\ \A j \in Inums : Vec'[j] = Vec[j] /\ Pend'[j] = IF j = i THEN Pend[i] \ {x} ELSE Pend[j]
        /\ Pend[i] = call[i].frees
    BY <1>1, <2>1 DEF Vec, Pend, Unlinking
  <2>4. ASSUME Calm PROVE \A y \in bits' : Accounted(disk', Vec', Pend', taken', y)
    <3>1. Ownership(disk, Vec, Pend, bits, taken) /\ \A y \in bits : Accounted(disk, Vec, Pend, taken, y)
      BY <2>4, CalmHas
    <3>2. x \in Pend[i] /\ x \in Places \X Words
      <4>1. Pend[i] \subseteq Places \X Words
        BY <3>1 DEF Ownership
      <4> QED
        BY <1>1, <1>2, <2>3, <4>1, FirstFreedIs
    <3>3. PICK s \in Places, b \in Words : x = <<s, b>>
      BY <3>2
    <3>4. b \in Int /\ \A y \in bits : y \in Int
      <4>1. \A c \in Words : c \in Int
        BY Numbers, Sizes DEF Words
      <4>2. bits \subseteq 0 .. NB - 1
        BY DEF IInv, Shape
      <4>3. \A y \in 0 .. NB - 1 : y \in Int
        BY Sizes
      <4> QED
        BY <4>1, <4>2, <4>3
    <3>5. b # 0 => b > RootBlock
      <4>1. b # 0 => Has(disk, Vec, Pend, i, s, b)
        BY <3>2, <3>3 DEF Has
      <4> QED
        BY <3>1, <4>1 DEF Ownership, Owned
    <3>6. bits' \subseteq bits /\ (b # 0 => \A y \in bits' : y + DataStart # b)
      <4>1. bits' = FreeBlock(bits, b)
        BY <1>6, <3>3
      <4>2. FreeBlock(bits, b) \subseteq bits
        BY DEF FreeBlock
      <4>3. b # 0 => \A y \in bits' : y \in Int => y + DataStart # b
        BY <3>4, <3>5, <4>1, FreedBit
      <4> QED
        BY <3>4, <4>1, <4>2, <4>3
    <3> SUFFICES ASSUME NEW y \in bits' PROVE Accounted(disk, Vec', Pend', taken, y)
      BY <1>1
    <3>7. Accounted(disk, Vec, Pend, taken, y)
      BY <3>1, <3>6
    <3>8. ASSUME NEW j \in Inums, NEW t \in Places, Has(disk, Vec, Pend, j, t, y + DataStart)
          PROVE  Has(disk, Vec', Pend', j, t, y + DataStart)
      <4>1. PICK c : c = y + DataStart
        OBVIOUS
      <4>2. c # b
        BY <3>6, <3>8, <4>1 DEF Has
      <4>3. <<t, c>> # x
        BY <3>3, <4>2
      <4> QED
        BY <2>3, <3>8, <4>1, <4>3 DEF Has
    <3> QED
      BY <3>7, <3>8 DEF Accounted
  <2> QED
    BY <1>1, <2>2, <2>4, OneBits
<1> QED
  BY <1>3, <1>5, <1>6

\* The end of an unlink: nothing is left of the tree.
LEMMA UnlinkEndBits == ASSUME IInv, TreeInv, BitsInv, NEW i \in Inums, UnlinkEnd(i) PROVE BitsInv'
<1>0. CachedAt(i)
  BY DEF TreeInv, Cached
<1>1. /\ Running /\ call[i].op = "unlink" /\ call[i].frees = {} /\ i \notin named
      /\ UNCHANGED <<bits, disk, named, file, taken, sparse, past>>
      /\ panicked' = IF file[i].open THEN "no" ELSE "destroy"
  BY <1>0 DEF UnlinkEnd, CachedAt, Unlinking
<1>2. \A j \in Inums : call'[j] = IF j = i THEN NoCall ELSE call[j]
  BY DEF UnlinkEnd, IInv, Shape
<1>3. NoCall.op = "none"
  BY DEF NoCall, NewCall
<1>4. /\ \A j \in Inums \ {i} : ip'[j] = ip[j] /\ dinode'[j] = dinode[j]
      /\ ip'[i].addrs = NoAddrs /\ dinode'[i].addrs = NoAddrs
  <2>1. /\ ip' = [ip EXCEPT ![i] = [ip[i] EXCEPT !.size = 0, !.addrs = NoAddrs]]
        /\ dinode' = [dinode EXCEPT ![i] = [size |-> 0, addrs |-> NoAddrs]]
    BY DEF UnlinkEnd, IInv, Shape
  <2>2. PICK n : n = [ip[i] EXCEPT !.size = 0, !.addrs = NoAddrs]
    OBVIOUS
  <2>3. n.addrs = NoAddrs
    BY <2>2 DEF IInv, Shape
  <2> QED
    BY <2>1, <2>2, <2>3 DEF IInv, Shape
<1>5. \A j \in Inums \ {i} : content'[j] = content[j]
  BY DEF UnlinkEnd, IInv, Shape
<1>6. \A j \in Inums \ {i} : Same(j)
  BY <1>1, <1>2, <1>4, <1>5 DEF Same
<1>7. \A j \in Inums : Vec'[j] = Vec[j] /\ Pend'[j] = Pend[j]
  <2>1. Vec'[i] = NoAddrs /\ Vec[i] = NoAddrs /\ Pend[i] = {} /\ Pend'[i] = {}
    BY <1>1, <1>2, <1>3, <1>4 DEF Vec, Pend, Unlinking
  <2>2. ASSUME NEW j \in Inums, j # i PROVE Vec'[j] = Vec[j] /\ Pend'[j] = Pend[j]
    BY <1>2, <1>6, <2>2, SameKept DEF Pend
  <2> QED
    BY <2>1, <2>2
<1>8. ASSUME Calm PROVE FullAt(i)'
  <2>1. FullAt(i)
    BY <1>8, CalmHas
  <2>2. Dense(disk, Vec[i])'
    BY <1>1, <1>7, <2>1 DEF FullAt
  <2>3. MovedThere(i)' /\ Unsaved(i)' /\ Nameless(i)'
    BY <1>1, <1>2, <1>3, <1>4 DEF MovedThere, Unsaved, Nameless, Running
  <2> QED
    BY <2>2, <2>3 DEF FullAt
<1> QED
  BY <1>1, <1>6, <1>7, <1>8, SameBits, OneBits

\* sys_alloc_block: the new bit belongs to the process.
LEMMA SysAllocBits == ASSUME IInv, TreeInv, BitsInv, SysAlloc PROVE BitsInv'
<1>1. UNCHANGED <<disk, dinode, named, ip, file, call, panicked, content, sparse, past>>
  BY DEF SysAlloc, History
<1>2. Vec' = Vec /\ Pend' = Pend
  BY <1>1, InodesKept
<1>3. \A j \in Inums : Same(j)
  BY <1>1 DEF Same
<1>4. PICK a : a = AllocBlock(Image)
  OBVIOUS
<1>5. /\ a.blk \in Blocks
      /\ \/ a.blk = 0 /\ a.im.bits = bits
         \/ a.blk > 0 /\ a.im.bits = bits \cup {a.blk - DataStart}
  BY <1>4, ImageIs, AllocBlockIs DEF IInv
<1>6. bits' = a.im.bits /\ taken' = IF a.blk = 0 THEN taken ELSE taken \cup {a.blk}
  BY <1>4 DEF SysAlloc
<1>7. ASSUME Calm, NEW x \in bits' PROVE Accounted(disk', Vec', Pend', taken', x)
  <2>1. taken \subseteq taken'
    BY <1>6
  <2>2. CASE x \in bits
    <3>1. Accounted(disk, Vec, Pend, taken, x)
      BY <1>7, <2>2, CalmHas
    <3> QED
      BY <1>1, <1>2, <2>1, <3>1 DEF Accounted
  <2>3. CASE x \notin bits
    <3>1. a.blk \in Int
      BY <1>5, Numbers, Sizes
    <3>2. x = a.blk - DataStart /\ a.blk # 0
      BY <1>5, <1>6, <1>7, <2>3
    <3>3. x + DataStart = a.blk
      BY <3>1, <3>2 DEF DataStart
    <3>4. a.blk \in taken'
      BY <1>6, <3>2
    <3> QED
      BY <3>3, <3>4 DEF Accounted
  <2> QED
    BY <2>2, <2>3
<1>8. 0 \notin Inums
  BY Sizes DEF Inums
<1> QED
  BY <1>1, <1>3, <1>7, <1>8, OneBits DEF Running

\* sys_free_block: the bit of the process's block is cleared.
LEMMA SysFreeBits == ASSUME IInv, TreeInv, BitsInv, NEW b \in Blocks, SysFree(b) PROVE BitsInv'
<1>1. UNCHANGED <<disk, dinode, named, ip, file, call, panicked, content, sparse, past>>
  BY DEF SysFree, History
<1>2. Vec' = Vec /\ Pend' = Pend
  BY <1>1, InodesKept
<1>3. \A j \in Inums : Same(j)
  BY <1>1 DEF Same
<1>4. b \in taken /\ bits' = FreeBlock(bits, b) /\ taken' = taken \ {b}
  BY DEF SysFree
<1>5. ASSUME Calm, NEW x \in bits' PROVE Accounted(disk', Vec', Pend', taken', x)
  <2>1. b > RootBlock /\ b \in Int
    BY <1>4, <1>5, CalmHas, Numbers, Sizes DEF Ownership
  <2>2. x \in bits /\ (x \in Int => x + DataStart # b)
    BY <1>4, <1>5, <2>1, FreedBit
  <2>3. x \in Int
    <3>1. bits \subseteq 0 .. NB - 1
      BY DEF IInv, Shape
    <3> QED
      BY <2>2, <3>1, Sizes
  <2>4. Accounted(disk, Vec, Pend, taken, x)
    BY <1>5, <2>2, CalmHas
  <2> QED
    BY <1>1, <1>2, <1>4, <2>2, <2>3, <2>4 DEF Accounted
<1>6. 0 \notin Inums
  BY Sizes DEF Inums
<1> QED
  BY <1>1, <1>3, <1>5, <1>6, OneBits DEF Running

-----------------------------------------------------------------------------
(* A round of a read or write.                                             *)

\* Everything before the current offset has a block.
LEMMA AllBefore ==
  ASSUME IInv, TreeInv, ContentInv, BitsInv, Calm, NEW i \in Inums, InLoop(i)
  PROVE  /\ \A o \in Offsets : o < Pos(i) => Ref(disk, Vec[i], PathTo(o)) # 0
         /\ \A o \in Offsets : o < dinode[i].size => Ref(disk, Vec[i], PathTo(o)) # 0
<1>1. ip[i].valid /\ ~Unlinking(i) /\ SizedAt(i) /\ i \notin sparse /\ Kept(i)
  BY LoopVec DEF ContentInv, Calm, Kept
<1>2. call[i].op \in {"read", "write"} /\ call[i].off <= dinode[i].size
  BY <1>1 DEF InLoop, SizedAt
<1>3. FullAt(i) /\ IntactAt(i)
  BY CalmHas DEF ContentInv
<1>4. ASSUME NEW o \in Offsets, o < dinode[i].size PROVE Ref(disk, Vec[i], PathTo(o)) # 0
  <2>1. content[i][o] # NoWord
    BY <1>1, <1>4 DEF SizedAt
  <2>2. WordOf(disk, Vec[i], o) = Data(i)
    BY <1>1, <1>3, <2>1 DEF IntactAt, Holds
  <2> QED
    BY <2>2, WordThere
<1>5. ASSUME NEW o \in Offsets, o < Pos(i) PROVE Ref(disk, Vec[i], PathTo(o)) # 0
  <2>1. PICK f \in Nat, t \in Nat, s \in Nat : f = call[i].off /\ t = call[i].total /\ s = dinode[i].size
    BY CountsAre
  <2>2. o \in Nat /\ f <= s /\ o < f + t /\ Moved(i) = f .. f + t - 1
    BY <1>2, <1>5, <2>1, OffsetIs DEF Pos, Moved
  <2>3. o < s \/ o \in f .. f + t - 1
    BY <2>2
  <2>4. o \in Moved(i) => Ref(disk, Vec[i], PathTo(o)) # 0
    BY <1>2, <1>3 DEF FullAt, MovedThere
  <2> QED
    BY <1>4, <2>1, <2>2, <2>3, <2>4
<1> QED
  BY <1>4, <1>5

\* The path through a place with two indices.
LEMMA OnTwo ==
  ASSUME NEW path, IsPath(path), NEW a, NEW e, On(path, <<a, e>>)
  PROVE  \/ path = <<a, e>> /\ a \in N1 .. N1 + N2 - 1 /\ e \in Entries
         \/ \E f \in Entries : path = <<N1 + N2, e, f>> /\ a = N1 + N2 /\ e \in Entries
<1>1. PICK s : s = <<a, e>>
  OBVIOUS
<1>2. Len(s) = 2 /\ s[1] = a /\ s[2] = e
  BY <1>1
<1>3. Len(path) >= 2 /\ path[1] = a /\ path[2] = e
  BY <1>1, <1>2 DEF On
<1>4. CASE \E x \in 0 .. N1 - 1 : path = <<x>>
  BY <1>3, <1>4
<1>5. CASE \E x \in N1 .. N1 + N2 - 1, y \in Entries : path = <<x, y>>
  BY <1>3, <1>5
<1>6. CASE \E y, z \in Entries : path = <<N1 + N2, y, z>>
  BY <1>3, <1>6
<1> QED
  BY <1>4, <1>5, <1>6 DEF IsPath

\* The path through a place with three indices.
LEMMA OnThree ==
  ASSUME NEW path, IsPath(path), NEW a, NEW e, NEW f, On(path, <<a, e, f>>)
  PROVE  path = <<a, e, f>> /\ a = N1 + N2 /\ e \in Entries /\ f \in Entries
<1>1. PICK s : s = <<a, e, f>>
  OBVIOUS
<1>2. Len(s) = 3 /\ s[1] = a /\ s[2] = e /\ s[3] = f
  BY <1>1
<1>3. Len(path) >= 3 /\ path[1] = a /\ path[2] = e /\ path[3] = f
  BY <1>1, <1>2 DEF On
<1>4. CASE \E x \in 0 .. N1 - 1 : path = <<x>>
  BY <1>3, <1>4
<1>5. CASE \E x \in N1 .. N1 + N2 - 1, y \in Entries : path = <<x, y>>
  BY <1>3, <1>5
<1>6. CASE \E y, z \in Entries : path = <<N1 + N2, y, z>>
  BY <1>3, <1>6
<1> QED
  BY <1>4, <1>5, <1>6 DEF IsPath

\* Every place for data before path has a block.
Before(A, path) == \A p : IsPath(p) /\ BlockAt(p) < BlockAt(path) => Ref(disk, A, p) # 0

\* inode_locate_block() adds to the right of what is there.
LEMMA DenseGrown ==
  ASSUME NEW A, Dense(disk, A), NEW D, NEW R, NEW bs, Grown(A, D, R, bs),
         NEW path, IsPath(path), OffPath(A, D, R, path), Before(A, path)
  PROVE  Dense(D, R)
<1>1. \A s \in Places : Ref(disk, A, s) # 0 => Ref(D, R, s) # 0
  BY DEF Grown
<1>2. \A e \in Entries : /\ e \in Int /\ 0 \in Entries
                         /\ \A x \in 0 .. e : x \in Entries /\ (x = e \/ x < e)
  BY Sizes DEF Entries
<1>3. ASSUME NEW a \in N1 .. N1 + N2, NEW e \in Entries, Ref(D, R, <<a, e>>) # 0, NEW x \in 0 .. e
      PROVE  Ref(D, R, <<a, x>>) # 0
  <2>1. <<a, e>> \in Places /\ <<a, x>> \in Places /\ x \in Entries
    BY <1>2, PlacesAre
  <2>2. CASE Ref(D, R, <<a, e>>) = Ref(disk, A, <<a, e>>)
    <3>1. Ref(disk, A, <<a, x>>) # 0
      BY <1>3, <2>2 DEF Dense
    <3> QED
      BY <1>1, <2>1, <3>1
  <2>3. CASE On(path, <<a, e>>)
    <3>1. CASE x = e
      BY <1>3, <3>1
    <3>2. CASE x < e
      <4>1. CASE path = <<a, e>> /\ a \in N1 .. N1 + N2 - 1
        <5>1. BlockAt(<<a, x>>) < BlockAt(path) /\ IsPath(<<a, x>>)
          BY <2>1, <3>2, <4>1, EarlierBlock DEF IsPath
        <5>2. Ref(disk, A, <<a, x>>) # 0
          BY <5>1 DEF Before
        <5> QED
          BY <1>1, <2>1, <5>2
      <4>2. ASSUME NEW f \in Entries, path = <<N1 + N2, e, f>>, a = N1 + N2
            PROVE  Ref(D, R, <<a, x>>) # 0
        <5>1. BlockAt(<<N1 + N2, x, 0>>) < BlockAt(path) /\ IsPath(<<N1 + N2, x, 0>>)
          BY <1>2, <2>1, <3>2, <4>2, EarlierBlock DEF IsPath
        <5>2. Ref(disk, A, <<N1 + N2, x, 0>>) # 0
          BY <5>1 DEF Before
        <5>3. At(disk, At(disk, A[N1 + N2], x), 0) # 0
          BY <5>2, RefIs
        <5>4. At(disk, A[N1 + N2], x) # 0
          BY <5>3 DEF At
        <5>5. Ref(disk, A, <<a, x>>) # 0
          BY <4>2, <5>4, RefIs
        <5> QED
          BY <1>1, <2>1, <5>5
      <4> QED
        BY <2>3, <4>1, <4>2, OnTwo
    <3> QED
      BY <1>2, <3>1, <3>2
  <2> QED
    BY <2>1, <2>2, <2>3 DEF OffPath
<1>4. ASSUME NEW e \in Entries, NEW f \in Entries, Ref(D, R, <<N1 + N2, e, f>>) # 0, NEW x \in 0 .. f
      PROVE  Ref(D, R, <<N1 + N2, e, x>>) # 0
  <2>1. <<N1 + N2, e, f>> \in Places /\ <<N1 + N2, e, x>> \in Places /\ x \in Entries
    BY <1>2, PlacesAre
  <2>2. CASE Ref(D, R, <<N1 + N2, e, f>>) = Ref(disk, A, <<N1 + N2, e, f>>)
    <3>1. Ref(disk, A, <<N1 + N2, e, x>>) # 0
      BY <1>4, <2>2 DEF Dense
    <3> QED
      BY <1>1, <2>1, <3>1
  <2>3. CASE On(path, <<N1 + N2, e, f>>)
    <3>1. CASE x = f
      BY <1>4, <3>1
    <3>2. CASE x < f
      <4>1. path = <<N1 + N2, e, f>>
        BY <2>3, OnThree
      <4>2. BlockAt(<<N1 + N2, e, x>>) < BlockAt(path) /\ IsPath(<<N1 + N2, e, x>>)
        BY <2>1, <3>2, <4>1, EarlierBlock DEF IsPath
      <4>3. Ref(disk, A, <<N1 + N2, e, x>>) # 0
        BY <4>2 DEF Before
      <4> QED
        BY <1>1, <2>1, <4>3
    <3> QED
      BY <1>2, <3>1, <3>2
  <2> QED
    BY <2>1, <2>2, <2>3 DEF OffPath
<1> QED
  BY <1>3, <1>4 DEF Dense

\* The trees after a round: block of data filled or not, those of the walk.
LEMMA WentRefs ==
  ASSUME IInv, TreeInv, NEW i \in Inums, InLoop(i), NEW r, Went(i, r), Clean(past')
  PROVE  /\ Vec'[i] = r.addrs /\ Vec[i] = ip[i].addrs /\ ip[i].valid /\ ~Unlinking(i)
         /\ \A j \in Inums \ {i} : Vec'[j] = Vec[j]
         /\ \A j \in Inums : Pend'[j] = Pend[j]
         /\ \A s \in Places : Ref(disk', Vec'[i], s) = Ref(r.last.disk, r.addrs, s)
         /\ \A j \in Inums \ {i}, s \in Places : Ref(disk', Vec'[j], s) = Ref(disk, Vec[j], s)
<1>1. Located(Vec, i, PathAt(i), r) /\ Clean(past)
  BY StillClean DEF Went
<1>2. Vec[i] = ip[i].addrs /\ ip[i].valid /\ ~Unlinking(i)
  BY LoopVec
<1>3. /\ Vec'[i] = r.addrs /\ \A j \in Inums \ {i} : Vec'[j] = Vec[j]
      /\ \A j \in Inums : Pend'[j] = Pend[j]
  <2>1. \A j \in Inums \ {i} : Same(j) /\ call'[j] = call[j]
    BY DEF Went, Same
  <2>2. ~Unlinking(i)' /\ ip'[i].valid /\ ip'[i].addrs = r.addrs
    BY <1>2 DEF Went, Unlinking
  <2>3. ASSUME NEW j \in Inums, j # i PROVE Vec'[j] = Vec[j] /\ Pend'[j] = Pend[j]
    BY <2>1, <2>3, SameKept DEF Pend
  <2>4. Vec'[i] = r.addrs /\ Pend'[i] = Pend[i]
    BY <1>2, <2>2 DEF Vec, Pend
  <2> QED
    BY <2>3, <2>4
<1>4. PICK V, V2, d, d2, path, b, bs :
        /\ V = Vec /\ V2 = Vec' /\ d = r.last.disk /\ d2 = disk' /\ path = PathAt(i) /\ b = r.blk
        /\ bs = r.last.bits
  OBVIOUS
<1>5. Located(V, i, path, r) /\ V2[i] = r.addrs /\ \A k \in Inums \ {i} : V2[k] = V[k]
  BY <1>1, <1>3, <1>4
<1>6. ASSUME NEW j \in Inums PROVE \A s \in Places : Ref(d2, V2[j], s) = Ref(d, V2[j], s)
  <2>1. CASE disk' = r.last.disk
    BY <1>4, <2>1
  <2>2. CASE Wrote(i, r)
    <3>1. d \in Disks /\ V2 \in Vecs /\ path \in Places \ EntryPlaces /\ b # 0 /\ b = Ref(d, V2[i], path)
      <4>1. V2 \in Vecs
        <5>1. Vec \in Vecs /\ r.addrs \in [Addrs -> Words]
          BY VecIs DEF Went
        <5>2. Vec' \in Vecs
          BY <1>3, <5>1 DEF Vecs, Vec
        <5> QED
          BY <1>4, <5>2
      <4>2. d \in Disks
        BY <1>4 DEF Went, Images, Disks
      <4> QED
        BY <1>4, <1>5, <4>1, <4>2 DEF Located
    <3>2. Owned(d, V2, Pend, bs, taken)
      <4>1. Ownership(disk, V, Pend, bits, taken) /\ V \in Vecs /\ disk \in Disks
        BY <1>1, <1>4, VecIs DEF TreeInv
      <4>2. Grown(V[i], d, r.addrs, bs) /\ bits \subseteq bs /\ OthersKept(V, i, d)
        BY <1>4, <1>5 DEF Located, OthersKept
      <4>3. Ownership(d, V2, Pend, bs, taken)
        BY <1>5, <4>1, <4>2, OwnershipGrown
      <4> QED
        BY <4>3 DEF Ownership
    <3>3. \A c \in Blocks \ {b} : d2[c] = d[c]
      BY <1>4, <2>2 DEF Wrote, Rewritten
    <3> QED
      BY <3>1, <3>2, <3>3, RefsRewritten
  <2> QED
    BY <2>1, <2>2 DEF Went
<1>7. \A s \in Places : Ref(d2, V2[i], s) = Ref(d, r.addrs, s)
  BY <1>5, <1>6
<1>8. ASSUME NEW j \in Inums, j # i, NEW s \in Places PROVE Ref(d2, V2[j], s) = Ref(disk, V[j], s)
  <2>1. Ref(d2, V2[j], s) = Ref(d, V2[j], s) /\ V2[j] = V[j]
    BY <1>5, <1>6, <1>8
  <2>2. Ref(d, V[j], s) = Ref(disk, V[j], s)
    BY <1>4, <1>5, <1>8 DEF Located
  <2> QED
    BY <2>1, <2>2
<1> QED
  BY <1>2, <1>3, <1>4, <1>7, <1>8

\* Trees with the same blocks.
LEMMA DenseSame ==
  ASSUME NEW d, NEW A, Dense(d, A), NEW d2, NEW A2, \A s \in Places : Ref(d2, A2, s) = Ref(d, A, s)
  PROVE  Dense(d2, A2)
<1>1. \A e \in Entries : \A x \in 0 .. e : x \in Entries
  BY Sizes DEF Entries
<1> QED
  BY <1>1, PlacesAre DEF Dense

\* A round of a read or write, of the inode it is about.
LEMMA TransferFull ==
  ASSUME IInv, TreeInv, ContentInv, BitsInv, Calm, NEW i \in Inums, Transfer(i), PathAt(i) # <<>>,
         NEW r, Went(i, r), Clean(past')
  PROVE  FullAt(i)'
<1>1. InLoop(i)
  BY DEF Transfer
<1>2. /\ Vec'[i] = r.addrs /\ Vec[i] = ip[i].addrs /\ ip[i].valid /\ ~Unlinking(i)
      /\ \A s \in Places : Ref(disk', Vec'[i], s) = Ref(r.last.disk, r.addrs, s)
  BY <1>1, WentRefs
<1>3. Located(Vec, i, PathAt(i), r)
  BY DEF Went
<1>4. PICK A, D, R, bs, path : /\ A = Vec[i] /\ D = r.last.disk /\ R = r.addrs /\ bs = r.last.bits
                               /\ path = PathAt(i)
  OBVIOUS
<1>5. Grown(A, D, R, bs) /\ OffPath(A, D, R, path)
  BY <1>3, <1>4 DEF Located
<1>6. Ref(D, R, path) # 0 /\ path \in Places
  BY <1>3, <1>4 DEF Located
<1>7. FullAt(i) /\ SizedAt(i) /\ i \notin sparse
  BY CalmHas DEF ContentInv, Calm
<1>8. /\ \A o \in Offsets : o < Pos(i) => Ref(disk, A, PathTo(o)) # 0
      /\ \A o \in Offsets : o < dinode[i].size => Ref(disk, A, PathTo(o)) # 0
  BY <1>1, <1>4, AllBefore
<1>9. Pos(i) \in Offsets /\ Pos(i) \in Nat /\ Round(i) \in Nat /\ Round(i) > 0 /\ PathTo(Pos(i)) = path
  <2>1. Pos(i) \in Nat /\ Round(i) \in Nat /\ Round(i) > 0 /\ Pos(i) + Round(i) <= MAXSIZE
    BY <1>1, RoundIs, PathAtIs
  <2> QED
    BY <1>4, <2>1, Sizes DEF Offsets, PathAt, PathTo
<1>10. Dense(disk, Vec[i])'
  <2>1. IsPath(path)
    BY <1>9, OffsetIs
  <2>2. Before(A, path)
    BY <1>8, <1>9, EarlierOffset DEF Before
  <2>3. Dense(disk, A)
    BY <1>4, <1>7 DEF FullAt
  <2>4. Dense(D, R)
    BY <1>5, <2>1, <2>2, <2>3, DenseGrown
  <2>5. PICK d2, A2 : d2 = disk' /\ A2 = Vec'[i]
    OBVIOUS
  <2>6. \A s \in Places : Ref(d2, A2, s) = Ref(D, R, s)
    BY <1>2, <1>4, <2>5
  <2>7. Dense(d2, A2)
    BY <2>4, <2>6, DenseSame
  <2> QED
    BY <2>5, <2>7
<1>11. MovedThere(i)'
  <2>1. ASSUME NEW o \in Moved(i)' PROVE Ref(D, R, PathTo(o)) # 0 /\ PathTo(o) \in Places
    <3>1. o \in Offsets /\ (o \in Moved(i) \/ o \in Pos(i) .. Pos(i) + Round(i) - 1)
      <4>1. \/ Moved(i)' = Moved(i)
            \/ Moved(i)' = call[i].off .. call[i].off + (call[i].total + Round(i)) - 1
        BY DEF Moved, Went
      <4> QED
        BY <1>1, <2>1, <4>1, MovedIs
    <3>2. PathTo(o) \in Places
      BY <3>1, OffsetIs
    <3>3. CASE o \in Moved(i)
      <4>1. Ref(disk, A, PathTo(o)) # 0
        BY <1>1, <1>4, <1>7, <3>3 DEF FullAt, MovedThere, InLoop
      <4> QED
        BY <1>5, <3>2, <4>1 DEF Grown
    <3>4. CASE o \in Pos(i) .. Pos(i) + Round(i) - 1
      <4>1. PathTo(o) = path
        BY <1>1, <1>4, <3>1, <3>4, RoundWords
      <4> QED
        BY <1>6, <4>1
    <3> QED
      BY <3>1, <3>2, <3>3, <3>4
  <2> QED
    BY <1>2, <1>4, <2>1 DEF MovedThere
<1>12. Unsaved(i)'
  <2>0. /\ dinode' = dinode /\ named' = named /\ ip'[i].addrs = R
        /\ call'[i].op = call[i].op /\ call'[i].off = call[i].off /\ call'[i].len = call[i].len
    BY <1>4 DEF Went
  <2> SUFFICES ASSUME i \in named, dinode[i].addrs # R
               PROVE  \/ call[i].op = "read" /\ call[i].off + call[i].len >= W
                      \/ call[i].op = "write" /\ (Pos(i)' > dinode[i].size \/ ~Running')
    BY <2>0 DEF Unsaved
  <2>1. dinode[i].size \in Nat /\ call[i].off \in Nat /\ call[i].len \in Nat /\ call[i].total \in Nat
    BY CountsAre
  <2>2. ASSUME Pos(i) < dinode[i].size PROVE ip[i].addrs # dinode[i].addrs
    <3>1. Ref(disk, A, path) # 0
      BY <1>8, <1>9, <2>2
    <3>2. A[path[1]] # 0 /\ path[1] \in Addrs
      BY <1>6, <1>9, <3>1, TopThere, OffsetIs
    <3>3. \A x \in Addrs : R[x] = A[x]
      BY <1>3, <1>4, <3>2 DEF Located
    <3>4. A \in [Addrs -> Words] /\ R \in [Addrs -> Words]
      BY <1>2, <1>4 DEF Went, IInv, Shape
    <3>5. A = R
      BY <3>3, <3>4
    <3> QED
      BY <1>2, <1>4, <3>5
  <2>3. CASE Pos(i) < dinode[i].size
    <3>1. \/ call[i].op = "read" /\ call[i].off + call[i].len >= W
          \/ call[i].op = "write" /\ (Pos(i) > dinode[i].size \/ ~Running)
      BY <1>2, <1>7, <2>2, <2>3 DEF FullAt, Unsaved
    <3> QED
      BY <1>1, <1>9, <2>1, <2>3, <3>1 DEF InLoop
  <2>4. CASE ~(Pos(i) < dinode[i].size)
    <3>1. ASSUME Running' PROVE Pos(i)' = Pos(i) + Round(i)
      <4>1. call'[i].off = call[i].off /\ call'[i].total = call[i].total + Round(i)
        BY <3>1 DEF Went, Running
      <4> QED
        BY <1>9, <2>1, <4>1 DEF Pos
    <3>2. Running' => Pos(i)' > dinode[i].size
      BY <1>9, <2>1, <2>4, <3>1
    <3>3. CASE call[i].op = "read"
      <4>1. call[i].off + call[i].len < W => call[i].off + call[i].len <= dinode[i].size
        BY <1>7, <3>3 DEF SizedAt
      <4>2. call[i].total < call[i].len /\ W \in Nat
        BY <1>1, Sizes DEF InLoop
      <4> QED
        BY <2>1, <2>4, <3>3, <4>1, <4>2 DEF Pos
    <3> QED
      BY <1>1, <3>2, <3>3 DEF InLoop
  <2> QED
    BY <2>3, <2>4
<1>13. Nameless(i)'
  <2>1. Running
    BY <1>1 DEF InLoop
  <2> QED
    BY <1>2, <1>7, <2>1 DEF FullAt, Nameless, Went
<1> QED
  BY <1>10, <1>11, <1>12, <1>13 DEF FullAt

\* A round of a read or write: the bits it sets are those of the blocks it adds to the tree.
LEMMA TransferBits ==
  ASSUME IInv, TreeInv, ContentInv, BitsInv, NEW i \in Inums, Transfer(i) PROVE BitsInv'
<1>1. InLoop(i) /\ Running
  BY DEF Transfer, InLoop
<1>2. CASE PathAt(i) = <<>>
  <2>1. /\ UNCHANGED <<bits, disk, dinode, named, ip, file, call, taken, content, sparse, past>>
        /\ panicked' = "bn too large"
    BY <1>2 DEF Transfer
  <2>2. \A j \in Inums : Same(j)
    BY <2>1 DEF Same
  <2>3. Vec' = Vec /\ Pend' = Pend
    BY <2>1, InodesKept
  <2>4. Calm => \A x \in bits' : Accounted(disk', Vec', Pend', taken', x)
    BY <2>1, <2>3, SameBits
  <2>5. 0 \notin Inums
    BY Sizes DEF Inums
  <2> QED
    BY <1>1, <2>1, <2>2, <2>4, <2>5, OneBits
<1>3. CASE PathAt(i) # <<>>
  <2>1. PICK r : Went(i, r)
    BY <1>3, TransferIs
  <2> SUFFICES ASSUME Calm'
               PROVE  (\A x \in bits' : Accounted(disk', Vec', Pend', taken', x)) /\ \A j \in Inums : FullAt(j)'
    BY DEF BitsInv, Calm
  <2>2. Calm /\ Clean(past')
    BY <2>1 DEF Calm, Went, Clean
  <2>3. /\ Vec'[i] = r.addrs /\ \A j \in Inums \ {i} : Vec'[j] = Vec[j]
        /\ \A j \in Inums : Pend'[j] = Pend[j]
        /\ \A s \in Places : Ref(disk', Vec'[i], s) = Ref(r.last.disk, r.addrs, s)
        /\ \A j \in Inums \ {i}, s \in Places : Ref(disk', Vec'[j], s) = Ref(disk, Vec[j], s)
    BY <1>1, <2>1, <2>2, WentRefs
  <2>4. Located(Vec, i, PathAt(i), r) /\ taken' = taken /\ bits' = r.last.bits
    BY <2>1, <2>2 DEF Went
  <2>5. PICK d2, V2, P2, D, R, A, V, P :
          /\ d2 = disk' /\ V2 = Vec' /\ P2 = Pend' /\ D = r.last.disk /\ R = r.addrs /\ A = Vec[i]
          /\ V = Vec /\ P = Pend
    OBVIOUS
  <2>6. ASSUME NEW x \in bits' PROVE Accounted(d2, V2, P2, taken, x)
    <3>1. CASE x \in bits
      <4>1. Accounted(disk, V, P, taken, x)
        BY <2>2, <2>5, <3>1, CalmHas
      <4>2. ASSUME NEW j \in Inums, NEW s \in Places, NEW b, Has(disk, V, P, j, s, b)
            PROVE  Has(d2, V2, P2, j, s, b)
        <5>1. b # 0 /\ P2[j] = P[j]
          BY <2>3, <2>5, <4>2 DEF Has
        <5>2. b = Ref(disk, V[j], s) => b = Ref(d2, V2[j], s)
          <6>1. CASE j = i
            <7>1. Ref(disk, A, s) # 0 => Ref(D, R, s) = Ref(disk, A, s)
              BY <2>4, <2>5 DEF Located, Grown
            <7> QED
              BY <2>3, <2>5, <5>1, <6>1, <7>1
          <6>2. CASE j # i
            BY <2>3, <2>5, <6>2
          <6> QED
            BY <6>1, <6>2
        <5> QED
          BY <4>2, <5>1, <5>2 DEF Has
      <4> QED
        BY <4>1, <4>2 DEF Accounted
    <3>2. CASE x \notin bits
      <4>1. Somewhere(D, R, x + DataStart)
        BY <2>4, <2>5, <2>6, <3>2 DEF Located
      <4>2. PICK s \in Places : Ref(D, R, s) = x + DataStart
        BY <4>1 DEF Somewhere
      <4>3. Ref(d2, V2[i], s) = x + DataStart
        BY <2>3, <2>5, <4>2
      <4>4. x + DataStart # 0
        <5>1. r.last.bits \subseteq 0 .. NB - 1
          BY <2>1 DEF Went, Images
        <5>2. x \in Nat
          BY <2>4, <2>6, <5>1, Sizes
        <5> QED
          BY <5>2 DEF DataStart
      <4> QED
        BY <4>3, <4>4 DEF Accounted, Has
    <3> QED
      BY <3>1, <3>2
  <2>7. ASSUME NEW j \in Inums, j # i PROVE FullAt(j)'
    <3>1. FullAt(j) /\ Same(j) /\ file' = file /\ Vec'[j] = Vec[j]
      BY <2>1, <2>2, <2>3, <2>7, CalmHas DEF Went, Same
    <3>2. PICK B : B = Vec[j]
      OBVIOUS
    <3>3. Dense(disk, B) /\ \A s \in Places : Ref(d2, B, s) = Ref(disk, B, s)
      BY <2>3, <2>5, <2>7, <3>1, <3>2 DEF FullAt
    <3>4. Dense(d2, B)
      BY <3>3, DenseSame
    <3>5. MovedThere(j)'
      <4>1. call'[j] = call[j] /\ Moved(j)' = Moved(j)
        BY <3>1 DEF Moved, Same
      <4>2. ASSUME call[j].op \in {"read", "write"}, NEW o \in Moved(j)
            PROVE  Ref(d2, B, PathTo(o)) # 0
        <5>1. Ref(disk, B, PathTo(o)) # 0
          BY <3>1, <3>2, <4>2 DEF FullAt, MovedThere
        <5>2. o \in Offsets
          <6>1. Within(call[j]) /\ call[j].off \in Nat /\ call[j].total \in Nat /\ MAXSIZE \in Nat
            BY CountsAre DEF IInv
          <6>2. call[j].total > 0 => call[j].off + call[j].total <= MAXSIZE
            BY <4>2, <6>1 DEF Within
          <6> QED
            BY <4>2, <6>1, <6>2 DEF Moved, Offsets
        <5>3. PathTo(o) \in Places
          BY <5>2, OffsetIs
        <5> QED
          BY <3>3, <5>1, <5>3
      <4> QED
        BY <2>5, <3>1, <3>2, <4>1, <4>2 DEF MovedThere
    <3>6. Unsaved(j)'
      BY <1>1, <3>1 DEF FullAt, Unsaved, Same, Pos
    <3>7. Nameless(j)'
      <4>1. Unlinking(j)' = Unlinking(j)
        BY <3>1, SameKept
      <4> QED
        BY <1>1, <3>1, <4>1 DEF FullAt, Nameless, Same
    <3> QED
      BY <2>5, <3>1, <3>2, <3>4, <3>5, <3>6, <3>7 DEF FullAt
  <2>8. FullAt(i)'
    BY <1>3, <2>1, <2>2, TransferFull
  <2> QED
    BY <2>4, <2>5, <2>6, <2>7, <2>8
<1> QED
  BY <1>2, <1>3

\* A directory writing to block 0 leaves the trees that account for the bits.
LEMMA DirWriteBits ==
  ASSUME IInv, TreeInv, BitsInv, NEW e \in Entries, DirWrite(e)
  PROVE  BitsInv'
<1>1. UNCHANGED <<bits, dinode, named, ip, file, call, taken, panicked, content, sparse, past>>
  BY DEF DirWrite, History
<1>2. Vec' = Vec /\ Pend' = Pend
  BY <1>1, InodesKept
<1> SUFFICES ASSUME Calm
             PROVE  (\A x \in bits : Accounted(disk', Vec, Pend, taken, x)) /\ \A j \in Inums : FullAt(j)'
  BY <1>1, <1>2 DEF BitsInv, Calm
<1>3. PICK V, P, d2 : V = Vec /\ P = Pend /\ d2 = disk'
  OBVIOUS
<1>4. \A j \in Inums, s \in Places : Ref(d2, V[j], s) = Ref(disk, V[j], s)
  BY <1>3, CalmHas, DirWriteRefs
<1>5. ASSUME NEW x \in bits PROVE Accounted(d2, V, P, taken, x)
  <2>1. Accounted(disk, V, P, taken, x)
    BY <1>3, CalmHas
  <2> QED
    BY <1>4, <2>1 DEF Accounted, Has
<1>6. ASSUME NEW j \in Inums PROVE FullAt(j)'
  <2>1. FullAt(j)
    BY CalmHas
  <2>2. PICK A : A = V[j]
    OBVIOUS
  <2>3. Dense(disk, A) /\ \A s \in Places : Ref(d2, A, s) = Ref(disk, A, s)
    BY <1>3, <1>4, <2>1, <2>2 DEF FullAt
  <2>4. Dense(d2, A)
    BY <2>3, DenseSame
  <2>5. ASSUME call[j].op \in {"read", "write"}, NEW o \in Moved(j)
        PROVE  Ref(d2, A, PathTo(o)) # 0
    <3>1. Ref(disk, A, PathTo(o)) # 0
      BY <1>3, <2>1, <2>2, <2>5 DEF FullAt, MovedThere
    <3>2. o \in Offsets
      <4>1. Within(call[j]) /\ call[j].off \in Nat /\ call[j].total \in Nat /\ MAXSIZE \in Nat
        BY CountsAre DEF IInv
      <4>2. call[j].total > 0 => call[j].off + call[j].total <= MAXSIZE
        BY <2>5, <4>1 DEF Within
      <4> QED
        BY <2>5, <4>1, <4>2 DEF Moved, Offsets
    <3>3. PathTo(o) \in Places
      BY <3>2, OffsetIs
    <3> QED
      BY <2>3, <3>1, <3>3
  <2>6. Moved(j)' = Moved(j)
    BY <1>1 DEF Moved
  <2>7. MovedThere(j)'
    BY <1>1, <1>2, <1>3, <2>2, <2>5, <2>6 DEF MovedThere
  <2>8. Unsaved(j)' /\ Nameless(j)'
    BY <1>1, <2>1 DEF FullAt, Unsaved, Nameless, Pos, Running, Unlinking
  <2> QED
    BY <1>2, <1>3, <2>2, <2>4, <2>7, <2>8 DEF FullAt
<1> QED
  BY <1>3, <1>5, <1>6

\* A restart is remembered.
LEMMA RestartBits == ASSUME NEW im, RebootFrom(im) PROVE BitsInv'
BY DEF RebootFrom, BitsInv

\* Every step keeps the invariant.
LEMMA NextBits == IInv /\ TreeInv /\ ContentInv /\ BitsInv /\ [Next]_vars => BitsInv'
<1> SUFFICES ASSUME IInv, TreeInv, ContentInv, BitsInv, [Next]_vars PROVE BitsInv'
  OBVIOUS
<1>1. CASE UNCHANGED vars
  BY <1>1 DEF vars, BitsInv, Accounted, FullAt, MovedThere, Moved, Unsaved, Nameless, Running, Pos,
              Vec, Pend, Unlinking
<1>2. ASSUME NEW i \in Inums,
             \/ Open(i) \/ Close(i) \/ Evict(i)
             \/ Transfer(i) \/ ReadEnd(i) \/ WriteEnd(i)
             \/ UnlinkStart(i) \/ UnlinkFree(i) \/ UnlinkEnd(i)
             \/ RebootInside(i)
      PROVE  BitsInv'
  <2>1. CASE RebootInside(i)
    BY <2>1, RestartBits DEF RebootInside
  <2> QED
    BY <1>2, <2>1, OpenBits, CloseBits, EvictBits, TransferBits, ReadEndBits, WriteEndBits,
       UnlinkStartBits, UnlinkFreeBits, UnlinkEndBits
<1>3. ASSUME NEW i \in Inums, NEW k \in Seeks, Lseek(i, k[2], k[1]) PROVE BitsInv'
  BY <1>3, LseekBits
<1>4. ASSUME NEW i \in Inums, NEW len \in Lens, NEW user \in BOOLEAN,
             WriteStart(i, len, user) \/ WriteRefused(i, len) \/ ReadStart(i, len, user)
      PROVE  BitsInv'
  <2>1. CASE WriteRefused(i, len)
    BY <1>1, <2>1 DEF WriteRefused
  <2> QED
    BY <1>4, <2>1, WriteStartBits, ReadStartBits
<1>5. ASSUME SysAlloc PROVE BitsInv'
  BY <1>5, SysAllocBits
<1>6. ASSUME NEW b \in Blocks, SysFree(b) PROVE BitsInv'
  BY <1>6, SysFreeBits
<1>7. ASSUME Reboot PROVE BitsInv'
  BY <1>7, RestartBits DEF Reboot
<1>8. ASSUME NEW e \in Entries, DirWrite(e) PROVE BitsInv'
  BY <1>8, DirWriteBits
<1> QED
  BY <1>1, <1>2, <1>3, <1>4, <1>5, <1>6, <1>7, <1>8 DEF Next

\* With nobody freeing, the bits accounted for are those of the blocks in use.
LEMMA BitsHeld == ASSUME IInv, TreeInv, BitsInv PROVE BitsExact
<1> DEFINE Saved == UNION {Refs(dinode[i].addrs, i) : i \in named \ Live}
<1> SUFFICES ASSUME Calm, \A i \in Inums : ~Unlinking(i)
             PROVE  {b + DataStart : b \in bits} =
                      {RootBlock} \cup taken \cup {x[3] : x \in MemRefs} \cup {x[3] : x \in Saved}
  BY DEF BitsExact, Calm
<1>1. /\ Ownership(disk, Vec, Pend, bits, taken) /\ \A x \in bits : Accounted(disk, Vec, Pend, taken, x)
  BY CalmHas
<1>2. \A i \in Inums : Pend[i] = {}
  BY DEF Pend
<1>3. ASSUME NEW i \in Inums, NEW s \in Places, Ref(disk, Vec[i], s) # 0
      PROVE  Ref(disk, Vec[i], s) \in {x[3] : x \in MemRefs} \cup {x[3] : x \in Saved}
  <2>1. PICK A, y : A = Vec[i] /\ y = <<i, s, Ref(disk, A, s)>>
    OBVIOUS
  <2>2. y \in Refs(A, i) /\ y[3] = Ref(disk, A, s)
    BY <1>3, <2>1 DEF Refs
  <2>3. CASE ip[i].valid
    <3>1. i \in Live /\ A = ip[i].addrs
      BY <2>1, <2>3 DEF Live, Vec
    <3>2. y \in MemRefs
      BY <2>2, <3>1 DEF MemRefs
    <3> QED
      BY <2>1, <2>2, <3>2
  <2>4. CASE ~ip[i].valid /\ i \in named
    <3>1. i \in named \ Live /\ A = dinode[i].addrs
      BY <2>1, <2>4 DEF Live, Vec
    <3>2. y \in Saved
      BY <2>2, <3>1
    <3> QED
      BY <2>1, <2>2, <3>2
  <2>5. CASE ~ip[i].valid /\ i \notin named
    <3>1. Vec[i] = NoAddrs
      BY <2>5 DEF Vec
    <3> QED
      BY <1>3, <3>1, NoneHas
  <2> QED
    BY <2>3, <2>4, <2>5
<1>4. ASSUME NEW x \in bits
      PROVE  x + DataStart \in {RootBlock} \cup taken \cup {y[3] : y \in MemRefs} \cup {y[3] : y \in Saved}
  <2>1. Accounted(disk, Vec, Pend, taken, x)
    BY <1>1
  <2>2. CASE x = 0
    BY <2>2 DEF RootBlock, DataStart
  <2>3. CASE x + DataStart \in taken
    BY <2>3
  <2>4. ASSUME NEW i \in Inums, NEW s \in Places, Has(disk, Vec, Pend, i, s, x + DataStart)
        PROVE  x + DataStart \in {y[3] : y \in MemRefs} \cup {y[3] : y \in Saved}
    <3>1. x + DataStart = Ref(disk, Vec[i], s) /\ Ref(disk, Vec[i], s) # 0
      BY <1>2, <2>4 DEF Has
    <3> QED
      BY <1>3, <3>1
  <2> QED
    BY <2>1, <2>2, <2>3, <2>4 DEF Accounted
<1>5. ASSUME NEW i \in Inums, NEW s \in Places, NEW A, A = Vec[i], Ref(disk, A, s) # 0
      PROVE  Ref(disk, A, s) \in {b + DataStart : b \in bits}
  <2>1. PICK c : c = Ref(disk, A, s)
    OBVIOUS
  <2>2. Owned(disk, Vec, Pend, bits, taken)
    BY <1>1 DEF Ownership
  <2>3. c \in Words /\ c \in Int
    <3>1. c \in Blocks
      BY <1>5, <2>1, <2>2, VecIs, OwnedRef
    <3> QED
      BY <3>1, Numbers, Sizes
  <2>4. Has(disk, Vec, Pend, i, s, c)
    BY <1>5, <2>1 DEF Has
  <2>5. c - DataStart \in bits
    BY <2>2, <2>3, <2>4 DEF Owned
  <2>6. c = (c - DataStart) + DataStart
    BY <2>3 DEF DataStart
  <2> QED
    BY <2>1, <2>5, <2>6
<1>6. ASSUME NEW c \in {RootBlock} \cup taken \cup {y[3] : y \in MemRefs} \cup {y[3] : y \in Saved}
      PROVE  c \in {b + DataStart : b \in bits}
  <2>1. CASE c = RootBlock
    <3>1. 0 \in bits /\ c = 0 + DataStart
      BY <1>1, <2>1 DEF Ownership, RootBlock, DataStart
    <3> QED
      BY <3>1
  <2>2. CASE c \in taken
    <3>1. c - DataStart \in bits
      BY <1>1, <2>2 DEF Ownership
    <3>2. c \in Int
      <4>1. taken \subseteq Blocks
        BY DEF IInv, Shape
      <4> QED
        BY <2>2, <4>1, Numbers, Sizes
    <3>3. c = (c - DataStart) + DataStart
      BY <3>2 DEF DataStart
    <3> QED
      BY <3>1, <3>3
  <2>3. ASSUME NEW y \in MemRefs, c = y[3] PROVE c \in {b + DataStart : b \in bits}
    <3>1. PICK i \in Live : y \in Refs(ip[i].addrs, i)
      BY DEF MemRefs
    <3>2. i \in Inums /\ ip[i].addrs = Vec[i]
      BY <3>1 DEF Live, Vec
    <3>3. PICK A : A = ip[i].addrs
      OBVIOUS
    <3>4. PICK s \in Places : Ref(disk, A, s) # 0 /\ y = <<i, s, Ref(disk, A, s)>>
      BY <3>1, <3>3 DEF Refs
    <3> QED
      BY <1>5, <2>3, <3>2, <3>3, <3>4
  <2>4. ASSUME NEW y \in Saved, c = y[3] PROVE c \in {b + DataStart : b \in bits}
    <3>1. PICK i \in named \ Live : y \in Refs(dinode[i].addrs, i)
      OBVIOUS
    <3>2. i \in Inums /\ dinode[i].addrs = Vec[i]
      BY <3>1 DEF Live, Vec, IInv, Shape
    <3>3. PICK A : A = dinode[i].addrs
      OBVIOUS
    <3>4. PICK s \in Places : Ref(disk, A, s) # 0 /\ y = <<i, s, Ref(disk, A, s)>>
      BY <3>1, <3>3 DEF Refs
    <3> QED
      BY <1>5, <2>4, <3>2, <3>3, <3>4
  <2> QED
    BY <1>6, <2>1, <2>2, <2>3, <2>4
<1> QED
  BY <1>4, <1>6

\* As long as nothing has gone wrong, every bit set is that of a block in use, entry blocks
\* are filled from the left, and addresses not yet saved are those of a write under way.
THEOREM BitsInductive == Spec => []BitsInv
<1>1. Init => BitsInv
  BY InitBits
<1>2. (IInv /\ TreeInv /\ ContentInv) /\ BitsInv /\ [Next]_vars => BitsInv'
  BY NextBits
<1> QED
  BY <1>1, <1>2, Inductive, TreeInductive, ContentInductive, PTL DEF Spec

\* The bitmap loses no block: with no gaps in files, no power cut and no full disk, a bit is
\* set exactly for the blocks of the trees, of processes and of the root directory, whatever
\* reads, writes, evictions and unlinks came before.
THEOREM BitsStayExact == Spec => []BitsExact
<1>1. IInv /\ TreeInv /\ BitsInv => BitsExact
  BY BitsHeld
<1> QED
  BY <1>1, Inductive, TreeInductive, BitsInductive, PTL
=============================================================================
