------------------------------ MODULE InodeData ------------------------------
(***************************************************************************)
(* The data of files: the block bitmap (kernel/fs/bitmap.c), the tree of   *)
(* blocks under an inode and its reading, writing and freeing (inode.c),   *)
(* file offsets (file.c), sys_alloc_block and sys_free_block, and what a   *)
(* power cut or a panic between two disk writes leaves behind.             *)
(*                                                                         *)
(* The unit of lengths and offsets is the 32-bit word, so a block holds    *)
(* ENTRY_PER_BLOCK of them and any block can be read as data or as         *)
(* entries.  A step is one round of a copy loop; call[i] is the call that  *)
(* holds inode i locked.  buf_write() is synchronous, so a step is also a  *)
(* sequence of disk images, and the power may fail after each of them.     *)
(* References, locks and names are in Files; here a file is open once, and *)
(* only its last name is deleted.  The files are those of processes: inodes*)
(* 1 to 3, which fs_init() names again at every boot, are not among them.  *)
(***************************************************************************)
EXTENDS Integers, Sequences, FiniteSets, FiniteSetsExt, SequencesExt

CONSTANTS
  NINUM,     \* inodes, all created and empty at the start
  E,         \* ENTRY_PER_BLOCK, words of a block
  N1, N2,    \* N_ADDRS_1 and N_ADDRS_2; N_ADDRS_3 is 1
  NB,        \* bits of the block bitmap
  W,         \* 2^32, in words
  Lens,      \* the lengths callers pass
  Seeks,     \* the flags and offsets callers pass to lseek
  MaxCalls   \* bound: calls of lseek, read, write, unlink, alloc_block

ASSUME DataAssumption ==
  /\ {NINUM, E, N1, N2, NB} \subseteq Nat \ {0}
  /\ W \in Nat /\ W > (N1 + N2 * E + E * E) * E
  /\ Lens \subseteq 0 .. W - 1
  /\ Seeks \subseteq {"SET", "ADD", "SUB"} \X (0 .. W - 1)
  /\ MaxCalls \in Nat

Inums == 1 .. NINUM
MAXSIZE == (N1 + N2 * E + E * E) * E       \* INODE_MAXSIZE
DataStart == 1                             \* sb.data_start; block 0 is the super block
Blocks == 0 .. DataStart + NB - 1
RootBlock == DataStart                     \* bit 0, taken by mkfs for the root directory
Addrs == 0 .. N1 + N2
Entries == 0 .. E - 1

\* Words of data are no block numbers of this disk: file i's own word, the magic
\* number of the super block, and what is in a directory entry.
Data(i) == Max(Blocks) + i
Magic == Max(Blocks) + NINUM + 1
Dirent == Magic + 1
Words == 0 .. Dirent
NoWord == -1
Zeros == [e \in Entries |-> 0]

VARIABLES
  bits,      \* disk: the bits set in the block bitmap
  disk,      \* disk: the words of each block
  dinode,    \* disk: size and addrs of each inode
  named,     \* disk: the inodes that have a name
  ip,        \* icache: size and addrs, if valid
  file,      \* the file open on an inode: its offset
  call,      \* the call under way on an inode
  taken,     \* blocks sys_alloc_block has given to processes
  panicked,  \* why the kernel stopped, "no" while it runs
  content,   \* history: the words written to a file
  sparse,    \* history: inodes written to beyond their size
  calls,     \* calls counted by the bound
  past       \* history: what has happened of "full", "stale", "crash"

vars == <<bits, disk, dinode, named, ip, file, call, taken, panicked,
          content, sparse, calls, past>>

NoAddrs == [a \in Addrs |-> 0]
NoInode == [valid |-> FALSE, size |-> 0, addrs |-> NoAddrs]
Closed == [open |-> FALSE, offset |-> 0]

\* A call at its start; frees is what an unlink has still to free: places of the
\* tree and the blocks there.
NewCall(op, off, len, user, frees) ==
  [op |-> op, off |-> off, len |-> len, total |-> 0, user |-> user, frees |-> frees]
NoCall == NewCall("none", 0, 0, FALSE, {})

TypeOK ==
  /\ bits \subseteq 0 .. NB - 1
  /\ disk \in [Blocks -> [Entries -> Words]]
  /\ dinode \in [Inums -> [size : 0 .. MAXSIZE, addrs : [Addrs -> Words]]]
  /\ named \subseteq Inums
  /\ \A i \in Inums :
       /\ ip[i].valid \in BOOLEAN /\ ip[i].size \in 0 .. MAXSIZE
       /\ ip[i].addrs \in [Addrs -> Words]
       /\ file[i].open \in BOOLEAN /\ file[i].offset \in 0 .. W - 1
       /\ call[i].op \in {"none", "read", "write", "unlink"}
       /\ {call[i].off, call[i].len, call[i].total} \subseteq 0 .. W - 1
       /\ call[i].total <= call[i].len
  /\ taken \subseteq Blocks
  /\ panicked \in {"no", "bn too large", "io", "acquire", "page fault", "destroy", "magic"}
  /\ content \in [Inums -> [0 .. MAXSIZE - 1 -> Words \cup {NoWord}]]
  /\ sparse \subseteq Inums
  /\ calls \in 0 .. MaxCalls
  /\ past \subseteq {"full", "stale", "crash"}

\* The disk of mkfs after its first boot: zeros, bit 0 for the root directory,
\* and an empty file for each inode.  Block 0 begins with the super block, its
\* fields up to data_blocks in word 0.  fs_init() has made directories without a
\* block of their own, and put their entries behind that, over total_blocks.
Init ==
  /\ bits = {0}
  /\ disk = [b \in Blocks |->
               IF b = 0 THEN [e \in Entries |-> IF e = 0 THEN Magic ELSE Dirent] ELSE Zeros]
  /\ dinode = [i \in Inums |-> [size |-> 0, addrs |-> NoAddrs]]
  /\ named = Inums
  /\ ip = [i \in Inums |-> NoInode]
  /\ file = [i \in Inums |-> Closed]
  /\ call = [i \in Inums |-> NoCall]
  /\ taken = {}
  /\ panicked = "no"
  /\ content = [i \in Inums |-> [o \in 0 .. MAXSIZE - 1 |-> NoWord]]
  /\ sparse = {} /\ calls = 0 /\ past = {}

-----------------------------------------------------------------------------
(* The bitmap and the tree of blocks, as functions of a disk image (with   *)
(* the history that led to it).                                            *)

Image == [bits |-> bits, disk |-> disk, past |-> past]

FreeBits(im) == 0 .. NB - 1 \ im.bits

\* bitmap_alloc_block(): the first free bit is set on the disk; 0 if there is none.
AllocBlock(im) ==
  IF FreeBits(im) = {} THEN [blk |-> 0, im |-> [im EXCEPT !.past = @ \cup {"full"}]]
  ELSE LET b == Min(FreeBits(im)) IN
       [blk |-> DataStart + b, im |-> [im EXCEPT !.bits = @ \cup {b}]]

\* bitmap_free_block(): numbers out of range and bit 0 are ignored.
FreeBlock(bs, b) == IF b > DataStart THEN bs \ {b - DataStart} ELSE bs

\* inode_locate_block() and locate_block(): the index into addrs and then into
\* each entry block on the way to block bn; <<>> if bn is too large.
Path(bn) ==
  LET c == bn - N1
      d == c - N2 * E
  IN IF c < 0 THEN <<bn>>
     ELSE IF d < 0 THEN <<N1 + c \div E, c % E>>
     ELSE IF d < E * E THEN <<N1 + N2, d \div E, d % E>>
     ELSE <<>>

\* locate_block() has come to an entry: it allocates if the entry is 0.  last
\* is the image after the latest disk write, images all of them.
Visit(r, entry) ==
  IF entry # 0 THEN [r EXCEPT !.blk = entry, !.new = FALSE]
  ELSE LET a == AllocBlock(r.last) IN
       [r EXCEPT !.blk = a.blk, !.new = TRUE, !.last = a.im,
                 !.images = IF a.blk = 0 THEN @ ELSE Append(@, a.im)]

\* locate_block() one level down: it reads the block it has come to and looks at
\* its entry path[k].  The blocks on the way stay locked; a block outside of the
\* disk is an I/O error.
Descend(r, path, k) ==
  IF r.err # "no" \/ k > Len(path) THEN r
  ELSE IF r.blk \notin Blocks THEN [r EXCEPT !.err = "io"]
  ELSE IF \E j \in DOMAIN r.way : r.way[j].blk = r.blk THEN [r EXCEPT !.err = "acquire"]
  ELSE LET words == r.last.disk[r.blk]
           stale == r.new /\ r.blk # 0 /\ words # Zeros
           q == [r EXCEPT !.last.past = IF stale THEN @ \cup {"stale"} ELSE @]
           s == Visit(q, words[path[k]])
       IN [s EXCEPT !.way = Append(@, [blk |-> r.blk, e |-> path[k], to |-> s.blk])]

PutWord(im, b, e, w) == [im EXCEPT !.disk[b][e] = w]

\* The recursion of locate_block() returns: the k-th block on the way is written.
WriteBack(r, k) ==
  IF r.err # "no" \/ k > Len(r.way) THEN r
  ELSE LET im == PutWord(r.last, r.way[k].blk, r.way[k].e, r.way[k].to) IN
       [r EXCEPT !.last = im, !.images = Append(@, im)]

\* inode_locate_block(): the block, the new addrs and the disk images.  A path has
\* at most three elements.
Locate(addrs, path) ==
  LET start == [blk |-> 0, new |-> FALSE, way |-> <<>>, err |-> "no",
                last |-> Image, images |-> <<>>, addrs |-> addrs]
      top == Visit(start, addrs[path[1]])
      down == Descend(Descend(top, path, 2), path, 3)
      up == WriteBack(WriteBack(down, 2), 1)
  IN [up EXCEPT !.addrs[path[1]] = top.blk,
                !.err = IF @ = "no" /\ up.blk \notin Blocks THEN "io" ELSE @]

\* Instead of an entry and a block: buf_read() of an entry block panics, as it is
\* not on the disk or its buffer is locked already.
Unreadable == -1

\* The entries of block b that data_free() visits, up to the first 0, and the
\* block at each.
Leading(b, above) ==
  IF b \in Blocks \ above
  THEN {<<e, disk[b][e]>> : e \in {f \in Entries : \A d \in 0 .. f : disk[b][d] # 0}}
  ELSE {<<Unreadable, Unreadable>>}

\* Mutant: data_free() that forgets the entry block itself.
DataFree1KeepsTable(s, b, above) ==
  {<<Append(s, x[1]), x[2]>> : x \in Leading(b, above)}

\* data_free() of an entry block of level 1 and 2, at place s of the tree.
DataFree1(s, b, above) ==
  {<<s, b>>} \cup {<<Append(s, x[1]), x[2]>> : x \in Leading(b, above)}

DataFree2(s, b) ==
  {<<s, b>>} \cup UNION {IF x[1] = Unreadable THEN {<<Append(s, x[1]), x[2]>>}
                         ELSE DataFree1(Append(s, x[1]), x[2], {b}) : x \in Leading(b, {})}

\* inode_free_data(): the places it frees, and their blocks.
FreeData(addrs) ==
  UNION {IF a < N1 THEN {<< <<a>>, addrs[a]>>}
         ELSE IF a < N1 + N2 THEN DataFree1(<<a>>, addrs[a], {}) ELSE DataFree2(<<a>>, addrs[a])
         : a \in {c \in Addrs : addrs[c] # 0}}

\* The order of data_free(): from left to right, a block after its entries.
Rank(s) ==
  LET Index(k) == IF k <= Len(s) THEN s[k] + 1 ELSE E + 1 IN
  (Index(1) * (E + 2) + Index(2)) * (E + 2) + Index(3)

FirstFreed(frees) == CHOOSE x \in frees : \A y \in frees : Rank(x[1]) <= Rank(y[1])

-----------------------------------------------------------------------------
(* Calls.                                                                  *)

Running == panicked = "no"
Idle(i) == Running /\ call[i].op = "none"
HasFile(i) == Idle(i) /\ file[i].open

OnDisk == <<bits, disk, dinode, named>>
History == <<content, sparse, past>>

\* One of the calls that the bound counts.
Count == calls < MaxCalls /\ calls' = calls + 1

\* The inode after inode_lock(): read from the disk if it is not valid.
Locked(i) == IF ip[i].valid THEN ip[i]
             ELSE [valid |-> TRUE, size |-> dinode[i].size, addrs |-> dinode[i].addrs]

\* sys_open() of a file that exists.
Open(i) ==
  /\ Idle(i) /\ ~file[i].open /\ i \in named
  /\ ip' = [ip EXCEPT ![i] = Locked(i)]
  /\ file' = [file EXCEPT ![i] = [open |-> TRUE, offset |-> 0]]
  /\ UNCHANGED <<OnDisk, call, taken, panicked, History, calls>>

\* The last file_close(): inode_free() of an inode without names panics.
Close(i) ==
  /\ HasFile(i)
  /\ IF i \in named
     THEN file' = [file EXCEPT ![i] = Closed] /\ UNCHANGED panicked
     ELSE panicked' = "destroy" /\ UNCHANGED file
  /\ UNCHANGED <<OnDisk, ip, call, taken, History, calls>>

\* inode_alloc() of another inode takes the slot of one without references.
Evict(i) ==
  /\ Idle(i) /\ ~file[i].open /\ ip[i].valid
  /\ ip' = [ip EXCEPT ![i] = NoInode]
  /\ content' = [content EXCEPT ![i] = IF i \in sparse THEN [o \in DOMAIN @ |-> NoWord] ELSE @]
  /\ UNCHANGED <<OnDisk, file, call, taken, panicked, sparse, past, calls>>

\* Mutant: file offsets of more than 32 bits.
NewOffsetWide(old, o, flags) ==
  CASE flags = "SET" -> o
    [] flags = "ADD" -> old + o
    [] flags = "SUB" -> IF old >= o THEN old - o ELSE 0

\* file_lseek() with LSEEK_SET, LSEEK_ADD and LSEEK_SUB.
NewOffset(old, o, flags) ==
  CASE flags = "SET" -> o
    [] flags = "ADD" -> (old + o) % W
    [] flags = "SUB" -> IF old >= o THEN old - o ELSE 0

\* sys_lseek: takes no lock, so a process that shares the file may come in
\* between the steps of a read or write.
Lseek(i, o, flags) ==
  /\ Running /\ file[i].open /\ Count
  /\ file' = [file EXCEPT ![i].offset = NewOffset(@, o, flags)]
  /\ UNCHANGED <<OnDisk, ip, call, taken, panicked, content, sparse, past>>

\* Mutant: inode_write_data() testing the offset alone.
WriteStartOffsetOnly(i, len, user) ==
  LET off == file[i].offset IN
  /\ HasFile(i) /\ Count
  /\ off <= MAXSIZE
  /\ call' = [call EXCEPT ![i] = NewCall("write", off, len, user, {})]
  /\ sparse' = IF off > ip[i].size THEN sparse \cup {i} ELSE sparse
  /\ UNCHANGED <<OnDisk, ip, file, taken, panicked, content, past>>

\* file_write() to inode_write_data(): refused beyond the largest file.
WriteStart(i, len, user) ==
  LET off == file[i].offset IN
  /\ HasFile(i) /\ Count
  /\ (off + len) % W <= MAXSIZE
  /\ call' = [call EXCEPT ![i] = NewCall("write", off, len, user, {})]
  /\ sparse' = IF off > ip[i].size THEN sparse \cup {i} ELSE sparse
  /\ UNCHANGED <<OnDisk, ip, file, taken, panicked, content, past>>

\* inode_write_data() returns 0 and file_write() moves the offset by 0.
WriteRefused(i, len) ==
  /\ HasFile(i)
  /\ (file[i].offset + len) % W > MAXSIZE
  /\ UNCHANGED vars

\* file_read() to inode_read_data(): nothing at the end of the file, else the
\* length is cut to what is left.
ReadStart(i, len, user) ==
  LET off == file[i].offset
      cut == IF (off + len) % W > ip[i].size THEN ip[i].size - off ELSE len
  IN /\ HasFile(i) /\ Count
     /\ off < ip[i].size
     /\ call' = [call EXCEPT ![i] = NewCall("read", off, cut, user, {})]
     /\ UNCHANGED <<OnDisk, ip, file, taken, panicked, History>>

InLoop(i) == Running /\ call[i].op \in {"read", "write"} /\ call[i].total < call[i].len

\* The current offset of the loop, and the words of this round.
Pos(i) == call[i].off + call[i].total
Round(i) == Min({E - (Pos(i) % E), call[i].len - call[i].total})

\* The words of this round in the block, and in the file.
Span(i) == (Pos(i) % E) .. ((Pos(i) % E) + Round(i) - 1)

\* The image after the data of a round has been written to block b.
Filled(i, im, b) ==
  [im EXCEPT !.disk[b] = [e \in Entries |-> IF e \in Span(i) THEN Data(i) ELSE @[e]]]

PathAt(i) == Path(Pos(i) \div E)

\* A round of the loops of inode_read_data() and inode_write_data().
Transfer(i) ==
  /\ InLoop(i)
  /\ IF PathAt(i) = <<>>
     THEN panicked' = "bn too large" /\ UNCHANGED <<bits, disk, ip, call, content, past>>
     ELSE LET r == Locate(ip[i].addrs, PathAt(i))
              why == IF r.err # "no" THEN r.err
                     ELSE IF call[i].user THEN "page fault" ELSE "no"
              writes == why = "no" /\ call[i].op = "write"
              im == IF writes THEN Filled(i, r.last, r.blk) ELSE r.last
          IN /\ panicked' = why
             /\ bits' = im.bits /\ disk' = im.disk
             /\ ip' = [ip EXCEPT ![i].addrs = r.addrs]
             /\ call' = IF why = "no" THEN [call EXCEPT ![i].total = @ + Round(i)] ELSE call
             /\ content' = IF writes
                           THEN [content EXCEPT ![i] =
                                   [o \in DOMAIN @ |-> IF o \in Pos(i) .. Pos(i) + Round(i) - 1
                                                       THEN Data(i) ELSE @[o]]]
                           ELSE content
             /\ past' = im.past
  /\ UNCHANGED <<dinode, named, file, taken, sparse, calls>>

Done(i, op) == Running /\ call[i].op = op /\ call[i].total = call[i].len

\* The loop of a read is over: file_read() moves the offset.
ReadEnd(i) ==
  /\ Done(i, "read")
  /\ file' = [file EXCEPT ![i].offset = (@ + call[i].total) % W]
  /\ call' = [call EXCEPT ![i] = NoCall]
  /\ UNCHANGED <<OnDisk, ip, taken, panicked, History, calls>>

\* Mutant: inode_write_data() without its inode_rw().
WriteEndUnsaved(i) ==
  /\ Done(i, "write")
  /\ ip' = [ip EXCEPT ![i].size = IF Pos(i) > @ THEN Pos(i) ELSE @]
  /\ file' = [file EXCEPT ![i].offset = (@ + call[i].total) % W]
  /\ call' = [call EXCEPT ![i] = NoCall]
  /\ UNCHANGED <<OnDisk, taken, panicked, History, calls>>

\* The loop of a write is over: inode_write_data() saves the inode if the file
\* has grown, file_write() moves the offset.
WriteEnd(i) ==
  /\ Done(i, "write")
  /\ IF Pos(i) > ip[i].size
     THEN /\ ip' = [ip EXCEPT ![i].size = Pos(i)]
          /\ dinode' = [dinode EXCEPT ![i] = [size |-> Pos(i), addrs |-> ip[i].addrs]]
     ELSE UNCHANGED <<ip, dinode>>
  /\ file' = [file EXCEPT ![i].offset = (@ + call[i].total) % W]
  /\ call' = [call EXCEPT ![i] = NoCall]
  /\ UNCHANGED <<bits, disk, named, taken, panicked, History, calls>>

\* Mutant: path_unlink() deleting the name only in memory.
UnlinkStartKeepsName(i) ==
  /\ Idle(i) /\ i \in named /\ Count
  /\ ip' = [ip EXCEPT ![i] = Locked(i)]
  /\ call' = [call EXCEPT ![i] = NewCall("unlink", 0, 0, FALSE, FreeData(Locked(i).addrs))]
  /\ UNCHANGED <<OnDisk, file, taken, panicked, History>>

\* path_unlink() of the last name, after dir_delete_entry().
UnlinkStart(i) ==
  /\ Idle(i) /\ i \in named /\ Count
  /\ named' = named \ {i}
  /\ ip' = [ip EXCEPT ![i] = Locked(i)]
  /\ call' = [call EXCEPT ![i] = NewCall("unlink", 0, 0, FALSE, FreeData(Locked(i).addrs))]
  /\ UNCHANGED <<bits, disk, dinode, file, taken, panicked, History>>

\* inode_free_data() frees the next block.
UnlinkFree(i) ==
  /\ Running /\ call[i].op = "unlink" /\ call[i].frees # {}
  /\ LET x == FirstFreed(call[i].frees) IN
     IF x[2] = Unreadable
     THEN panicked' = "io" /\ UNCHANGED <<bits, call>>
     ELSE /\ bits' = FreeBlock(bits, x[2])
          /\ call' = [call EXCEPT ![i].frees = @ \ {x}]
          /\ UNCHANGED panicked
  /\ UNCHANGED <<disk, dinode, named, ip, file, taken, History, calls>>

\* All blocks are free: the inode is saved and given back, and inode_free()
\* panics if nobody else has it.
UnlinkEnd(i) ==
  /\ Running /\ call[i].op = "unlink" /\ call[i].frees = {}
  /\ ip' = [ip EXCEPT ![i].size = 0, ![i].addrs = NoAddrs]
  /\ dinode' = [dinode EXCEPT ![i] = [size |-> 0, addrs |-> NoAddrs]]
  /\ content' = [content EXCEPT ![i] = [o \in DOMAIN @ |-> NoWord]]
  /\ call' = [call EXCEPT ![i] = NoCall]
  /\ panicked' = IF file[i].open THEN "no" ELSE "destroy"
  /\ UNCHANGED <<bits, disk, named, file, taken, sparse, past, calls>>

\* sys_alloc_block; the blocks that other files take are among these as well.
SysAlloc ==
  LET a == AllocBlock(Image) IN
  /\ Running /\ Count
  /\ bits' = a.im.bits
  /\ taken' = IF a.blk = 0 THEN taken ELSE taken \cup {a.blk}
  /\ UNCHANGED <<disk, dinode, named, ip, file, call, panicked, History>>

\* sys_free_block of a block the process has from sys_alloc_block.
SysFree(b) ==
  /\ Running /\ b \in taken
  /\ bits' = FreeBlock(bits, b)
  /\ taken' = taken \ {b}
  /\ UNCHANGED <<disk, dinode, named, ip, file, call, panicked, History, calls>>

\* A directory that inode_create() has made gets no block, so dir_add_entry() and
\* dir_delete_entry() of it read addrs[0] = 0 and write block 0.  The first place
\* there is taken by the super block.
DirWrite(e) ==
  /\ Running /\ e # 0
  /\ disk' = [disk EXCEPT ![0][e] = Dirent]
  /\ UNCHANGED <<bits, dinode, named, ip, file, call, taken, panicked, History, calls>>

\* The machine starts again with the disk as im: fs_init() reads the super block.
RebootFrom(im) ==
  /\ bits' = im.bits /\ disk' = im.disk
  /\ ip' = [i \in Inums |-> NoInode]
  /\ file' = [i \in Inums |-> Closed]
  /\ call' = [i \in Inums |-> NoCall]
  /\ taken' = {}
  /\ panicked' = IF im.disk[0][0] = Magic THEN "no" ELSE "magic"
  /\ content' = [i \in Inums |-> [o \in DOMAIN content[i] |->
                   IF i \in sparse \/ o >= dinode[i].size THEN NoWord ELSE content[i][o]]]
  /\ past' = im.past \cup {"crash"}
  /\ UNCHANGED <<dinode, named, sparse, calls>>

\* Power cut, or reset after a panic.
Reboot == panicked # "magic" /\ RebootFrom(Image)

\* Power cut between two disk writes of a round.
RebootInside(i) ==
  /\ InLoop(i) /\ PathAt(i) # <<>>
  /\ LET r == Locate(ip[i].addrs, PathAt(i)) IN
     \E k \in DOMAIN r.images : RebootFrom(r.images[k])

Next ==
  \/ \E i \in Inums :
       \/ Open(i) \/ Close(i) \/ Evict(i)
       \/ \E k \in Seeks : Lseek(i, k[2], k[1])
       \/ \E len \in Lens, user \in BOOLEAN :
            WriteStart(i, len, user) \/ WriteRefused(i, len) \/ ReadStart(i, len, user)
       \/ Transfer(i) \/ ReadEnd(i) \/ WriteEnd(i)
       \/ UnlinkStart(i) \/ UnlinkFree(i) \/ UnlinkEnd(i)
       \/ RebootInside(i)
  \/ SysAlloc \/ \E b \in Blocks : SysFree(b)
  \/ \E e \in Entries : DirWrite(e)
  \/ Reboot

Spec == Init /\ [][Next]_vars

-----------------------------------------------------------------------------
(* Properties.                                                             *)

Unlinking(i) == call[i].op = "unlink"

\* The places of a tree of blocks where a block number is kept.
Places == {<<a>> : a \in Addrs} \cup (N1 .. N1 + N2) \X Entries
          \cup {N1 + N2} \X Entries \X Entries

At(d, b, e) == IF b = 0 THEN 0 ELSE d[b][e]

\* The block number at place s of the tree under addrs on disk d, 0 for none.
Ref(d, addrs, s) ==
  CASE Len(s) = 1 -> addrs[s[1]]
    [] Len(s) = 2 -> At(d, addrs[s[1]], s[2])
    [] Len(s) = 3 -> At(d, At(d, addrs[s[1]], s[2]), s[3])

Refs(addrs, i) ==
  {<<i, s, Ref(disk, addrs, s)>> : s \in {t \in Places : Ref(disk, addrs, t) # 0}}

\* References R to blocks: each is to an allocated block that nobody else has.
Sound(R) ==
  /\ \A x, y \in R : x[3] = y[3] => x = y
  /\ \A x \in R : x[3] > RootBlock /\ x[3] \in Blocks \ taken /\ x[3] - DataStart \in bits

\* The trees of the inodes in memory.
Live == {i \in Inums : ip[i].valid /\ ~Unlinking(i)}
MemRefs == UNION {Refs(ip[i].addrs, i) : i \in Live}

\* The trees a reboot would find under the names.
DiskRefs == UNION {Refs(dinode[i].addrs, i) : i \in named}

\* No block belongs to two files, twice to one, or to a file and the bitmap's
\* free blocks, in memory and on the disk of a machine stopped between any two
\* disk writes: as long as the disk has not been full and no block with old
\* entries in it has become an entry block (neither is tested by the code).
TreesDisjoint == past \cap {"full", "stale"} = {} => Sound(MemRefs) /\ Sound(DiskRefs)

\* inode_free_data() and the allocation on the way to a block lose nothing: with
\* no gaps in files and no power cut, a bit is set exactly for the blocks in use.
BitsExact ==
  past = {} /\ sparse = {} /\ (\A i \in Inums : ~Unlinking(i)) =>
    {b + DataStart : b \in bits} =
      {RootBlock} \cup taken \cup {x[3] : x \in MemRefs}
        \cup {x[3] : x \in UNION {Refs(dinode[i].addrs, i) : i \in named \ Live}}

WordAt(addrs, o) == At(disk, Ref(disk, addrs, Path(o \div E)), o % E)

\* What has been written to a file is what it holds: in memory, whatever calls
\* on other files, reads of gaps and frees came after; and for a file without
\* gaps also on the disk, up to the size saved there, after any power cut.
ContentAsWritten ==
  past \cap {"full", "stale"} = {} =>
    /\ \A i \in Live : \A o \in DOMAIN content[i] :
         content[i][o] # NoWord => WordAt(ip[i].addrs, o) = content[i][o]
    /\ \A i \in named \ sparse : \A o \in 0 .. dinode[i].size - 1 :
         content[i][o] # NoWord /\ WordAt(dinode[i].addrs, o) = content[i][o]

\* What fs_init() asserts of the disk at every boot: the super block has its
\* magic number.
MagicAsserted == panicked # "magic"

\* A block number too large for the tree comes only from an offset + len that
\* does not fit into 32 bits; every other write is refused before it starts.
TooLargeOnlyOnWrap ==
  panicked = "bn too large" => \E i \in Inums : call[i].off + call[i].len >= W
=============================================================================
