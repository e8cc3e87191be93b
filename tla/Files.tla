-------------------------------- MODULE Files --------------------------------
(***************************************************************************)
(* Open files, the inode table and the root directory: kernel/fs/file.c,   *)
(* inode.c, dir.c, the file system calls of sysfile.c, and what proc_fork()*)
(* and proc_free() do with descriptors.                                    *)
(*                                                                         *)
(* System calls run on hart 0 with interrupts off and give it up only in   *)
(* disk waits, so a step runs from one wait to the next and loc[p] says in *)
(* which wait p is and what it holds there.  slk is a spinlock kept across *)
(* these waits: taking it while it is locked panics, it never waits.       *)
(* An argument that is not looked at before the next wait is chosen after  *)
(* it.  Paths have one element; file offsets and contents are left out.    *)
(***************************************************************************)
EXTENDS Integers, FiniteSets, FiniteSetsExt

CONSTANTS
  Procs,          \* process slots
  Zero,           \* proczero
  Names,          \* names in the root directory
  NFD,            \* FILE_PER_PROC
  NFILE,          \* N_FILE
  NINODE,         \* N_INODE, slots of icache[]
  NINUM,          \* inodes of the bitmap
  DirMax,         \* entries that fit into the directory's block
  MaxLeak         \* bound: references to a file lost by sys_dup

ASSUME FilesAssumption ==
  /\ Zero \in Procs /\ IsFiniteSet(Procs)
  /\ {"d.txt", "b.txt"} \subseteq Names /\ IsFiniteSet(Names)
  /\ NFD \in Nat \ {0} /\ NFILE \in Nat \ {0} /\ NINODE \in Nat \ {0}
  /\ NINUM \in Nat /\ NINUM > 3 /\ DirMax \in Nat /\ DirMax > 1 /\ MaxLeak \in Nat

Root == 0                      \* INODE_ROOT
None == -1                     \* NULL, INODE_NUM_UNUSED
Fds == 0 .. NFD - 1
FileIds == 0 .. NFILE - 1
Slots == 0 .. NINODE - 1
Inums == 0 .. NINUM - 1

VARIABLES
  entries,    \* the root directory: name -> inode number
  inode,      \* type, nlink and whether a directory has entries of its own
  ibits,      \* bits set in the inode bitmap
  icache,     \* icache[]: inode_num, ref, slk
  ftable,     \* ftable[]: ref, ip (a slot) and the inode number it was opened for
  filelist,   \* p->filelist[]
  state,      \* p->state, as far as descriptors are concerned
  loc,        \* the wait a process is in
  dupLost,    \* references sys_dup has taken without a descriptor
  dirLost,    \* references sys_mkdir has taken and not given back
  panicked    \* why the kernel stopped, "no" while it runs

vars == <<entries, inode, ibits, icache, ftable, filelist, state, loc,
          dupLost, dirLost, panicked>>

Idle == [at |-> "run", ip |-> None, name |-> "none"]
Waits == {"run", "lookup", "inode", "dir", "both", "gone", "io"}
FILE == "file"
DIR == "dir"

TypeOK ==
  /\ entries \in [Names -> Inums \cup {None}]
  /\ inode \in [Inums -> [type : {"unused", FILE, DIR}, nlink : Nat, empty : BOOLEAN]]
  /\ ibits \subseteq Inums
  /\ icache \in [Slots -> [num : Inums \cup {None}, ref : Nat, slk : BOOLEAN]]
  /\ ftable \in [FileIds -> [ref : Nat, ip : Slots \cup {None}, of : Inums \cup {None}]]
  /\ filelist \in [Procs -> [Fds -> FileIds \cup {None}]]
  /\ state \in [Procs -> {"unused", "live", "zombie"}]
  /\ loc \in [Procs -> [at : Waits, ip : Slots \cup {None}, name : Names \cup {"none"}]]
  /\ dupLost \in [FileIds -> 0 .. MaxLeak]
  /\ dirLost \in [Inums -> Nat]
  /\ panicked \in {"no", "acquire", "no inode", "no file", "destroy", "no lock",
                   "close", "dup", "page fault"}

\* What fs_init() leaves on a fresh disk: the inodes of its tests, one of them
\* under two of their names, and the reference to the root it never gives back.
Init ==
  /\ entries = [n \in Names |-> CASE n = "d.txt" -> 1 [] n = "b.txt" -> 2 [] OTHER -> None]
  /\ inode = [i \in Inums |-> [type |-> IF i \in {Root, 2} THEN DIR
                                        ELSE IF i = 1 THEN FILE ELSE "unused",
                               nlink |-> IF i <= 2 THEN 1 ELSE 0,
                               empty |-> i \notin {Root, 2}]]
  /\ ibits = {Root, 1, 2}
  /\ icache = [s \in Slots |-> IF s = 0 THEN [num |-> Root, ref |-> 1, slk |-> FALSE]
                               ELSE [num |-> None, ref |-> 0, slk |-> FALSE]]
  /\ ftable = [f \in FileIds |-> [ref |-> 0, ip |-> None, of |-> None]]
  /\ filelist = [p \in Procs |-> [d \in Fds |-> None]]
  /\ state = [p \in Procs |-> IF p = Zero THEN "live" ELSE "unused"]
  /\ loc = [p \in Procs |-> Idle]
  /\ dupLost = [f \in FileIds |-> 0]
  /\ dirLost = [i \in Inums |-> 0]
  /\ panicked = "no"

-----------------------------------------------------------------------------
(* The inode table.                                                        *)

InCache(ic, i) == {s \in Slots : ic[s].num = i}
FreeSlots(ic) == {s \in Slots : ic[s].ref = 0}

\* inode_alloc(): the slot that holds i, else the first one without references.
SlotFor(ic, i) == IF InCache(ic, i) # {} THEN Min(InCache(ic, i)) ELSE Min(FreeSlots(ic))

CanAlloc(ic, i) == InCache(ic, i) # {} \/ FreeSlots(ic) # {}

\* Mutant: an inode found in the table gets no further reference.
InodeAllocNoRef(ic, i) ==
  [ic EXCEPT ![SlotFor(ic, i)] =
     [num |-> i, ref |-> IF InCache(ic, i) # {} THEN @.ref ELSE 1, slk |-> @.slk]]

\* inode_alloc(): one more reference, or the slot assigned anew.
InodeAlloc(ic, i) ==
  [ic EXCEPT ![SlotFor(ic, i)] =
     [num |-> i, ref |-> IF InCache(ic, i) # {} THEN @.ref + 1 ELSE 1, slk |-> @.slk]]

\* inode_lock() of an unlocked slot, inode_unlock().
Lock(ic, s) == [ic EXCEPT ![s].slk = TRUE]
Unlock(ic, s) == [ic EXCEPT ![s].slk = FALSE]

\* Mutant: the slot is not unlocked.
UnlockFreeLocked(ic, s) == [ic EXCEPT ![s].ref = @ - 1]

\* inode_unlock_free(), where inode_free() does not destroy the inode.
UnlockFree(ic, s) == [Unlock(ic, s) EXCEPT ![s].ref = @ - 1]

\* inode_free(): the last reference to an inode without names goes away.
\* inode_destroy() then calls inode_lock(), which asserts ref >= 1.
Destroys(ic, s, in) == ic[s].ref = 1 /\ in[ic[s].num].nlink = 0

Panic(why) ==
  /\ panicked' = why
  /\ UNCHANGED <<entries, inode, ibits, icache, ftable, filelist, state, loc,
                 dupLost, dirLost>>

Disk == <<entries, inode, ibits>>
SetDisk(dk) == entries' = dk[1] /\ inode' = dk[2] /\ ibits' = dk[3]
Open == <<ftable, filelist, state, dupLost>>
RootSlot == SlotFor(icache, Root)

At(p, where) == panicked = "no" /\ state[p] = "live" /\ loc[p].at = where
Return(p) == loc' = [loc EXCEPT ![p] = Idle]

-----------------------------------------------------------------------------
(* Path calls.  Each first locks the root and reads its block.             *)

\* search_inode(), or path_to_pinode() and inode_lock(), up to the wait in
\* dir_search_entry(), for every call that takes a path.
Lookup(p) ==
  /\ At(p, "run")
  /\ IF icache[RootSlot].slk
     THEN Panic("acquire")
     ELSE /\ icache' = Lock(InodeAlloc(icache, Root), RootSlot)
          /\ loc' = [loc EXCEPT ![p].at = "lookup"]
          /\ UNCHANGED <<Disk, Open, dirLost, panicked>>

\* The call fails: search_inode() and path_unlink() do not find the name, or
\* path_create_inode() does.
LookupFails(p) ==
  /\ At(p, "lookup")
  /\ icache' = UnlockFree(icache, RootSlot)
  /\ Return(p)
  /\ UNCHANGED <<Disk, Open, dirLost, panicked>>

\* search_inode() finds the inode; its caller locks it and waits in inode_rw().
LookupFinds(p, n) ==
  LET i == entries[n]
      ic == UnlockFree(icache, RootSlot)
  IN /\ At(p, "lookup")
     /\ i # None
     /\ IF ~CanAlloc(ic, i) THEN Panic("no inode")
        ELSE IF ic[SlotFor(ic, i)].slk THEN Panic("acquire")
        ELSE /\ icache' = Lock(InodeAlloc(ic, i), SlotFor(ic, i))
             /\ loc' = [loc EXCEPT ![p].at = "inode", ![p].ip = SlotFor(ic, i)]
             /\ UNCHANGED <<Disk, Open, dirLost, panicked>>

FreeFiles == {f \in FileIds : ftable[f].ref = 0}
FreeFds(p) == {d \in Fds : filelist[p][d] = None}

\* file_open() from file_alloc() on, with slot s of ic locked and the disk as in
\* dk, and the rest of sys_open(): without a descriptor the file is closed again.
FileOpen(p, ic, s, dk) ==
  IF FreeFiles = {} THEN Panic("no file")
  ELSE IF FreeFds(p) = {} /\ Destroys(ic, s, dk[2]) THEN Panic("destroy")
  ELSE /\ IF FreeFds(p) # {}
          THEN LET f == Min(FreeFiles) IN
               /\ ftable' = [ftable EXCEPT ![f] = [ref |-> 1, ip |-> s, of |-> ic[s].num]]
               /\ filelist' = [filelist EXCEPT ![p][Min(FreeFds(p))] = f]
               /\ icache' = Unlock(ic, s)
          ELSE icache' = UnlockFree(ic, s) /\ UNCHANGED <<ftable, filelist>>
       /\ SetDisk(dk)
       /\ Return(p)
       /\ UNCHANGED <<state, dupLost, dirLost, panicked>>

\* Mutant: a refused call unlocks the inode and keeps its reference.
PutInodeKept(p) ==
  /\ icache' = Unlock(icache, loc[p].ip)
  /\ Return(p)
  /\ UNCHANGED <<Disk, Open, dirLost, panicked>>

\* A call gives back the inode it has looked up and returns.
PutInode(p) ==
  IF Destroys(icache, loc[p].ip, inode) THEN Panic("destroy")
  ELSE /\ icache' = UnlockFree(icache, loc[p].ip)
       /\ Return(p)
       /\ UNCHANGED <<Disk, Open, dirLost, panicked>>

TypeAt(p) == inode[icache[loc[p].ip].num].type

\* Mutant: file_open() gives the inode back although the file points to it.
OpenEndFreed(p, write) ==
  /\ At(p, "inode")
  /\ IF TypeAt(p) = DIR /\ write THEN PutInode(p)
     ELSE FileOpen(p, [icache EXCEPT ![loc[p].ip].ref = @ - 1], loc[p].ip, Disk)

\* file_open() with the inode locked: a directory is not opened for writing.
OpenEnd(p, write) ==
  /\ At(p, "inode")
  /\ IF TypeAt(p) = DIR /\ write THEN PutInode(p)
     ELSE FileOpen(p, icache, loc[p].ip, Disk)

\* dir_change() validates the path and gives the inode back.
Chdir(p) == At(p, "inode") /\ PutInode(p)

InUse == {n \in Names : entries[n] # None}
FreeInums == Inums \ ibits

\* inode_create(): inode i, with its first link.
NewInode(i, type) == [inode EXCEPT ![i] = [type |-> type, nlink |-> 1, empty |-> TRUE]]

\* path_create_inode() after the search.  Both of its cleanups unlock the inode
\* before inode_free_data(), which asserts the lock.  sys_mkdir() drops the
\* inode that it gets; file_open() goes on with it.
CreateEnd(p, n, dir) ==
  LET i == Min(FreeInums)
      ic == UnlockFree(InodeAlloc(icache, i), RootSlot)
      s == SlotFor(icache, i)
      in == IF dir THEN [NewInode(i, DIR) EXCEPT ![Root].nlink = @ + 1] ELSE NewInode(i, FILE)
      dk == <<[entries EXCEPT ![n] = i], in, ibits \cup {i}>>
  IN /\ At(p, "lookup")
     /\ entries[n] = None
     /\ IF FreeInums = {}
        THEN /\ icache' = UnlockFree(icache, RootSlot)
             /\ Return(p)
             /\ UNCHANGED <<Disk, Open, dirLost, panicked>>
        ELSE \/ ~CanAlloc(icache, i) /\ Panic("no inode")
             \/ CanAlloc(icache, i) /\ Cardinality(InUse) >= DirMax /\ Panic("no lock")
             \/ CanAlloc(icache, i) /\ dir /\ Panic("no lock")   \* bitmap_alloc_block() fails
             \/ /\ CanAlloc(icache, i) /\ Cardinality(InUse) < DirMax
                /\ IF dir
                   THEN /\ SetDisk(dk) /\ icache' = ic /\ Return(p)
                        /\ dirLost' = [dirLost EXCEPT ![i] = @ + 1]
                        /\ UNCHANGED <<Open, panicked>>
                   ELSE FileOpen(p, Lock(ic, s), s, dk)

\* path_link() holds the old inode: directories are refused; else it looks up
\* and locks the new name's directory.
LinkDir(p) ==
  /\ At(p, "inode")
  /\ IF TypeAt(p) = DIR THEN PutInode(p)
     ELSE IF icache[RootSlot].slk THEN Panic("acquire")
     ELSE /\ icache' = Lock(InodeAlloc(icache, Root), RootSlot)
          /\ loc' = [loc EXCEPT ![p].at = "dir"]
          /\ UNCHANGED <<Disk, Open, dirLost, panicked>>

\* Mutant: the entry is added and the link is not counted.
LinkEndUncounted(p, n) ==
  LET s == loc[p].ip
      ic == UnlockFree(icache, RootSlot)
  IN /\ At(p, "dir")
     /\ IF entries[n] # None \/ Cardinality(InUse) >= DirMax
        THEN UNCHANGED <<entries, inode>>
        ELSE /\ entries' = [entries EXCEPT ![n] = icache[s].num]
             /\ UNCHANGED inode
     /\ icache' = UnlockFree(ic, s)
     /\ Return(p)
     /\ UNCHANGED <<ibits, Open, dirLost, panicked>>

\* dir_add_entry() has succeeded or not; path_link() counts the link and gives
\* both inodes back.
LinkEnd(p, n) ==
  LET s == loc[p].ip
      i == icache[s].num
      ic == UnlockFree(icache, RootSlot)
  IN /\ At(p, "dir")
     /\ IF entries[n] # None \/ Cardinality(InUse) >= DirMax
        THEN UNCHANGED <<entries, inode>>
        ELSE /\ entries' = [entries EXCEPT ![n] = i]
             /\ inode' = [inode EXCEPT ![i].nlink = @ + 1]
     /\ icache' = UnlockFree(ic, s)
     /\ Return(p)
     /\ UNCHANGED <<ibits, Open, dirLost, panicked>>

\* path_unlink() has found the name and locks its inode as well.
UnlinkFound(p, n) ==
  LET i == entries[n]
      s == SlotFor(icache, i)
  IN /\ At(p, "lookup")
     /\ i # None
     /\ IF ~CanAlloc(icache, i) THEN Panic("no inode")
        ELSE IF icache[s].slk THEN Panic("acquire")
        ELSE /\ icache' = Lock(InodeAlloc(icache, i), s)
             /\ loc' = [loc EXCEPT ![p] = [at |-> "both", ip |-> s, name |-> n]]
             /\ UNCHANGED <<Disk, Open, dirLost, panicked>>

\* check_unlink() refuses a directory with entries of its own; else the name
\* is deleted and the parent given back.
UnlinkName(p) ==
  LET i == icache[loc[p].ip].num
      ic == UnlockFree(icache, RootSlot)
  IN /\ At(p, "both")
     /\ IF inode[i].type = DIR /\ ~inode[i].empty
        THEN /\ icache' = UnlockFree(ic, loc[p].ip)
             /\ Return(p)
             /\ UNCHANGED Disk
        ELSE /\ entries' = [entries EXCEPT ![loc[p].name] = None]
             /\ inode' = IF inode[i].type = DIR THEN [inode EXCEPT ![Root].nlink = @ - 1]
                         ELSE inode
             /\ icache' = ic
             /\ loc' = [loc EXCEPT ![p].at = "gone", ![p].name = "none"]
             /\ UNCHANGED ibits
     /\ UNCHANGED <<Open, dirLost, panicked>>

\* path_unlink() counts the name off, frees the data of an inode without names
\* and gives the inode back.
UnlinkEnd(p) ==
  LET s == loc[p].ip
      i == icache[s].num
      in == [inode EXCEPT ![i].nlink = @ - 1]
  IN /\ At(p, "gone")
     /\ IF Destroys(icache, s, in) THEN Panic("destroy")
        ELSE /\ inode' = in
             /\ icache' = UnlockFree(icache, s)
             /\ Return(p)
             /\ UNCHANGED <<entries, ibits, Open, dirLost, panicked>>

-----------------------------------------------------------------------------
(* Calls on descriptors.                                                   *)

\* file_read(), file_write(), file_stat(), sys_getdir(): the inode is locked
\* while its blocks are read or written.
IoStart(p, d) ==
  LET s == ftable[filelist[p][d]].ip IN
  /\ At(p, "run")
  /\ filelist[p][d] # None
  /\ IF icache[s].slk THEN Panic("acquire")
     ELSE /\ icache' = Lock(icache, s)
          /\ loc' = [loc EXCEPT ![p] = [Idle EXCEPT !.at = "io", !.ip = s]]
          /\ UNCHANGED <<Disk, Open, dirLost, panicked>>

\* file_stat() copies its result with uvm_copyout(); a read at the end of the
\* file, a write of nothing and a getdir with no room for an entry copy nothing.
IoEnd(p) ==
  /\ At(p, "io")
  /\ icache' = Unlock(icache, loc[p].ip)
  /\ Return(p)
  /\ UNCHANGED <<Disk, Open, dirLost, panicked>>

\* Any other read, write or getdir: inode_read_data(), inode_write_data() and
\* dir_get_entries() use the caller's address as it is, with user = true too,
\* and the kernel's page table has no page of a process at that address.
IoCopies(p) == At(p, "io") /\ Panic("page fault")

\* How many of p's descriptors D name file f.
Uses(p, D, f) == Cardinality({d \in D : filelist[p][d] = f})

\* The files whose last reference is among p's descriptors D.
Dying(p, D) == {f \in FileIds : Uses(p, D, f) > 0 /\ ftable[f].ref = Uses(p, D, f)}

\* The files of Dying(p, D) that hold slot s.
Dropped(p, D, s) == {f \in Dying(p, D) : ftable[f].ip = s}

\* file_close() of each descriptor in D, inode_free() for the last reference.
CloseAll(p, D) ==
  IF \E f \in FileIds : Uses(p, D, f) > ftable[f].ref THEN Panic("close")
  ELSE IF \E s \in Slots : LET n == Cardinality(Dropped(p, D, s)) IN
            n > 0 /\ icache[s].ref = n /\ inode[icache[s].num].nlink = 0
  THEN Panic("destroy")
  ELSE /\ ftable' = [f \in FileIds |->
            IF f \in Dying(p, D) THEN [ref |-> 0, ip |-> None, of |-> None]
            ELSE [ftable[f] EXCEPT !.ref = @ - Uses(p, D, f)]]
       /\ icache' = [s \in Slots |->
            [icache[s] EXCEPT !.ref = @ - Cardinality(Dropped(p, D, s))]]
       /\ filelist' = [filelist EXCEPT ![p] = [d \in Fds |-> IF d \in D THEN None ELSE @[d]]]
       /\ UNCHANGED <<Disk, loc, dupLost, dirLost, panicked>>

OpenFds(p) == {d \in Fds : filelist[p][d] # None}

\* sys_close().
Close(p, d) == At(p, "run") /\ d \in OpenFds(p) /\ CloseAll(p, {d}) /\ state' = state

\* sys_dup(): fd_alloc(), then file_dup() whether or not there was a descriptor.
Dup(p, d) ==
  LET f == filelist[p][d] IN
  /\ At(p, "run")
  /\ f # None
  /\ IF ftable[f].ref = 0 THEN Panic("dup")
     ELSE /\ ftable' = [ftable EXCEPT ![f].ref = @ + 1]
          /\ IF FreeFds(p) # {}
             THEN /\ filelist' = [filelist EXCEPT ![p][Min(FreeFds(p))] = f]
                  /\ UNCHANGED dupLost
             ELSE /\ \A g \in FileIds : dupLost[g] < MaxLeak
                  /\ dupLost' = [dupLost EXCEPT ![f] = @ + 1]
                  /\ UNCHANGED filelist
          /\ UNCHANGED <<Disk, icache, state, loc, dirLost, panicked>>

\* Mutant: descriptors are copied without file_dup().
ForkNoDup(p, c) ==
  /\ At(p, "run") /\ state[c] = "unused"
  /\ state' = [state EXCEPT ![c] = "live"]
  /\ filelist' = [filelist EXCEPT ![c] = filelist[p]]
  /\ UNCHANGED <<Disk, icache, ftable, loc, dupLost, dirLost, panicked>>

\* proc_fork(): file_dup() of every descriptor of the parent.
Fork(p, c) ==
  /\ At(p, "run") /\ state[c] = "unused"
  /\ IF \E d \in OpenFds(p) : ftable[filelist[p][d]].ref = 0 THEN Panic("dup")
     ELSE /\ state' = [state EXCEPT ![c] = "live"]
          /\ filelist' = [filelist EXCEPT ![c] = filelist[p]]
          /\ ftable' = [f \in FileIds |-> [ftable[f] EXCEPT !.ref = @ + Uses(p, Fds, f)]]
          /\ UNCHANGED <<Disk, icache, loc, dupLost, dirLost, panicked>>

\* proc_exit() leaves the descriptors to proc_free().
Exit(p) ==
  /\ At(p, "run") /\ p # Zero
  /\ state' = [state EXCEPT ![p] = "zombie"]
  /\ UNCHANGED <<Disk, icache, ftable, filelist, loc, dupLost, dirLost, panicked>>

\* proc_wait() of the parent, or of proczero for an orphan, reaps z: proc_free().
Reap(p, z) ==
  /\ At(p, "run") /\ state[z] = "zombie"
  /\ CloseAll(z, OpenFds(z))
  /\ state' = IF panicked' = "no" THEN [state EXCEPT ![z] = "unused"] ELSE state

PathCall(p) ==
  \/ Lookup(p) \/ LookupFails(p) \/ Chdir(p) \/ LinkDir(p) \/ UnlinkName(p) \/ UnlinkEnd(p)
  \/ \E n \in Names : LookupFinds(p, n) \/ UnlinkFound(p, n) \/ LinkEnd(p, n)
  \/ \E n \in Names, dir \in BOOLEAN : CreateEnd(p, n, dir)
  \/ \E write \in BOOLEAN : OpenEnd(p, write)

FdCall(p) ==
  \/ \E d \in Fds : IoStart(p, d) \/ Close(p, d) \/ Dup(p, d)
  \/ IoEnd(p) \/ IoCopies(p)
  \/ \E q \in Procs : Fork(p, q) \/ Reap(p, q)
  \/ Exit(p)

Next == \E p \in Procs : PathCall(p) \/ FdCall(p)

Spec == Init /\ [][Next]_vars

-----------------------------------------------------------------------------
\* A file's ref is the number of descriptors that name it, in every process,
\* zombies included, and of the references that sys_dup() takes when the
\* descriptor table is full.  Less frees a file in use, more never frees it.
FileRefsExact ==
  panicked = "no" =>
    \A f \in FileIds :
      ftable[f].ref = dupLost[f]
        + Cardinality({x \in Procs \X Fds : filelist[x[1]][x[2]] = f})

HoldsRoot(p) == loc[p].at \in {"lookup", "dir", "both"}
HoldsSlot(p, s) == loc[p].ip = s /\ loc[p].at \in {"inode", "dir", "both", "gone"}

\* A slot's ref counts the open files on it, the calls under way that hold it,
\* fs_init()'s hold on the root and the inodes sys_mkdir() never gives back:
\* no error path of a path call loses or doubles a reference.
InodeRefsExact ==
  panicked = "no" =>
    \A s \in Slots :
      icache[s].ref =
        Cardinality({f \in FileIds : ftable[f].ref > 0 /\ ftable[f].ip = s})
        + Cardinality({p \in Procs : HoldsSlot(p, s)})
        + (IF icache[s].num = Root THEN 1 + Cardinality({p \in Procs : HoldsRoot(p)}) ELSE 0)
        + (IF icache[s].num = None THEN 0 ELSE dirLost[icache[s].num])

\* An open file keeps its slot of the inode table: inode_alloc() never gives the
\* slot to another inode, and no inode is in two slots.
OpenFileKeepsInode ==
  panicked = "no" =>
    /\ \A f \in FileIds : ftable[f].ref > 0 => icache[ftable[f].ip].num = ftable[f].of
    /\ \A s, t \in Slots : icache[s].num = icache[t].num /\ icache[s].num # None => s = t

\* slk is locked exactly while one call holds it: no path returns with an inode
\* locked, and no two calls have the same inode at once.
InodeLockExact ==
  panicked = "no" =>
    \A s \in Slots :
      Cardinality({p \in Procs : \/ HoldsSlot(p, s)
                                 \/ loc[p].at = "io" /\ loc[p].ip = s
                                 \/ HoldsRoot(p) /\ icache[s].num = Root})
        = (IF icache[s].slk THEN 1 ELSE 0)

\* nlink is the number of names of an inode, between calls and in the wait of
\* path_unlink() after the name is gone; the root also counts its directories.
\* fs_init()'s test directory has more names than links and is left out.
LinksExact ==
  panicked = "no" =>
    /\ \A i \in Inums \ {Root, 2} :
         inode[i].nlink = Cardinality({n \in Names : entries[n] = i})
           + Cardinality({p \in Procs : loc[p].at = "gone" /\ icache[loc[p].ip].num = i})
    /\ inode[Root].nlink = 1 + Cardinality({n \in Names : entries[n] \notin {None, 2}
                                            /\ inode[entries[n]].type = DIR})
=============================================================================
