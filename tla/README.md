# A TLA+ verification of the whu-os-riscv kernel

whu-os-riscv is a small teaching kernel for RISC-V (Sv39, QEMU `virt`, two harts) in the
style of xv6.  This directory holds TLA+ models of its core, TLC configurations that check
them on small instances, and TLAPS proofs, for instances of any size, of most of the safety
properties that TLC checks.

## 1. Inventory of the system

| Component | State it keeps | Operations | What makes it correct |
|---|---|---|---|
| spinlocks, `kernel/lib/spinlock.c` | `locked`, `cpuid` per lock; `noff`, `origin` per hart | `push_off`, `pop_off`, `spinlock_holding/init/acquire/release` | exclusion; interrupts off while a critical section runs, then as before; no false panic |
| processes, `kernel/proc/proc.c`, `kernel/trap/*.c` | `procs[]`, `global_pid`, `last_scheduled`, `mycpu()->proc` | fork, exit, wait, yield, sleep, wakeup, scheduler, tick | one running process; a live parent for each; no exit or wakeup lost; no starvation |
| memory, `kernel/mem/*.c` | two free lists, the page tables of processes, heap tops | `pmem_alloc/free`, fork copy, exit, `sys_brk`, `uvm_copyin/copyout/copyin_str` | every page in exactly one place, also after failures; copies touch exactly the bytes asked for |
| disk driver, `kernel/dev/virtio.c` | descriptors, rings, `disk.info[]`, `b->disk` | `virtio_disk_rw`, `virtio_disk_intr`, descriptor allocation | descriptors conserved; a completion reaches its own request; every request returns |
| buffer cache, `kernel/fs/buf.c` | a ring of buffers with `block_num`, `buf_ref`, lock, data | `buf_read/write/release`, three system calls | one buffer per block; a read sees the last write; buffers in use not reused |
| inode table, directories, open files, `kernel/fs/{inode,dir,file}.c` | link counts, inode bitmap, inode table, file table, descriptors | lock/unlock, create/link/unlink, open/close/dup | reference, lock and link counts exact |
| data of files, `kernel/fs/{bitmap,inode,file}.c` | block bitmap, entry blocks, sizes and addresses of inodes on disk and in memory, offsets | read, write, lseek, freeing, `sys_alloc/free_block` | blocks neither lost nor shared, a file holds what was written, also after a power cut |
| boot, console, strings, context switch, system call table, `mkfs`, user programs | registers, the console, nothing | run once, or pure | outside the models (section 6) |

How they interact.  A process enters the kernel by a trap (`trap_user_handler`), which calls
`syscall()`, a device handler or the timer handler, and at the end gives up the hart if the
slice is used up.  File system code calls the buffer cache, which calls the driver, which
sleeps in `proc_sleep()` until `virtio_disk_intr()` calls `proc_wakeup()`.  Processes take
pages at fork and `brk` and return them when their parent waits for them.

**Who runs when.**  This decides the grain of every model.

* Only hart 0 runs processes (`main()` sends hart 1 into an idle loop), but
  `plic_inithart()` and the timer enable interrupts on both, so hart 1 runs handlers.
* `trap_user_handler()` never enables interrupts.  On hart 0, kernel code of a process is
  therefore one undisturbed stretch from the trap to the next `proc_sched()` or to the return
  to user mode; interrupts reach hart 0 in user mode and between `intr_on()` and `intr_off()`
  in `proc_scheduler()`.
* A process may sleep with `buf->slk` or `ip->slk` locked: the test of `noff` in `proc_sched()`
  (proc.c:480) is commented out.  Hart 0 then owns the lock, with interrupts on in the
  scheduler's window, and for every other process on that hart the lock is "mine".
* Hart 1 can interleave with all of that, wherever a lock permits.

Hard behaviours: interrupt handlers between two instructions of `push_off()`; a handler on
the other hart between the two locks of `proc_sleep()`; out-of-order completions; exits of
parent and child in either order; lists, tables and descriptors that run out half way through
an operation; a power cut or a panic between two disk writes of one operation; a full disk;
lengths and offsets that wrap in 32 bits.  `PROJECT.json` lists them one by one under `hazards`, with the line where each
bites and the properties that would notice.

## 2. Modules

An `MC` module and its `.cfg` files instantiate a module for TLC; a `Proofs` module holds its
theorems, the inductive invariant and the lemmas.

| Module | Models | Checked by |
|---|---|---|
| `Spinlock` | spinlock.c and kernel interrupts, any harts and locks | `MCSpinlock`, `SpinlockProofs` |
| `Proc` | process table, scheduler, traps of hart 0 | `MCProc`, `ProcProofs` |
| `Memory` | page lists, fork, exit, brk, copy loops | `MCMemory`, `MemoryProofs` |
| `VirtioDisk` | driver, sleep/wakeup, both harts' handlers, the device | `MCVirtioDisk`, `VirtioDiskProofs` |
| `BufCache` | buffer cache and block system calls | `MCBufCache`, `BufCacheProofs` |
| `BlockStore` | abstract: what the buffer cache promises | refined by `BufCache` |
| `Files` | open files, descriptors, inode table, root directory | `MCFiles`, `FilesProofs` |
| `InodeData` | block bitmap, block trees of inodes, offsets, power cuts | `MCInodeData`, `InodeDataProofs`, `InodeContentProofs` |

Definitions whose comment begins with "Mutant" are wrong variants of the definition that
follows them; they are no part of a specification and show that a property can fail.

### Spinlock

State: `locked`, `cpuid` per lock, `noff`, `origin`, `intr` (SIE) per hart, and where the code
on the hart is.  One action per load or store another hart, or a handler on the same hart,
could notice: `Acquire` (up to `old = intr_get()`), `PushOff`, the two loads of
`spinlock_holding()` (`TestLocked`, `TestCpuid`), `TestAndSet`, `Mark`, `Release`, `Clear`,
`PopOff`.  `Trap` suspends the code wherever SIE is set, saving its registers as
`kernel_vector` does; the handler takes and drops locks; `TrapReturn` is `sret`.  `IntrOn` is the
`intr_on()` of `main()`; `UartPutc` the `push_off()`/`pop_off()` of uart.c:60 and :70, which
takes no lock.  `OpenWindow` and `CloseWindow` are the `intr_on()` and `intr_off()` of
`proc_scheduler()`, and the way to user mode and back: the hart that runs processes
(`ProcHart`) comes there with the locks that a sleeping process keeps (`Kept`: `buf->slk` and
`ip->slk`), so handlers run while those are owned.  Code that holds `k` takes `l` only if
`<<k, l>>` is in `LockOrder`, whose locks have levels (`LockOrderAcyclic`); but another process
of the same hart may take a `Kept` lock that the hart owns, and panics.  `held` (the locks a
hart owns, whichever process took them), `released` and `wish` are ghosts.

### Proc

State: the fields of `procs[]` that control reads, `mycpu()->proc`, `last_scheduled`, and `pc`,
which says in which `proc_sched()` a process is suspended.  `Schedule` is a pass of
`proc_scheduler()` that finds a process; `SysFork...`, `SysExit`, `SysWait`, `SysSleep`,
`SysDisk` are system calls up to their first `proc_sched()`; `Resume...` is what follows it;
`Tick` and `DiskIntr` are the interrupts; `Tail` the slice check that ends every trap.
`SysDisk` stands for any call that waits for the disk.  In its `proc_sleep()` (`DiskSleep`)
hart 1 may handle the completion after the disk lock is released and before the process is
SLEEPING (proc.c:552): `b->disk` is cleared and nobody is woken.  A fork can find no slot
(`SysForkFull`) or no memory (`SysForkNoMemory`).

### Memory

State: the pages on each of the two lists, and per process its trapframe, page-table pages,
mapped pages, `heap_top`, `ustack_pages`.  The order of a list does not matter to any
property, so a list is a set and `pmem_alloc()` takes some page of it; `allocable` is its size.
`Init` is the state after `proc_make_first()`.  `Fork`, `ForkFails`, `ForkFaults`, `Reap`
(exit and wait), `Grow`, `GrowFails`, `Shrink` are one step each, since none of them gives up
the hart.  `ForkFaults` is the write through the NULL that `vm_getpte()` does not test, and the
panic of `uvm_copy_pgtbl()`.  Addresses are bytes, so that unaligned heap tops occur.  `Target`
is the heap top that a growing `brk` really maps to: `sys_brk()` computes with 64 bits, the length
of `uvm_heap_grow()` has 32, so a growth of LEN (2^32) bytes or more is cut; the ghost
`truncated` remembers that it happened.  A process may cut its heap below its own code page;
its next instruction then panics the kernel (`FetchFaults`).  `CopyLoop` is the loop shared by
`uvm_copyin()`, `uvm_copyout()` and `uvm_copyin_str()`: the sequence of bytes it accesses, page by
page; `CopyExact` compares it with the definition byte by byte (`Phys`), and `Copy` is the
call that meets an unmapped page.

### VirtioDisk

State: `disk` (free flags, links, `info`, rings and indexes modulo NUM), the state of each
process, the handler, and the device.  `AllocRequest` and `AllocFails` run under `vdisk_lock`
up to the release in `proc_sleep()`; `CommitSleep` is the rest of `proc_sleep()`; `Finish`
runs after the wakeup.  `TakeIrq`, `HandleUsed`, `LeaveLoop`, `Ack` are `virtio_disk_intr()`,
split where the device can make a difference.  The device (external) fetches in order,
completes in any order, also while the handler runs, and then raises its interrupt.
`IntrHarts` chooses on which harts the interrupt arrives.  The ghost `races` notes the two ways
a wakeup can get lost: "ack", a completion acknowledged unseen, and "sleep", a wakeup for a
process between the two locks of `proc_sleep()`.  Requests are for sectors that the disk has, so
the panic on a status other than 0 (virtio.c:270) does not come; it is in `BufCache`, where block
numbers are.

### BufCache and BlockStore

State: the ring as a sequence from `head_buf.next`, the fields of each buffer, the disk, and
for each process the disk wait it is in and the handles it has.  `ReadHit`, `ReadMiss`,
`ReadDone`, `WriteStart`, `WriteDone`, `Release` cut the calls at their disk waits.  The lock
of a buffer is held across the wait, and `spinlock_holding()` compares harts: for every
process on hart 0 "locked" is "held by me", hence the panic of `ReadHit`.

A block number is any value of 32 bits: `sys_read_block()` checks nothing.  `Sector` is the
product of virtio.c:180, taken modulo `Wide` (2^32), and `DiskBlock` the block it falls on.  So
two numbers can be one disk block, and get two buffers; a transfer to a number off the disk ends
with a status other than 0 and panics ("status"); and the number `BLOCK_NUM_UNUSED` hits
a buffer that nobody uses.

`BlockStore` is a disk whose blocks a process takes by number, modifies, commits and drops.  A
number has one owner at most; a disk block (`Home` of the number) has as many as it has numbers.
`Store` maps the owner of a number to the process that has a handle for it and its copy to the
buffer's data.

### Files

State: the root directory (`entries`), the link count and type of each inode, the inode bitmap,
the slots of `icache[]` with `ref` and `slk`, `ftable[]`, the descriptors of each process, and
`loc`, the disk wait a process is in with what it holds there.  The calls are cut at those
waits: `Lookup` locks the root and reads its block; then `LookupFails`, `LookupFinds` (open,
link, chdir), `UnlinkFound` or `CreateEnd` (open with `MODE_CREATE`, mkdir) go on; `OpenEnd`,
`Chdir`, `LinkDir`, `LinkEnd`, `UnlinkName`, `UnlinkEnd` finish.  `IoStart` and `IoEnd` are
read, write, fstat and getdir: the inode is locked in between.  `IoCopies` is the page fault of
those that copy with `memmove()` to or from the user's address, which the kernel page table does
not map.  `Close`, `Dup`, `Fork`, `Exit`
and `Reap` (`proc_free()` in the parent's wait) do not wait.  Which call it is, and its
arguments, are chosen in the step that first looks at them; before that all calls look alike.
`slk`, like the lock of a buffer, is a spinlock kept across waits, so meeting it locked panics.
`Init` is what `fs_init()`'s test sequence leaves: a root it holds for ever, `d.txt` for a test
file and `b.txt` for a test directory with entries (its other names behave like `b.txt`).
`dupLost` and `dirLost` are ghosts that count the references `sys_dup()` (full table) and
`sys_mkdir()` (always) take and nobody can give back; the exactness properties have them as
their only exceptions.  Readable flags are left out: a refused read changes nothing.  A panic
freezes the state of the last wait.

### InodeData

State: the block bitmap, the words of every block, size and `addrs` of every inode on the disk
and in the inode table, the offset of the file open on it, the call that holds the inode
locked, and the blocks `sys_alloc_block` has given away.  Lengths and offsets are in 32-bit words, so
that any block can be read as data or as an entry block; data words are told apart from block
numbers.  A step is one round of the copy loop of `inode_read_data()` or `inode_write_data()`
(`Transfer`) or one `bitmap_free_block()` of `inode_free_data()` (`UnlinkFree`); the other
parts of the calls are `WriteStart`, `ReadStart`, `WriteEnd`, `ReadEnd`, `UnlinkStart`,
`UnlinkEnd`.  `Lseek` takes no lock and may come in between.  `Locate` is
`inode_locate_block()` with the recursion of `locate_block()` written as a walk down
(`Visit`, `Descend`) and a walk back (`WriteBack`), one level at a time; it yields every disk image on the way,
because `buf_write()` is synchronous and writes a block atomically.  An image carries the history
that led to it, so that a power cut in the middle of a walk does not forget that the walk had
found the disk full.  `FreeData` is what the recursion of `data_free()` will free, as a set of
places in the tree with their blocks; `Rank` is the order in which it does so.

Faults: `Reboot` is a power cut between two steps, or a reset after a panic; `RebootInside` one
between two disk writes of a step.  Both lose all memory and keep the disk.

Abstractions: a file is open at most once and has at most one name (the counts are in `Files`);
all inodes exist from the start; other files' blocks, also those `fs_init()` allocates, are among
the ones `SysAlloc` takes.  `Init` is the disk after its first boot.  `fs_init()` makes
directories with `inode_create()`, which gives them no block, and adds entries to them: the
entries go to block 0, behind the 32 bytes of its first place, over `total_blocks`.  `DirWrite` is
any such entry, made or deleted, then and later; block 0 is word 0, with the fields up to
`data_blocks`, and the rest.  The inodes 1 to 3, whose names `fs_init()` makes again at every boot
if they are missing (fs.c:168-185), are not among the files of the model.  `user` says whether a call comes from user space, where the copy
page-faults, or from the kernel as in `fs_init()`, where it succeeds.  `sparse` (files written to
from beyond their size, be it with no bytes, which also moves the size) and `past` (the disk has been full, an entry block held old
words, the machine was restarted) are ghosts that the properties use to name their exceptions.

## 3. Runs

| Run | Instance | What it shows |
|---|---|---|
| `spinlock` | 2 harts, 2 ordered locks, 2 kept ones | exclusion; `noff` exact; no handler on top of a critical section other than a sleeping process's; interrupts restored; no wait cycle; a panic only on a kept lock the hart owns already or on a lock never released before |
| `proc` | 4 slots, slice of 2, pids to 4 | every parent alive, no exit lost, bypass at most NPROC-1 |
| `proc_live` | 3 slots, slice of 1 | no starvation; sleep returns, wait once a child is dead, a disk call once it has been woken |
| `proc_stack` (violation) | 3 slots, NCPU = 2 | slot 2 runs on a kernel stack nobody mapped |
| `memory` | 3 slots, 21 + 6 pages, pages of 2 bytes, 2^32 as 16 | no page shared, none lost until a length was cut to 32 bits, copies exact, with every failure path taken |
| `memory_fork` (violation) | same | a grandchild has no user stack |
| `virtio` | 3 processes, 8 descriptors, both harts | descriptors conserved, completions find their owner, nobody returns early, no lost wakeup for descriptors, a request is stranded only after one of two named races |
| `virtio_ack_race` (violation) | 2 processes, 6 descriptors, hart 0, fair | a completion acknowledged unseen |
| `bufcache` | 2 processes, 3 buffers, 5 block numbers, a disk of 2 blocks, 2 values | ring and counts exact, gives up only when full, implements `BlockStore` |
| `files` | 2 processes, 2 descriptors each, 2 files, 2 inode slots, 4 inodes, 4 names for 3 entries | file, inode and link counts exact, inode locks exact, open files keep their inode, while every table runs out |
| `inode_data` | 2 files, 5 data blocks of 2 words, one direct, one indirect, one doubly indirect address, 4 calls | no block shared, leaked or misread after any power cut, outside the cases the properties name; "bn too large" only after a 32-bit wrap |
| `inode_full_disk` (violation) | same, longer writes | a write on a full disk overwrites the magic number, and the next boot panics |

**Bounds, and why they are enough.**  Two harts are what the kernel has; two plain locks
(`vdisk_lock`, then `p->lk`) give the nesting, the order and a handler's own lock, and two kept ones
(`ip->slk`, then `buf->slk`) a process that sleeps with both.  Four slots hold init, a parent, a child and a
sibling, so reparenting, reuse of a slot and a full table all happen; `MaxPid` stops forks and
`MaxSleep` the length of `sys_sleep()`.  21 kernel pages are the first process's nine, two
forks' twelve and none to spare: fork then fails at the trapframe, at the root table and later.
6 user pages let a second heap growth fail half way.  `Tops` are unaligned heap tops on
different pages, `MaxBrk` bounds what a change of LEN or more maps after the cut; copies of up to
`MaxCopy` bytes, two pages, start anywhere and end before, at and after a page boundary.  Eight descriptors are the code's NUM;
three requests need nine, so one process fails after taking two.  In `bufcache` 2^32 is 8 and
the disk has 2 blocks: numbers 0 and 4 are one disk block, 1 is alone, 2 is off the disk, 7 is
`BLOCK_NUM_UNUSED`; each of the three good numbers can fill a buffer, and then the cache is full.  In `files` every table is one short of its demand: a dup finds no
descriptor, an open no file entry or no inode slot, a create no inode or no room in the
directory; two slots are the root's and one that `d.txt`, `b.txt` and new files take from each
other.  `MaxLeak` bounds the references of each file lost by dup.  In `inode_data` a write of no
words only saves a size and one of three words spans two blocks; the files together need more than
the four blocks there are, so the disk runs full half way down a tree (in `inode_full_disk` one
write of thirteen words does it); the seeks lead to the doubly indirect blocks, past the largest
file and, after two of them, to the wrap at W = 16; four calls (`MaxCalls`) suffice to write, delete
and write again with a power cut anywhere (667428 states).

`CHECK_DEADLOCK FALSE` is used where the system really may stop: after a panic (`memory`,
`bufcache`, `files`, `spinlock`, `inode_data`), or when a wakeup is lost (`virtio`, `proc`: the
scheduler idles while every process sleeps for ever).

**Fairness.**  Kernel code between two waits goes on (weak fairness).  A pending timer
interrupt stays pending until the hart can take it, and hart 0 returns to user mode or to the
scheduler's window again and again: strong fairness of `Tick`.  Disk interrupts get none in `Proc`,
since virtio.c:278 may acknowledge a completion that nobody has looked at; so `CallsReturn` says of
a disk call only that it returns once it has been woken.  `VirtioDisk` assumes that the scheduler
dispatches every runnable process infinitely often; `Proc`'s `NoStarvation` shows that it does.
The device finishes what it was given.  The driver's fairness serves the violation run only: what
the driver does guarantee is the safety property `NoStrandedRequest`.

## 4. What is proved

Each theorem has the form `Spec => []P` (or `Spec => OtherSpec`), for every value of the
constants that the module's `ASSUME`s allow.  Every module follows one pattern: an inductive
invariant `IInv`, which TLC checked on the run's instance first; `Init => IInv`; one lemma per
action for `IInv /\ Next => IInv'`; then each property from `IInv`.

| Module | Theorem | Property |
|---|---|---|
| `SpinlockProofs` | `TypeCorrect` | `TypeOK`; `noff` never goes below 0 |
| | `Exclusion` | `MutualExclusion` |
| | `NoHandlerUnderLock` | `InterruptsOffWhileHolding` |
| | `DepthExact` | `NoffCountsLocks` |
| | `Restored` | `InterruptsRestored` |
| | `NoCycle` | `NoWaitCycle` |
| | `PanicsOnlyOnKeptOrFirstUse` | `PanicOnlyOnKeptOrFirstUse` (an action property) |
| `ProcProofs` | `TypeCorrect` | `TypeOK` |
| | `ParentsLive` | `LiveParents` |
| | `ExitsNotLost` | `NoLostExit` |
| | `BypassBounded` | `BoundedBypass` |
| `MemoryProofs` | `TypeCorrect` | `TypeOK` |
| | `PagesNotShared`, `PagesNotLost` | `NoPageShared`, `NoPageLost` |
| | `CopiesExact` | `CopyExact` |
| `VirtioDiskProofs` | `TypeCorrect` | `TypeOK` |
| | `DescriptorsConserved` | `DescsConserved` |
| | `CompletionsOwned` | `CompletionsHaveOwner` |
| | `ReturnsServed` | `ServedBeforeReturn` |
| | `FreeWakeupsNotLost` | `NoLostFreeWakeup` |
| | `RequestsNotStranded` | `NoStrandedRequest` |
| `BufCacheProofs` | `TypeCorrect` | `TypeOK` |
| | `OneCopy` | `OneBufPerBlock` |
| | `CountsExact` | `RefCountsUsers` |
| | `GivesUpWhenFull` | `ExhaustedOnlyWhenFull` |
| | `Implements` | `StoreSpec`: the cache implements `BlockStore` |
| `FilesProofs` | `TypeCorrect` | `TypeOK` |
| | `FileRefsCounted`, `InodeRefsCounted` | `FileRefsExact`, `InodeRefsExact` |
| | `FilesKeepInodes` | `OpenFileKeepsInode` |
| | `LocksPaired` | `InodeLockExact` |
| | `LinksCounted` | `LinksExact` |
| | `FileAssertionsHold` | the assertions of `file_close()` and `file_dup()` on `ref` hold |
| `InodeDataProofs` | `TypeCorrect` | `TypeOK` |
| | `TooLargeNeedsWrap` | `TooLargeOnlyOnWrap` |
| | `TreesStayDisjoint` | `TreesDisjoint` |
| `InodeContentProofs` | `ContentStaysAsWritten` | `ContentAsWritten` |
| | `BitsStayExact` | `BitsExact` |

**Assumptions.**  They are the `ASSUME`s of the modules, and TLC evaluates them on every run.
`Spinlock`: hart ids are natural numbers (`-1` marks a free lock), locks are finitely many, the
kept ones are among them, processes run on one of the harts, the lock order has no cycle; only
`NoCycle` uses the last.  `Proc`: table size, slice and bounds are
numbers.  `Memory`: the two regions are finite and disjoint, and a heap within `MaxBrk` fits
into the 32 bits of a length.  `VirtioDisk`: at least three descriptors, and no process is the
name of the sleep channel `&disk.free[0]`.  `BufCache`: finitely many buffers, at
least one; the disk is not so large that `BLOCK_NUM_UNUSED` is one of its blocks.  `Files`: the tables
are non-empty, processes and names finitely many.  `InodeData`: `INODE_MAXSIZE` is below 2^32.

**Why the invariants are what they are.**

*Spinlock.*  That two harts do not both hold `l` needs "`l` is locked exactly when some hart
holds it"; that `PopOff` finds `noff >= 1` needs the exact count, which needs that interrupts
are off from `PushOff` to `PopOff`, so that no handler's push and pop falls inside, and whenever a
lock is owned, except in the window, where only kept ones are and no call is under way; that
interrupts are restored needs to know what `old`, `origin` and the saved registers of a
suspended `push_off()` contain.  `NoCycle` and `PanicsOnlyOnKeptOrFirstUse` add `OInv`: what a hart
spins on comes after all it holds in the order, and `cpuid` names the owner of a lock from its
first release on.  Of any group of harts that wait for one another, the one that spins on the
lock of the lowest level waits for nobody in the group.

*Proc.*  `LiveParents` is preserved because exit hands children to `proczero`.  `NoLostExit`
needs that a process asleep in `proc_wait()` sleeps on its own address (`SleepersWait`), and that
free slots have no parent.  `BoundedBypass` is proved from a budget: the number of slots the
round-robin scan has still to pass before it comes to a runnable process, plus the times it has
been passed over, is below NPROC.

*Memory.*  `NoPageShared` needs free slots to own nothing (`SlotsClean`); `NoPageLost` needs
that nothing is mapped above the heap top (`HeapBelowTop`), else growing would map over a page.
`allocable` is a cardinality, so each allocation and release uses the cardinality theorems; one
lemma, `OneMoves`, covers pages moving between the lists and a process.

*Copy loops.*  `CopyExact` is about a recursive function, for every range.  The proof needs no
induction scheme.  `Accessed` says without recursion what the loop accesses from each distance
on: the bytes up to `End`, the first byte that is not mapped or the last one wanted.
`AccessedIsLoop` shows that it solves the loop's equation: a round stays within its page
(`WithinPage`), and its bytes and those of the rest are together the bytes from where it began
(`TakenConcat`).  `LoopUnique` shows that nothing else does: two solutions would differ last at
some distance, and both compute their value there from a greater one.  It holds in every state,
so it needs no invariant.

*VirtioDisk.*  `IInv` says who holds each descriptor (`Chains`), where in the rings or the
device each unfinished request is (`Places`), that only served ones are reported (`Served`), that
who waits for descriptors finds fewer than three (`Waiters`), and that what is on the used ring
will be looked at (`Looked`).  That the rings do not
overrun is a pigeonhole argument: ring entries in use are heads of distinct chains of three
(`WindowRoom`).

*BufCache.*  The counts need `OneUser`: a buffer is unused, unlocked, unassigned and without
references, or it has exactly one user and is none of that.  That the scan from the back of the
ring finds a free buffer whenever there is one needs `FreeAtBack`: unreferenced buffers are
behind the referenced ones.  For the refinement, `ReadHit` and `ReadMiss` map to
stuttering, `ReadDone` to `Take`, `WriteStart` to `Modify`, `WriteDone` to `Commit`, `Release` to
`Drop`; a hit on the number `BLOCK_NUM_UNUSED` and a "status" panic stutter too, since no number
gets an owner by them.

*Files.*  A call changes several tables within one step, so the invariant on tables is an
operator `Table(ic, lc, ft, dl)` of an inode table, waits, a file table and lost references
(`Placed`, `Locked`, `Counted`, `Pointed`, `Filed`), and lemmas say what each helper of the code
does to it (`RootGet`, `RootPut`, `SlotGet`, `SlotEnd`, `IoChange`, `FilesChange`); an action
composes them.  `Directory` adds that the root is always in slot 0 and that what a call has read
from the directory before a wait is still true after it, which is what `LinksExact` rests on.

*InodeData.*  `TypeOK` alone is not inductive: the size saved by `inode_write_data()` is within
`INODE_MAXSIZE` only because a call that has passed the 32-bit test and does not wrap ends
within it, and one that wraps panics in a round before its end (`Within`).  The walk through the
tree is shown to keep `Walk`: what it yields is of its type and forgets nothing that `past` has
noted.

*Trees of blocks.*  `TreesDisjoint` speaks of what memory or the disk shows; its invariant
(`TreeInv`) of who has a block.  `Ownership`: every block is at one place of one tree at most
(the tree under `Vec`, the addresses in memory or else under a name) or among what an unlink has
still to free (`Pend`), or with a process, and its bit is set.  `Cached`: an address saved on the
disk is 0 or the one in memory, so that the trees a restart finds are parts of those in memory
(`Mono`), and an inode that is being freed has no name any more.  The hard action is a walk that
allocates on the way down and writes entries on the way up.  `Located` says what it achieves: the
tree of its own inode has `Grown` by blocks that were free, the other trees are as before
because the entry blocks it writes are at no place of theirs, and each disk image between shows
all trees either as before the walk or as after it; hence a power cut between any two writes
keeps `Ownership` (`RebootInsideTree`).  A new entry block holds only zeros, or the walk has
noted "stale"; this is where the exceptions of the property come in.  Data is then
written to a block that is no entry block of anybody (`OwnedFilled`).  Nor are the directory
entries in block 0 in any tree, because block 0 is at no place of one (`DirWriteRefs`).  For an unlink, `FreeDataIs`
says that what `data_free()` visits are places of the tree with the blocks there, so they go from
`Vec` to `Pend` at once and from there, one by one, to the free blocks.

*Content of files.*  `ContentInv` says of each inode that the words known of it are at their
offsets in its tree (`IntactAt`), and for a file without gaps and with a name that the saved
addresses lead to those below the saved size (`SavedAt`).  It rests on `TreeInv`: data goes to a
block at one place of one tree, so that no other word changes.  `Located` adds to it that a walk
leaves the addresses off its path and all data blocks as they were (`OffPath`, `DataKept`).
`SizedAt` says which words are known: those below the size and those that the write under way
has moved, so that the addresses saved at the end of a write that has grown the file cover them
all, and that sizes in memory and on the disk agree.

*Bits.*  `BitsInv` says that every bit set is `Accounted` for: by the root directory, by a
process, by a place of a tree or by a block that an unlink has still to free.  For `Ownership`
the other direction was enough.  That `data_free()` leaves nothing behind (`FreeDataAll`) is true
only if no 0 in an entry block comes before an entry in use, because it stops there: `Dense`.  A
write keeps this because it begins within the size, and all that it has moved has its block
(`MovedThere`).  Addresses in memory differ from the saved ones only while a write that will
save them goes on, or a read whose end wraps, which panics (`Unsaved`); and an inode without a
name and not being freed is open (`Nameless`): so nothing is forgotten when an inode leaves
memory.

**Only model-checked.**

* All liveness (`proc_live`, the fairness part of `virtio_ack_race`): outside what the proof
  system handles.
* The four violation runs: they are counterexamples.

## 5. Disagreements between code and documents

1. `proc_stack`: proc.c:140 says kernel stacks are preallocated; `kvm_init()` maps NCPU of them.
2. `memory_fork`: proc.c:331 says fork copies the user memory; the stack of a grandchild is not.
3. `virtio_ack_race`: virtio.c:251 says the process waits until the handler reports; a
   completion acknowledged unseen is never reported.
4. `inode_full_disk`: fs.c:64 asserts the magic number; on a full disk `locate_block()` takes the 0
   of `bitmap_alloc_block()` for an allocated block and the data go over the super block.

Not given a run of their own, but in the models:

* sysfile.c:245 says a file without links is deleted; `inode_free()` drops the last reference before
  `inode_destroy()` locks the inode, which asserts a reference (inode.c:163, :185): deleting a file
  panics ("destroy" in `Files` and `InodeData`).
* virtio.c:251 again: `proc_sleep()` releases the disk lock before it takes `p->lk`
  (proc.c:551-552), so a handler on hart 1 can report a request to a process that does not sleep
  yet, and that then sleeps for ever (`DiskSleep` in `Proc`, the "sleep" race of
  `NoStrandedRequest`).
* buf.c:113 says `buf_write()` keeps disk and memory the same; numbers that differ by 2^31 are one
  sector (virtio.c:180) and two buffers, and a write through one leaves the other as it was
  (`BlockStore`: a copy per number).
* report.md:82 says processes can share a buffer, but the second reader of a buffer in use
  panics (`ReadHit`), and so does the second user of an inode (`Files`).
* The cache forgets a block at its last release, though report.md:83 says a block is read once.
* dir.c:278 says `path_create_inode()` returns an inode that exists; it returns NULL
  (`LookupFails`).
* sysfile.c:97 and :116 say read and write return a count; `inode_read_data()` and
  `inode_write_data()` (inode.c:294, :332) and `dir_get_entries()` (dir.c:127) use `memmove()` on the
  user's address under the kernel page table, and the kernel panics (`IoCopies`).
* `spinlock_init()` sets `cpuid` to 0, a real hart, so until a lock has been released once hart 0
  may take hart 1's ownership for its own.  This, and a second process taking a lock that a
  sleeping one keeps, are the only panics of spinlock.c (`PanicOnlyOnKeptOrFirstUse`).
* Page-table pages move from the kernel list to the user list with every exit.
* A `brk` that grows the heap by 2^32 bytes or more maps the remainder, returns -1 and leaves the
  heap top as it was: the next growth maps over those pages and loses them (`NoPageLost`).
* A page fault in user mode stops the kernel: `trap_user_handler()` has only `assert(0)`
  (`FetchFaults`).
* A directory made by `inode_create()` has no block, and its entries overwrite block 0 from
  `total_blocks` on, at the first boot already (fs.c:121-122, dir.c:55-66; `DirWrite`).
* A new entry block is not cleared: entries of its former owner are taken for blocks of the file
  (the "stale" exception of `TreesDisjoint`).
* Blocks allocated for a write into a gap or before the end are saved only if the file grows
  (inode.c:347): they are lost, with their data, when the inode leaves the table (`sparse`).
* After an lseek close to 2^32, offset + len wraps, the size test passes and
  `inode_locate_block()` panics (`TooLargeOnlyOnWrap`).

Seen in code that is not modelled: `mkfs` does not reset its block counter between files
(mkfs.c:338) and does not write its entry blocks back (both latent: the Makefile passes no
files); a new directory's block is not cleared (dir.c:319); the inode bitmap has 8192 bits for
2048 inodes (bitmap.c:83); `fs_init()` gives inode 1 its name back at every boot if it was unlinked,
also when its blocks are free again (fs.c:168-185).

## 6. What is not modelled, and why

* Paths of more than one element, and directories below the root with entries of their own.
* Contention for the buffer of a shared directory, bitmap or inode block, which panics as in
  `BufCache`: `Files` and `InodeData` go on where the kernel would have stopped.
* The kernel page table: built once, never changed.
* mmap calls: empty in the code.
* Boot, console, strings, `swtch.S`, trampoline: register work done once or output only; their
  effect is in the initial states and in the atomic switch of `Proc`.
* System call dispatch beyond the choice of a call: argument fetch, return values.
* `sys_write_block()` of a block of the file system: a process may overwrite any block, block 0
  included.  `BufCache` has the call; `InodeData` is about the file system's own writes.
* A program that passes a block handle it has already released, or frees a block it was not
  given: the code keeps no record it could violate.
* Device files: `file_create_dev()` has no caller.
* `mkfs` with files on its command line, and the steps of `fs_init()`'s test sequence, which
  `RebootFrom` leaves out but for the super block, with the names it gives to inodes 1 to 3 again.
  What `mkfs` and the first boot leave is the `Init` of `InodeData` and of `Files`.

## 7. Plan

1. Done: the locks, processes, memory, driver, buffer cache, open files and inode table, the
   data of files with power cuts; proofs of all safety properties of the passing runs (section 4).
2. Later: deeper paths; composition of `BufCache` over `VirtioDisk` through an abstract disk, and
   of `Memory` under `Proc`.
