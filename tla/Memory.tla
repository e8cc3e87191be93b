-------------------------------- MODULE Memory --------------------------------
(***************************************************************************)
(* kernel/mem/pmem.c and the code that takes and returns physical pages    *)
(* for processes: proc_alloc(), proc_free(), proc_make_first() and         *)
(* proc_fork() of proc.c, vmem.c, uvm.c with its copy loops, and sys_brk(). *)
(*                                                                         *)
(* All of it runs on hart 0 without giving the hart up, so each call is a  *)
(* step.  A region is the set of pages on its list; pmem_alloc() takes one *)
(* of them.  Addresses are in bytes, pages of PGSIZE of them.              *)
(***************************************************************************)
EXTENDS Integers, FiniteSets, FiniteSetsExt, Sequences, SequencesExt

CONSTANTS
  NPROC,      \* slots of procs[]
  PGSIZE,     \* bytes of a page
  KernPages,  \* the pages of kern_region after kvm_init()
  UserPages,  \* the pages of user_region
  LEN,        \* 2^32: uvm_heap_grow() takes a length of 32 bits
  Tops,       \* the heap tops a process asks for
  MaxBrk,     \* bound: the highest of them, and of the addresses passed
  MaxCopy,    \* bound: the longest range copied
  None        \* no page

ASSUME SizesAssumption == NPROC \in Nat \ {0} /\ PGSIZE \in Nat \ {0}
ASSUME PagesAssumption ==
  /\ IsFiniteSet(KernPages) /\ IsFiniteSet(UserPages)
  /\ KernPages \cap UserPages = {}
  /\ None \notin KernPages \cup UserPages
ASSUME MaxBrkAssumption == MaxBrk \in Nat /\ MaxBrk >= 3 * PGSIZE
ASSUME LenAssumption == LEN \in Nat /\ LEN > MaxBrk /\ MaxCopy \in Nat
ASSUME TopsAssumption == Tops \subseteq 1 .. MaxBrk

Procs == 0 .. NPROC - 1
proczero == 0
Pages == KernPages \cup UserPages

\* The page of a byte, rounded up (the code's "& ~(PGSIZE - 1)" after adding).
AlignUp(a) == (a + PGSIZE - 1) \div PGSIZE

\* Virtual pages: code and heap from 0 up, the user stack below TRAPFRAME.
HeapVPNs == 0 .. AlignUp(MaxBrk) - 1
StackVPNs == {-1, -2}
VPNs == HeapVPNs \cup StackVPNs
CodeVPN == 1

\* The page-table pages of a process: the root, two for the trampoline, the
\* trapframe and the stack, two for code and heap (the heap stays within the
\* reach of one lowest-level table).
TABLES == 5

VARIABLES
  kern,          \* kern_region: the pages on its list
  user,          \* user_region: the pages on its list
  live,          \* the processes that are not UNUSED
  tf,            \* procs[i].tf
  tables,        \* the page-table pages under procs[i].pgtbl
  leaf,          \* the page mapped at each virtual page, or None
  heap_top,      \* procs[i].heap_top
  ustack_pages,  \* procs[i].ustack_pages
  faulted,       \* the kernel stopped: panic, or a write through a NULL page
  truncated      \* history: a brk of LEN bytes or more has been cut to 32 bits

vars == <<kern, user, live, tf, tables, leaf, heap_top, ustack_pages, faulted, truncated>>

TypeOK ==
  /\ kern \subseteq Pages /\ user \subseteq Pages
  /\ live \subseteq Procs
  /\ tf \in [Procs -> Pages \cup {None}]
  /\ tables \in [Procs -> SUBSET Pages]
  /\ leaf \in [Procs -> [VPNs -> Pages \cup {None}]]
  /\ heap_top \in [Procs -> 0 .. MaxBrk]
  /\ ustack_pages \in [Procs -> {0, 2}]
  /\ faulted \in BOOLEAN /\ truncated \in BOOLEAN

Unmapped == [v \in VPNs |-> None]
Mapped(p) == {v \in VPNs : leaf[p][v] # None}

-----------------------------------------------------------------------------
\* n calls of pmem_alloc() on a region with at least n pages.
Alloc(region, n) == CHOOSE T \in SUBSET region : Cardinality(T) = n

\* One of those pages for each virtual page of V.
Place(V, T) == CHOOSE f \in [V -> T] : \A u, v \in V : f[u] = f[v] => u = v

\* leaf with the pages of f mapped over it.
Map(l, f) == [v \in VPNs |-> IF v \in DOMAIN f THEN f[v] ELSE l[v]]

Unmap(l, V) == [v \in VPNs |-> IF v \in V THEN None ELSE l[v]]

\* proc_make_first(): everything, the user's pages too, is from kern_region.
Init ==
  LET T == Alloc(KernPages, TABLES + 4)
      f == Place({0} \cup {CodeVPN} \cup StackVPNs, Alloc(T, 4))
  IN /\ Cardinality(KernPages) >= TABLES + 4
     /\ kern = KernPages \ T
     /\ user = UserPages
     /\ live = {proczero}
     /\ tf = [p \in Procs |-> IF p = proczero THEN f[0] ELSE None]
     /\ tables = [p \in Procs |-> IF p = proczero THEN T \ Alloc(T, 4) ELSE {}]
     /\ leaf = [p \in Procs |-> IF p = proczero
                                THEN [v \in VPNs |-> IF v \in {CodeVPN} \cup StackVPNs
                                                     THEN f[v] ELSE None]
                                ELSE Unmapped]
     /\ heap_top = [p \in Procs |-> IF p = proczero THEN CodeVPN * PGSIZE + 2 * PGSIZE ELSE 0]
     /\ ustack_pages = [p \in Procs |-> IF p = proczero THEN 2 ELSE 0]
     /\ faulted = FALSE /\ truncated = FALSE

\* p makes a system call: the kernel is up and p still has its code.
Calls(p) == ~faulted /\ p \in live /\ leaf[p][CodeVPN] # None

Fault ==
  /\ faulted' = TRUE
  /\ UNCHANGED <<kern, user, live, tf, tables, leaf, heap_top, ustack_pages, truncated>>

\* p returns to user mode without code: trap_user_handler() has no answer to a
\* page fault but assert(0).
FetchFaults(p) ==
  /\ ~faulted /\ p \in live /\ leaf[p][CodeVPN] = None
  /\ Fault

\* What uvm_copy_pgtbl() copies: the mapped pages below heap_top, and
\* ustack_pages pages of the stack.
Copied(p) ==
  {v \in Mapped(p) : \/ v \in HeapVPNs /\ v * PGSIZE < heap_top[p]
                     \/ v \in StackVPNs /\ -v <= ustack_pages[p]}

\* Mutant: proc_alloc() does not free the trapframe when the root table fails.
ForkFailsLeaks(p) ==
  /\ Calls(p)
  /\ live = Procs \/ Cardinality(kern) < 2
  /\ kern' = IF live = Procs THEN kern ELSE {}
  /\ UNCHANGED <<user, live, tf, tables, leaf, heap_top, ustack_pages, faulted, truncated>>

\* proc_fork() finds no slot, or no page for the trapframe or for the root
\* table: proc_alloc() undoes what it did and fork returns -1.
ForkFails(p) ==
  /\ Calls(p)
  /\ live = Procs \/ Cardinality(kern) < 2
  /\ UNCHANGED vars

\* proc_fork() runs out of pages later: vm_getpte() does not test what
\* pmem_alloc() returns, and uvm_copy_pgtbl() panics.
ForkFaults(p) ==
  /\ Calls(p)
  /\ live # Procs /\ Cardinality(kern) >= 2
  /\ \/ Cardinality(kern) < TABLES + 1
     \/ Cardinality(user) < Cardinality(Copied(p))
  /\ Fault

\* proc_fork() succeeds with slot c for the child.  child->ustack_pages is
\* not assigned.
Fork(p, c) ==
  /\ Calls(p)
  /\ c \notin live /\ \A q \in Procs \ live : c <= q
  /\ Cardinality(kern) >= TABLES + 1
  /\ Cardinality(user) >= Cardinality(Copied(p))
  /\ LET K == Alloc(kern, TABLES + 1)
         t == CHOOSE x \in K : TRUE
         V == Copied(p)
         U == Alloc(user, Cardinality(V))
     IN /\ kern' = kern \ K
        /\ user' = user \ U
        /\ tf' = [tf EXCEPT ![c] = t]
        /\ tables' = [tables EXCEPT ![c] = K \ {t}]
        /\ leaf' = [leaf EXCEPT ![c] = Map(Unmapped, Place(V, U))]
  /\ live' = live \cup {c}
  /\ heap_top' = [heap_top EXCEPT ![c] = heap_top[p]]
  /\ UNCHANGED <<ustack_pages, faulted, truncated>>

\* Mutant: proc_free() clears p->tf before it frees it.
ReapTfCleared(c) ==
  /\ Calls(c) /\ c # proczero
  /\ kern' = kern \cup {None}
  /\ user' = user \cup tables[c] \cup {leaf[c][v] : v \in Mapped(c)}
  /\ live' = live \ {c}
  /\ tf' = [tf EXCEPT ![c] = None]
  /\ tables' = [tables EXCEPT ![c] = {}]
  /\ leaf' = [leaf EXCEPT ![c] = Unmapped]
  /\ heap_top' = [heap_top EXCEPT ![c] = 0]
  /\ UNCHANGED <<ustack_pages, faulted, truncated>>

\* A child has exited and its parent's proc_wait() calls proc_free(): the
\* trapframe goes back to kern_region, the tables and all they map to
\* user_region.
Reap(c) ==
  /\ Calls(c) /\ c # proczero
  /\ kern' = kern \cup {tf[c]}
  /\ user' = user \cup tables[c] \cup {leaf[c][v] : v \in Mapped(c)}
  /\ live' = live \ {c}
  /\ tf' = [tf EXCEPT ![c] = None]
  /\ tables' = [tables EXCEPT ![c] = {}]
  /\ leaf' = [leaf EXCEPT ![c] = Unmapped]
  /\ heap_top' = [heap_top EXCEPT ![c] = 0]
  /\ UNCHANGED <<ustack_pages, faulted, truncated>>

\* The pages uvm_heap_grow() or uvm_heap_ungrow() goes through.
HeapPages(low, high) == AlignUp(low) .. AlignUp(high) - 1

\* The top uvm_heap_grow() goes to: its parameter has 32 bits, the size that
\* sys_brk() computes 64.
Target(p, new) == heap_top[p] + ((new - heap_top[p]) % LEN)

\* sys_brk(new) with a higher top: uvm_heap_grow() maps a page at a time, over
\* whatever is mapped there.  When it has not got to new, sys_brk() returns -1.
Grow(p, new) ==
  /\ Calls(p)
  /\ new > heap_top[p]
  /\ LET V == HeapPages(heap_top[p], Target(p, new))
         U == Alloc(user, Cardinality(V))
     IN /\ Cardinality(user) >= Cardinality(V)
        /\ user' = user \ U
        /\ leaf' = [leaf EXCEPT ![p] = Map(@, Place(V, U))]
  /\ heap_top' = IF Target(p, new) = new THEN [heap_top EXCEPT ![p] = new] ELSE heap_top
  /\ truncated' = (truncated \/ Target(p, new) # new)
  /\ UNCHANGED <<kern, live, tf, tables, ustack_pages, faulted>>

\* Mutant: the rollback frees the pages and leaves them mapped.
GrowFailsMapped(p, new) ==
  /\ Calls(p)
  /\ new > heap_top[p]
  /\ LET V == HeapPages(heap_top[p], Target(p, new))
         n == Cardinality(user)
         got == {v \in V : v < AlignUp(heap_top[p]) + n}
         mapped == Map(leaf[p], Place(got, user))
     IN /\ n < Cardinality(V)
        /\ user' = {mapped[v] : v \in got}
        /\ leaf' = [leaf EXCEPT ![p] = mapped]
  /\ UNCHANGED <<kern, live, tf, tables, heap_top, ustack_pages, faulted, truncated>>

\* uvm_heap_grow() gets some of the pages and runs out: it takes them back.
\* It is two loops; got is what the first one has mapped.
GrowFails(p, new) ==
  /\ Calls(p)
  /\ new > heap_top[p]
  /\ LET V == HeapPages(heap_top[p], Target(p, new))
         n == Cardinality(user)
         got == {v \in V : v < AlignUp(heap_top[p]) + n}
         mapped == Map(leaf[p], Place(got, user))
     IN /\ n < Cardinality(V)
        /\ user' = {mapped[v] : v \in got}
        /\ leaf' = [leaf EXCEPT ![p] = Unmap(mapped, got)]
  /\ truncated' = (truncated \/ Target(p, new) # new)
  /\ UNCHANGED <<kern, live, tf, tables, heap_top, ustack_pages, faulted>>

\* sys_brk(new) with a lower top, code or not: uvm_heap_ungrow().
Shrink(p, new) ==
  /\ Calls(p)
  /\ new < heap_top[p]
  /\ LET V == HeapPages(new, heap_top[p]) \cap Mapped(p)
     IN /\ user' = user \cup {leaf[p][v] : v \in V}
        /\ leaf' = [leaf EXCEPT ![p] = Unmap(@, V)]
  /\ heap_top' = [heap_top EXCEPT ![p] = new]
  /\ UNCHANGED <<kern, live, tf, tables, ustack_pages, faulted, truncated>>

\* sys_brk(new); a query, or a top equal to the old one, changes nothing.
Brk(p, new) == Grow(p, new) \/ GrowFails(p, new) \/ Shrink(p, new)

\* The tops p asks for, and the same LEN bytes further up.
Requests(p) == Tops \cup {top + LEN : top \in {t \in Tops : t >= heap_top[p]}}

-----------------------------------------------------------------------------
(* uvm_copyin(), uvm_copyout() and uvm_copyin_str().                       *)

Less(a, b) == IF a < b THEN a ELSE b

\* Mutant: uvm_copyin() taking PGSIZE bytes in the first page, whatever the offset.
CopyLoopWholePage(p, va, len, nul) ==
  LET loop[copied \in 0 .. len] ==
        IF copied = len THEN <<>>
        ELSE LET pa == leaf[p][(va + copied) \div PGSIZE]
                 page_offset == (va + copied) % PGSIZE
                 bytes_to_copy == Less(len - copied, PGSIZE)
                 n == Less(bytes_to_copy, nul - copied + 1)
                 bytes == [i \in 1 .. n |-> <<pa, page_offset + i - 1>>]
             IN IF pa = None THEN <<<<None, page_offset>>>>
                ELSE IF nul < copied + bytes_to_copy THEN bytes
                ELSE bytes \o loop[copied + bytes_to_copy]
  IN loop[0]

\* The bytes the copy loop accesses for len bytes at va, in order, each as its
\* page and the offset in it: page after page, to the string's NUL at distance
\* nul, or to the end, or to a byte whose page is not mapped.
CopyLoop(p, va, len, nul) ==
  LET loop[copied \in 0 .. len] ==
        IF copied = len THEN <<>>
        ELSE LET pa == leaf[p][(va + copied) \div PGSIZE]
                 page_offset == (va + copied) % PGSIZE
                 bytes_to_copy == Less(len - copied, PGSIZE - page_offset)
                 n == Less(bytes_to_copy, nul - copied + 1)
                 bytes == [i \in 1 .. n |-> <<pa, page_offset + i - 1>>]
             IN IF pa = None THEN <<<<None, page_offset>>>>
                ELSE IF nul < copied + bytes_to_copy THEN bytes
                ELSE bytes \o loop[copied + bytes_to_copy]
  IN loop[0]

\* A system call that copies to or from p's memory panics at an unmapped page.
Copy(p, va, len, nul) ==
  /\ Calls(p)
  /\ \E b \in ToSet(CopyLoop(p, va, len, nul)) : b[1] = None
  /\ Fault

\* The ranges that processes pass, each an address, a length and the distance
\* of a NUL, within the range or at its end.
Ranges == {r \in (0 .. MaxBrk) \X (0 .. MaxCopy) \X (0 .. MaxCopy) :
             r[1] + r[2] <= MaxBrk /\ r[3] <= r[2]}

Next ==
  \E p \in Procs :
    \/ ForkFails(p) \/ ForkFaults(p) \/ Reap(p) \/ FetchFaults(p)
    \/ \E c \in Procs : Fork(p, c)
    \/ \E new \in Requests(p) : Brk(p, new)
    \/ \E r \in Ranges : Copy(p, r[1], r[2], r[3])

Spec == Init /\ [][Next]_vars

-----------------------------------------------------------------------------
\* The pages a process has.
LeafPages(p) == {leaf[p][v] : v \in Mapped(p)}
Owned(p) == ({tf[p]} \ {None}) \cup tables[p] \cup LeafPages(p)

\* pmem.c never gives a page to two users: the two lists, the trapframes, the
\* page tables and the mapped pages of all processes are disjoint, and no page
\* is mapped twice.
NoPageShared ==
  /\ kern \cap user = {}
  /\ \A p \in Procs :
       /\ Owned(p) \cap (kern \cup user) = {}
       /\ \A q \in Procs \ {p} : Owned(p) \cap Owned(q) = {}
       /\ tf[p] \notin tables[p] \cup LeafPages(p)
       /\ tables[p] \cap LeafPages(p) = {}
       /\ \A u, v \in Mapped(p) : leaf[p][u] = leaf[p][v] => u = v

\* No page is lost: fork, exit, brk and their failures leave every page on a
\* list or with a process.  Only a brk by 2^32 bytes or more can lose one: the
\* pages it maps beyond the heap top are mapped over by the next brk.
NoPageLost ==
  ~truncated => Pages = kern \cup user \cup UNION {Owned(p) : p \in Procs}

\* The byte at va + k of p's memory: its page and the offset in it.
Phys(p, va, k) == <<leaf[p][(va + k) \div PGSIZE], (va + k) % PGSIZE>>

\* The copy loops, with their page offsets and rounds, access exactly the bytes
\* of the range, up to the NUL of a string and no further, and look at no page
\* after the first one that is not mapped.
CopyExact ==
  \A p \in live, r \in Ranges :
    LET wanted == 0 .. Less(r[2], r[3] + 1) - 1
        gaps == {k \in wanted : Phys(p, r[1], k)[1] = None}
        n == IF gaps = {} THEN Cardinality(wanted) ELSE Min(gaps) + 1
    IN CopyLoop(p, r[1], r[2], r[3]) = [k \in 1 .. n |-> Phys(p, r[1], k - 1)]

\* A forked process starts with a copy of its parent's memory, and the first
\* process has a stack: so every process has one.
EveryProcessHasStack == \A p \in live : StackVPNs \subseteq Mapped(p)
=============================================================================
