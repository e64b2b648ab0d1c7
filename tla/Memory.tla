------------------------------ MODULE Memory --------------------------------
(***************************************************************************)
(* The pages of kalloc.c and the page tables of vm.c, as used by fork,     *)
(* exec, sbrk, exit and wait.  Pages are interchangeable, so the free list *)
(* is its length.  Every kalloc() and every kfree() is one step (kmem.lock *)
(* makes it one), and any of them may find the list empty while another    *)
(* process is half way through a call of its own.                          *)
(*                                                                         *)
(* A call in progress is a record k[p]: the place it is at, the table it   *)
(* works on, the loop variables of vm.c and the places its subroutines     *)
(* return to.  table[p, "cur"] is p->pgdir; table[p, "tmp"] is the table   *)
(* the call of p builds, or the old one it tears down.                     *)
(***************************************************************************)
EXTENDS Integers, Sequences, FiniteSets, FiniteSetsExt, TLC

CONSTANTS
  Procs, InitProc,
  None,
  Spare,          \* lengths of the free list once userinit is done
  PGSIZE,
  TABSIZE,        \* pages one page table maps: NPTENTRIES
  KERNBASE,
  UintMod,        \* 2^32 in the code
  KTABS,          \* page tables of the kernel part: 64 in the code
  Segments,       \* the program headers exec finds in files
  MaxSegments,    \* bound: headers of one file
  MaxArgs,        \* bound: bytes of the arguments exec pushes
  SbrkArgs,
  WORD            \* bytes of an int: 4 in the code

ASSUME MemoryAssumption ==
  /\ InitProc \in Procs /\ None \notin Procs
  /\ PGSIZE \in Nat \ {0} /\ TABSIZE \in Nat \ {0}
  /\ KERNBASE % (TABSIZE * PGSIZE) = 0 /\ UintMod = 2 * KERNBASE
  /\ MaxArgs <= 2 * PGSIZE
  /\ \A n \in SbrkArgs : -KERNBASE < n /\ n < KERNBASE

VARIABLES
  free,           \* length of kmem.freelist
  table,
  kstack,         \* processes with a kernel stack
  sz,             \* p->sz
  state,          \* p->state, RUNNING counted as RUNNABLE
  parent,
  ptlock,         \* holder of ptable.lock
  cr3,            \* the table the cpu running p has loaded
  k,              \* the call p is in
  emptied         \* history: the processes that called sbrk(-sz), and no exec since

vars == <<free, table, kstack, sz, state, parent, ptlock, cr3, k, emptied>>
procs == <<kstack, sz, state, parent, ptlock, cr3, emptied>>

Tables == Procs \X {"cur", "tmp"}
Cur(p) == <<p, "cur">>
Tmp(p) == <<p, "tmp">>
NoTable == [dir |-> FALSE, ktabs |-> 0, tabs |-> {}, pages |-> {}, guard |-> {}]
User == [at |-> "user", t |-> None, a |-> 0, lo |-> 0, hi |-> 0, sz |-> 0,
         ok |-> "", bad |-> "", ret |-> "", fin |-> "", mem |-> FALSE,
         child |-> None, ph |-> None, seg |-> 0, ip |-> FALSE]

PGROUNDUP(n) == ((n + PGSIZE - 1) \div PGSIZE) * PGSIZE
VPN(a) == a \div PGSIZE
PDX(a) == a \div (TABSIZE * PGSIZE)

\* The table of the first process: the kernel's part and one page.
Inituvm == [NoTable EXCEPT !.dir = TRUE, !.ktabs = KTABS, !.tabs = {0}, !.pages = {0}]

\* The state userinit leaves: the first process, with one page of memory.
Init ==
  /\ free \in Spare
  /\ table = [t \in Tables |->
                IF t = Cur(InitProc) THEN Inituvm ELSE NoTable]
  /\ kstack = {InitProc}
  /\ sz = [p \in Procs |-> IF p = InitProc THEN PGSIZE ELSE 0]
  /\ state = [p \in Procs |-> IF p = InitProc THEN "RUNNABLE" ELSE "UNUSED"]
  /\ parent = [p \in Procs |-> None]
  /\ ptlock = None
  /\ cr3 = [p \in Procs |-> IF p = InitProc THEN Cur(p) ELSE None]
  /\ k = [p \in Procs |-> User]
  /\ emptied = {}

At(p, label) == k[p].at = label /\ cr3[p] # None /\ state[p] = "RUNNABLE"

\* The call of p goes on with the fields of r changed.
Go(p, r) == k' = [k EXCEPT ![p] = r @@ @]
At_(label) == [at |-> label]
\* What the call has not given back stays with the process.
Return(p) == k' = [k EXCEPT ![p] = [User EXCEPT !.mem = k[p].mem, !.ip = k[p].ip]]

kalloc == free > 0 /\ free' = free - 1
kfree == free' = free + 1
Change(t, r) == table' = [table EXCEPT ![t] = r @@ @]

-----------------------------------------------------------------------------
(* mappages, setupkvm                                                      *)

\* walkpgdir(pgdir, a, 1) has to allocate the page table.
NeedsTable(t, a) == PDX(a) \notin table[t].tabs

\* mappages of the page in k[p].mem at address a, PTE_U unless guard.
Mappages(p, t, a, guard) ==
  /\ IF NeedsTable(t, a) THEN kalloc ELSE UNCHANGED free
  /\ Change(t, [tabs |-> table[t].tabs \cup {PDX(a)},
                pages |-> table[t].pages \cup {VPN(a)},
                guard |-> table[t].guard \cup (IF guard THEN {VPN(a)} ELSE {})])
MappagesFails(t, a) == NeedsTable(t, a) /\ free = 0
Remap(t, a) == ~NeedsTable(t, a) /\ VPN(a) \in table[t].pages

\* Mutant of Dealloc: the page that newsz lies in is freed.
DeallocRoundsDown(t, oldsz, newsz, ret) ==
  [at |-> "dealloc", t |-> t, a |-> VPN(newsz) * PGSIZE, lo |-> newsz, hi |-> oldsz, ret |-> ret]

\* deallocuvm(t, oldsz, newsz) when newsz < oldsz, and then the place ret.
Dealloc(t, oldsz, newsz, ret) ==
  [at |-> "dealloc", t |-> t, a |-> PGROUNDUP(newsz), lo |-> newsz, hi |-> oldsz, ret |-> ret]

\* freevm(t), and then the place fin.
Freevm(t, fin) == [fin |-> fin] @@ Dealloc(t, KERNBASE, 0, "free_tables")

SetupDir(p) ==
  /\ At(p, "setupkvm")
  /\ \/ /\ kalloc
        /\ Change(Tmp(p), [dir |-> TRUE])
        /\ Go(p, At_("setup_kmap"))
     \/ /\ free = 0
        /\ Go(p, At_(k[p].bad))
        /\ UNCHANGED <<free, table>>
  /\ UNCHANGED procs

SetupKmap(p) ==
  LET n == table[Tmp(p)].ktabs IN
  /\ At(p, "setup_kmap")
  /\ \/ /\ n < KTABS
        /\ kalloc
        /\ Change(Tmp(p), [ktabs |-> n + 1])
        /\ UNCHANGED k
     \/ /\ n < KTABS
        /\ free = 0
        /\ Go(p, Freevm(Tmp(p), k[p].bad))
        /\ UNCHANGED <<free, table>>
     \/ /\ n = KTABS
        /\ Go(p, At_(k[p].ok))
        /\ UNCHANGED <<free, table>>
  /\ UNCHANGED procs

-----------------------------------------------------------------------------
(* allocuvm, deallocuvm, freevm                                            *)

\* allocuvm(t, oldsz, newsz): a result of 0 goes to bad, any other one, left
\* in sz, to ok.
Alloc(t, oldsz, newsz, ok, bad) ==
  IF newsz >= KERNBASE THEN At_(bad)
  ELSE IF newsz < oldsz THEN [at |-> ok, sz |-> oldsz]
  ELSE [at |-> "alloc", t |-> t, a |-> PGROUNDUP(oldsz), lo |-> oldsz, hi |-> newsz,
        ok |-> ok, bad |-> bad]

\* The clean-up of allocuvm: deallocuvm(pgdir, newsz, oldsz).
Undo(p, ret) == Dealloc(k[p].t, k[p].hi, k[p].lo, ret)

AllocPage(p) ==
  /\ At(p, "alloc")
  /\ \/ /\ k[p].a < k[p].hi
        /\ kalloc
        /\ Go(p, [at |-> "alloc_map", mem |-> TRUE])
     \/ /\ k[p].a < k[p].hi
        /\ free = 0
        /\ Go(p, Undo(p, k[p].bad))
        /\ UNCHANGED free
     \/ /\ k[p].a >= k[p].hi
        /\ Go(p, [at |-> IF k[p].hi = 0 THEN k[p].bad ELSE k[p].ok, sz |-> k[p].hi])
        /\ UNCHANGED free
  /\ UNCHANGED <<table, procs>>

AllocMap(p) ==
  LET t == k[p].t  a == k[p].a IN
  /\ At(p, "alloc_map")
  /\ \/ /\ Remap(t, a) \/ MappagesFails(t, a)
        /\ Go(p, IF Remap(t, a) THEN At_("panic") ELSE Undo(p, "alloc_kfree"))
        /\ UNCHANGED <<free, table>>
     \/ /\ ~Remap(t, a)
        /\ Mappages(p, t, a, FALSE)
        /\ Go(p, [at |-> "alloc", mem |-> FALSE, a |-> a + PGSIZE])
  /\ UNCHANGED procs

\* Mutant of AllocKfree: the page that could not be mapped is forgotten.
AllocForgets(p) ==
  /\ At(p, "alloc_kfree")
  /\ Go(p, [at |-> k[p].bad, mem |-> FALSE])
  /\ UNCHANGED <<free, table, procs>>

AllocKfree(p) ==
  /\ At(p, "alloc_kfree")
  /\ kfree
  /\ Go(p, [at |-> k[p].bad, mem |-> FALSE])
  /\ UNCHANGED <<table, procs>>

\* Where the loop of deallocuvm goes on when a has no page table.
NextTable(a) == (PDX(a) + 1) * TABSIZE * PGSIZE

DeallocPage(p) ==
  LET t == k[p].t  a == k[p].a IN
  /\ At(p, "dealloc")
  /\ \/ /\ a >= k[p].hi
        /\ Go(p, At_(k[p].ret))
        /\ UNCHANGED <<free, table>>
     \/ /\ a < k[p].hi
        /\ PDX(a) \notin table[t].tabs
        /\ Go(p, [a |-> NextTable(a)])
        /\ UNCHANGED <<free, table>>
     \/ /\ a < k[p].hi
        /\ PDX(a) \in table[t].tabs
        /\ Go(p, [a |-> a + PGSIZE])
        /\ IF VPN(a) \in table[t].pages
           THEN /\ kfree
                /\ Change(t, [pages |-> table[t].pages \ {VPN(a)},
                              guard |-> table[t].guard \ {VPN(a)}])
           ELSE UNCHANGED <<free, table>>
  /\ UNCHANGED procs

\* The page tables, user part first, and the directory.
FreeTables(p) ==
  LET t == k[p].t  tabs == table[t].tabs IN
  /\ At(p, "free_tables")
  /\ kfree
  /\ \/ /\ tabs # {}
        /\ Change(t, [tabs |-> tabs \ {Min(tabs)}])
        /\ UNCHANGED k
     \/ /\ tabs = {} /\ table[t].ktabs > 0
        /\ Change(t, [ktabs |-> table[t].ktabs - 1])
        /\ UNCHANGED k
     \/ /\ tabs = {} /\ table[t].ktabs = 0
        /\ Change(t, NoTable)
        /\ Go(p, At_(k[p].fin))
  /\ UNCHANGED procs

-----------------------------------------------------------------------------
(* sbrk: growproc                                                          *)

SbrkResult(p, n) == (sz[p] + n) % UintMod

\* An argument of 0 only reloads cr3; a shrink that wraps around changes
\* nothing and succeeds.
growproc(p, n) ==
  LET newsz == SbrkResult(p, n) IN
  \/ n > 0 /\ Go(p, Alloc(Cur(p), sz[p], newsz, "grow_done", "done"))
  \/ n < 0 /\ newsz < sz[p] /\ Go(p, Dealloc(Cur(p), sz[p], newsz, "shrink_done"))

Sbrk(p, n) ==
  /\ At(p, "user")
  /\ growproc(p, n)
  /\ UNCHANGED <<free, table, procs>>

GrowDone(p) ==
  /\ \/ At(p, "grow_done") /\ sz' = [sz EXCEPT ![p] = k[p].sz]
     \/ At(p, "shrink_done") /\ k[p].lo > 0 /\ sz' = [sz EXCEPT ![p] = k[p].lo]
  /\ cr3' = [cr3 EXCEPT ![p] = Cur(p)]
  /\ Return(p)
  /\ UNCHANGED <<free, table, kstack, state, parent, ptlock, emptied>>

\* growproc takes the size 0 that deallocuvm returns for a failure: the pages
\* are gone, p->sz stays and cr3 is not loaded again.
ShrunkToZero(p) ==
  /\ At(p, "shrink_done")
  /\ k[p].lo = 0
  /\ emptied' = emptied \cup {p}
  /\ Return(p)
  /\ UNCHANGED <<free, table, kstack, sz, state, parent, ptlock, cr3>>

\* Any other return.
Done(p) ==
  /\ At(p, "done")
  /\ Return(p)
  /\ UNCHANGED <<free, table, procs>>

-----------------------------------------------------------------------------
(* fork: allocproc, copyuvm                                                *)

Allocproc(p, c) ==
  /\ At(p, "user")
  /\ ptlock = None
  /\ state[c] = "UNUSED"
  /\ state' = [state EXCEPT ![c] = "EMBRYO"]
  /\ Go(p, [at |-> "fork_kstack", child |-> c])
  /\ UNCHANGED <<free, table, kstack, sz, parent, ptlock, cr3, emptied>>

ForkKstack(p) ==
  LET c == k[p].child IN
  /\ At(p, "fork_kstack")
  /\ \/ /\ kalloc
        /\ kstack' = kstack \cup {c}
        /\ Go(p, [at |-> "setupkvm", a |-> 0, ok |-> "copy", bad |-> "fork_bad"])
        /\ UNCHANGED state
     \/ /\ free = 0
        /\ state' = [state EXCEPT ![c] = "UNUSED"]
        /\ Go(p, At_("done"))
        /\ UNCHANGED <<free, kstack>>
  /\ UNCHANGED <<table, sz, parent, ptlock, cr3, emptied>>

CopyPage(p) ==
  LET present == VPN(k[p].a) \in table[Cur(p)].pages IN
  /\ At(p, "copy")
  /\ \/ /\ k[p].a >= sz[p] \/ ~present
        /\ Go(p, At_(IF k[p].a >= sz[p] THEN "fork_done" ELSE "panic"))
        /\ UNCHANGED free
     \/ /\ k[p].a < sz[p] /\ present
        /\ \/ kalloc /\ Go(p, [at |-> "copy_map", mem |-> TRUE])
           \/ free = 0 /\ Go(p, Freevm(Tmp(p), "fork_bad")) /\ UNCHANGED free
  /\ UNCHANGED <<table, procs>>

CopyMap(p) ==
  LET a == k[p].a IN
  /\ At(p, "copy_map")
  /\ \/ /\ ~MappagesFails(Tmp(p), a)
        /\ Mappages(p, Tmp(p), a, VPN(a) \in table[Cur(p)].guard)
        /\ Go(p, [at |-> "copy", mem |-> FALSE, a |-> a + PGSIZE])
     \/ /\ MappagesFails(Tmp(p), a)
        /\ kfree
        /\ Go(p, [mem |-> FALSE] @@ Freevm(Tmp(p), "fork_bad"))
        /\ UNCHANGED table
  /\ UNCHANGED procs

ForkBad(p) ==
  LET c == k[p].child IN
  /\ At(p, "fork_bad")
  /\ kfree
  /\ kstack' = kstack \ {c}
  /\ state' = [state EXCEPT ![c] = "UNUSED"]
  /\ Return(p)
  /\ UNCHANGED <<table, sz, parent, ptlock, cr3, emptied>>

ForkDone(p) ==
  LET c == k[p].child IN
  /\ At(p, "fork_done")
  /\ ptlock = None
  /\ table' = [table EXCEPT ![Cur(c)] = table[Tmp(p)], ![Tmp(p)] = NoTable]
  /\ sz' = [sz EXCEPT ![c] = sz[p]]
  /\ parent' = [parent EXCEPT ![c] = p]
  /\ state' = [state EXCEPT ![c] = "RUNNABLE"]
  /\ Return(p)
  /\ UNCHANGED <<free, kstack, ptlock, cr3, emptied>>

\* The scheduler's switchuvm: a new process is run, or one that a timer
\* interrupt took the cpu from goes on.
Schedule(p) ==
  /\ state[p] = "RUNNABLE"
  /\ ptlock = None
  /\ cr3[p] # Cur(p)
  /\ cr3' = [cr3 EXCEPT ![p] = Cur(p)]
  /\ UNCHANGED <<free, table, kstack, sz, state, parent, ptlock, k, emptied>>

-----------------------------------------------------------------------------
(* The arguments of system calls.  Addresses are unsigned ints.            *)

Bytes(addr, n) == {(addr + i) % UintMod : i \in 0 .. n - 1}

fetchint(p, addr) == addr < sz[p] /\ (addr + WORD) % UintMod <= sz[p]

\* The bytes fetchstr looks at when the first NUL from addr on is at nul.
fetchstr(p, addr, nul) == {a \in addr .. nul : addr < sz[p] /\ a < sz[p]}

\* Mutant of argptr: only the end of the block is tested.
ArgptrEnd(p, i, size) == size >= 0 /\ (i + size) % UintMod <= sz[p]

argptr(p, i, size) == size >= 0 /\ i < sz[p] /\ (i + size) % UintMod <= sz[p]

-----------------------------------------------------------------------------
(* exec                                                                    *)

\* namei, ilock and the ELF header; from here on k[p].ip says whether the
\* inode is locked and the log operation open.
Exec(p, elf) ==
  /\ At(p, "user")
  /\ Go(p, [at |-> IF elf THEN "setupkvm" ELSE "exec_bad", ok |-> "exec_segment",
            bad |-> "exec_bad", ip |-> TRUE])
  /\ UNCHANGED <<free, table, procs>>

\* One round of the loop over the program headers, up to allocuvm.
ExecSegment(p, ph) ==
  LET end == ph.vaddr + ph.memsz IN
  /\ At(p, "exec_segment")
  /\ k[p].seg < MaxSegments
  /\ Go(p, IF ph.memsz < ph.filesz \/ end % UintMod < ph.vaddr THEN At_("exec_bad")
           ELSE [ph |-> ph] @@ Alloc(Tmp(p), k[p].sz, end, "exec_load", "exec_bad"))
  /\ UNCHANGED <<free, table, procs>>

\* The file ends within the header.
ExecTruncated(p) ==
  /\ At(p, "exec_segment")
  /\ Go(p, At_("exec_bad"))
  /\ UNCHANGED <<free, table, procs>>

\* loaduvm: the pages have to be there, and the file has to be long enough.
ExecLoad(p) ==
  LET ph == k[p].ph
      pages == {VPN(ph.vaddr + i) : i \in 0 .. ph.filesz - 1} IN
  /\ At(p, "exec_load")
  /\ Go(p, [ph |-> None] @@
           IF ph.vaddr % PGSIZE # 0 \/ ph.short THEN At_("exec_bad")
           ELSE IF ~(pages \subseteq table[Tmp(p)].pages) THEN At_("panic")
           ELSE [at |-> "exec_segment", seg |-> k[p].seg + 1])
  /\ UNCHANGED <<free, table, procs>>

\* After the last header: iunlockput, end_op, and two pages at the next page boundary.
ExecLoaded(p) ==
  LET end == PGROUNDUP(k[p].sz) IN
  /\ At(p, "exec_segment")
  /\ Go(p, [ip |-> FALSE] @@ Alloc(Tmp(p), end, end + 2 * PGSIZE, "exec_stack", "exec_bad"))
  /\ UNCHANGED <<free, table, procs>>

\* clearpteu
ExecStack(p) ==
  /\ At(p, "exec_stack")
  /\ Change(Tmp(p), [guard |-> {VPN(k[p].sz - 2 * PGSIZE)}])
  /\ Go(p, At_("exec_args"))
  /\ UNCHANGED <<free, procs>>

\* copyout of the n bytes below va: uva2ka refuses a page without PTE_U.
Copyout(t, va, n) ==
  {VPN(va - i) : i \in 1 .. n} \subseteq table[t].pages \ table[t].guard

\* The arguments and ustack; then the new image is committed.
ExecArgs(p, n) ==
  /\ At(p, "exec_args")
  /\ IF Copyout(Tmp(p), k[p].sz, n)
     THEN /\ table' = [table EXCEPT ![Cur(p)] = table[Tmp(p)], ![Tmp(p)] = table[Cur(p)]]
          /\ sz' = [sz EXCEPT ![p] = k[p].sz]
          /\ cr3' = [cr3 EXCEPT ![p] = Tmp(p)]
          /\ emptied' = emptied \ {p}
          /\ Go(p, At_("exec_switch"))
     ELSE Go(p, At_("exec_bad")) /\ UNCHANGED <<table, sz, cr3, emptied>>
  /\ UNCHANGED <<free, kstack, state, parent, ptlock>>

\* Mutant of ExecSwitch: freevm(oldpgdir) without switchuvm.
ExecNoSwitch(p) ==
  /\ At(p, "exec_switch")
  /\ Go(p, Freevm(Tmp(p), "done"))
  /\ UNCHANGED <<free, table, procs>>

\* switchuvm(curproc); freevm(oldpgdir)
ExecSwitch(p) ==
  /\ At(p, "exec_switch")
  /\ cr3' = [cr3 EXCEPT ![p] = Cur(p)]
  /\ Go(p, Freevm(Tmp(p), "done"))
  /\ UNCHANGED <<free, table, kstack, sz, state, parent, ptlock, emptied>>

\* The label bad: with pgdir still 0 there is nothing to free.
ExecBad(p) ==
  /\ At(p, "exec_bad")
  /\ Go(p, IF table[Tmp(p)].dir THEN Freevm(Tmp(p), "exec_put") ELSE At_("exec_put"))
  /\ UNCHANGED <<free, table, procs>>

ExecPut(p) ==
  /\ At(p, "exec_put")
  /\ Go(p, [at |-> "done", ip |-> FALSE])
  /\ UNCHANGED <<free, table, procs>>

-----------------------------------------------------------------------------
(* exit and wait                                                           *)

\* exit: the children go to init; ptable.lock is held across sched().
ExitSched(p) ==
  /\ At(p, "user")
  /\ p # InitProc
  /\ ptlock = None
  /\ ptlock' = p
  /\ parent' = [c \in Procs |-> IF parent[c] = p THEN InitProc ELSE parent[c]]
  /\ state' = [state EXCEPT ![p] = "ZOMBIE"]
  /\ UNCHANGED <<free, table, kstack, sz, cr3, k, emptied>>

\* The scheduler's switchkvm; it then releases ptable.lock.
Switchkvm(p) ==
  /\ state[p] = "ZOMBIE"
  /\ ptlock = p
  /\ cr3' = [cr3 EXCEPT ![p] = None]
  /\ ptlock' = None
  /\ UNCHANGED <<free, table, kstack, sz, state, parent, k, emptied>>

\* wait finds the zombie c and frees its stack, then its page table, all
\* under ptable.lock.
Wait(p, c) ==
  /\ At(p, "user")
  /\ ptlock = None
  /\ parent[c] = p
  /\ state[c] = "ZOMBIE"
  /\ ptlock' = p
  /\ kfree
  /\ kstack' = kstack \ {c}
  /\ Go(p, [child |-> c] @@ Freevm(Cur(c), "wait_done"))
  /\ UNCHANGED <<table, sz, state, parent, cr3, emptied>>

WaitDone(p) ==
  LET c == k[p].child IN
  /\ At(p, "wait_done")
  /\ state' = [state EXCEPT ![c] = "UNUSED"]
  /\ parent' = [parent EXCEPT ![c] = None]
  /\ ptlock' = None
  /\ emptied' = emptied \ {c}
  /\ Return(p)
  /\ UNCHANGED <<free, table, kstack, sz, cr3>>

\* panic() does not return.
Panic(p) == At(p, "panic") /\ UNCHANGED vars

-----------------------------------------------------------------------------
Vm(p) == \/ SetupDir(p) \/ SetupKmap(p) \/ AllocPage(p) \/ AllocMap(p) \/ AllocKfree(p)
         \/ DeallocPage(p) \/ FreeTables(p) \/ CopyPage(p) \/ CopyMap(p)

Call(p) ==
  \/ \E c \in Procs : Allocproc(p, c)
  \/ ForkKstack(p) \/ ForkBad(p) \/ ForkDone(p) \/ Schedule(p)
  \/ \E n \in SbrkArgs : Sbrk(p, n)
  \/ GrowDone(p) \/ ShrunkToZero(p) \/ Done(p) \/ Panic(p)
  \/ \E elf \in BOOLEAN : Exec(p, elf)
  \/ \E ph \in Segments : ExecSegment(p, ph)
  \/ ExecTruncated(p) \/ ExecLoad(p) \/ ExecLoaded(p) \/ ExecStack(p)
  \/ \E n \in 0 .. MaxArgs : ExecArgs(p, n)
  \/ ExecSwitch(p) \/ ExecBad(p) \/ ExecPut(p)
  \/ ExitSched(p) \/ Switchkvm(p) \/ WaitDone(p)
  \/ \E c \in Procs : Wait(p, c)

Next == \E p \in Procs : Vm(p) \/ Call(p)

Spec == Init /\ [][Next]_vars

-----------------------------------------------------------------------------
(* Properties                                                              *)

Owned(t) == LET tab == table[t] IN
  (IF tab.dir THEN 1 ELSE 0) + tab.ktabs + Cardinality(tab.tabs) + Cardinality(tab.pages)

Accounted == free + MapThenSumSet(Owned, Tables) + Cardinality(kstack)
                  + Cardinality({p \in Procs : k[p].mem})

\* No call of fork, exec, sbrk, exit or wait, however it fails, loses a page
\* or frees one twice: the free list and the pages reachable from the
\* process table or from a call in progress always add up to the same sum.
PagesConserved == [][Accounted' = Accounted]_vars

\* A process in user mode, or a zombie nobody is freeing yet.
Resting(p) ==
  /\ k[p].at = "user"
  /\ state[p] \in {"RUNNABLE", "ZOMBIE"}
  /\ \A q \in Procs : k[q].child # p

\* Between calls a process has exactly the pages below p->sz, the page tables
\* they need, and no page, table or locked inode left over from a call that
\* failed; an unused slot has nothing; and no call reaches a panic of vm.c.
\* The one exception is a process after sbrk(-sz), which growproc carries out
\* and reports as a failure (proc.c:169-170): p->sz stays over missing pages
\* until an exec, and a fork of it panics in copyuvm (vm.c:328).
AtRest ==
  \A p \in Procs :
    /\ k[p].at = "panic" => p \in emptied
    /\ Resting(p) => LET tab == table[Cur(p)]
                        below == {VPN(a) : a \in 0 .. sz[p] - 1} IN
         /\ tab.pages \subseteq below
         /\ p \notin emptied => below \subseteq tab.pages
         /\ {PDX(a) : a \in 0 .. sz[p] - 1} \subseteq tab.tabs
         /\ p \in kstack
    /\ k[p].at = "user" => table[Tmp(p)] = NoTable /\ ~k[p].mem /\ ~k[p].ip
    /\ state[p] = "UNUSED" => table[Cur(p)] = NoTable /\ p \notin kstack

\* Whatever a system call gets as an int, a string or a block of memory, every
\* byte that fetchint, fetchstr and argptr let the kernel touch is in a page of
\* the process, also where an address and a length add up to more than 2^32
\* (syscall.c:22, 37-44, 66).  It holds after any history of fork, exec and
\* sbrk but one: nothing is claimed between an sbrk(-sz), after which p->sz
\* stays over missing pages (proc.c:169-170), and the next exec.
ArgumentsMapped ==
  \A p \in Procs \ emptied : At(p, "user") =>
    LET mapped == {a \in 0 .. KERNBASE - 1 : VPN(a) \in table[Cur(p)].pages} IN
    \A addr \in 0 .. UintMod - 1 :
      /\ fetchint(p, addr) => Bytes(addr, WORD) \subseteq mapped
      /\ fetchstr(p, addr, UintMod - 1) \subseteq mapped
      /\ \A size \in 0 .. KERNBASE - 1 :
           argptr(p, addr, size) => Bytes(addr, size) \subseteq mapped

\* The table a cpu has loaded is complete until it loads another: its
\* directory and its kernel part are not freed by exec, which replaces it, or
\* by the parent of an exiting process.
LoadedIntact ==
  \A p \in Procs : cr3[p] # None => table[cr3[p]].dir /\ table[cr3[p]].ktabs = KTABS
=============================================================================
