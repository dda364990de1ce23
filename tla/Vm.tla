--------------------------------- MODULE Vm ---------------------------------
(* User memory: the page allocator (kernel/kalloc.c), page tables          *)
(* (kernel/vm.c), and what fork, exit, wait, sbrk, exec, mmap and munmap   *)
(* do with them (kernel/proc.c, kernel/exec.c, kernel/sysfile.c), with     *)
(* every allocation able to find the free list empty.                      *)
(*                                                                         *)
(* A page table is the set of its table pages and a function from the      *)
(* pages that have a valid PTE to what they map.  The pages on the free    *)
(* list are counted: a page lost, freed twice or used twice shows in the   *)
(* sum.  A call is one step, since two calls share nothing but the free    *)
(* list, and what is left on it varies with what the others hold.          *)
EXTENDS Integers, FiniteSets, FiniteSetsExt, Functions, Sequences, SequencesExt, TLC

CONSTANTS Procs,
          First,     \* the process userinit makes
          PGSIZE,    \* bytes in a page
          PX,        \* entries of a table (512)
          NPAGES,    \* pages that kinit put on the free list
          MaxSz,     \* bound on p->sz
          Deltas,    \* arguments of sbrk
          Programs,  \* ELF files: the sequences of their segments' vaddr + memsz
          MaxArgs    \* bound on argc

ASSUME VmAssumption ==
  /\ First \in Procs /\ {PGSIZE, PX, NPAGES} \subseteq Nat \ {0} /\ {MaxSz, MaxArgs} \subseteq Nat
  /\ Deltas \subseteq Int /\ Programs \subseteq Seq(Nat)
  /\ (MaxSz + PGSIZE - 1) \div PGSIZE <= PX * PX * PX - 2

VARIABLES
  nfree,     \* length of kmem.freelist
  mem,       \* of each process: sz, the page table, whether there is a trapframe page
  state,     \* p->state
  vma,       \* the pages of its mappings
  holes,     \* the pages that were mappings once, and so may be absent
  vmpanic    \* a panic of vm.c or kalloc.c was reached

vmvars == <<nfree, mem, state, vma, holes, vmpanic>>

MAXVA      == PX * PX * PX
TRAMPOLINE == MAXVA - 1
TRAPFRAME  == MAXVA - 2

PGROUNDUP(a) == (a + PGSIZE - 1) \div PGSIZE    \* as a page number

Root     == <<3, 0>>
Path(va) == {<<2, va \div (PX * PX)>>, <<1, va \div PX>>}

NoMem == [sz |-> 0, tables |-> {}, pte |-> <<>>, trapframe |-> FALSE]

VmTypeOK ==
  /\ nfree \in 0..NPAGES /\ vmpanic \in BOOLEAN
  /\ state \in [Procs -> {"UNUSED", "RUNNABLE", "ZOMBIE"}]
  /\ \A p \in Procs :
       /\ mem[p].sz \in 0..MaxSz /\ mem[p].trapframe \in BOOLEAN
       /\ mem[p].tables \subseteq {Root} \cup UNION {Path(va) : va \in 0..TRAMPOLINE}
       /\ DOMAIN mem[p].pte \subseteq 0..TRAMPOLINE
       /\ Range(mem[p].pte) \subseteq {"user", "guard", "trampoline", "trapframe"}
       /\ vma[p] \cup holes[p] \subseteq 0..TRAMPOLINE

-----------------------------------------------------------------------------
(* The functions of vm.c work on a record m: the page table they are given *)
(* (tables, pte), the free list, ok (FALSE once a function has returned an *)
(* error), at (the page at which a loop stopped) and panic.                *)
Work(pt) == [tables |-> pt.tables, pte |-> pt.pte, free |-> nfree, ok |-> TRUE,
             at |-> 0, panic |-> FALSE]

kalloc(m) == IF m.free = 0 THEN [m EXCEPT !.ok = FALSE] ELSE [m EXCEPT !.free = @ - 1]

kfree(m) == [m EXCEPT !.free = @ + 1]

(* walk(pagetable, va, 1): makes the tables that are missing, from the top *)
(* down, and keeps those it made if it runs out of pages.                  *)
walk_level(m, t) ==
  LET n == kalloc(m)
  IN IF ~m.ok \/ t \in m.tables THEN m
     ELSE IF n.ok THEN [n EXCEPT !.tables = @ \cup {t}] ELSE n

walk(m, va) == walk_level(walk_level(m, <<2, va \div (PX * PX)>>), <<1, va \div PX>>)

mappages(m, va, perm) ==
  LET n == walk(m, va)
  IN IF ~n.ok THEN n
     ELSE [n EXCEPT !.panic = @ \/ va \in DOMAIN n.pte, !.pte = (va :> perm) @@ @]

(* uvmunmap of n pages; it skips what is not mapped, but panics where      *)
(* there is no table, and kfree panics on what is not an allocated page.   *)
uvmunmap(m, va, n, do_free) ==
  LET pages == va..(va + n - 1)
      there == pages \cap DOMAIN m.pte
  IN [m EXCEPT
        !.pte = Restrict(@, DOMAIN @ \ pages),
        !.free = IF do_free THEN @ + Cardinality(there) ELSE @,
        !.panic = @ \/ (\E a \in pages : ~(Path(a) \subseteq m.tables))
                    \/ (do_free /\ \E a \in there : m.pte[a] = "trampoline")]

(* uvmdealloc; the results of uvmdealloc and uvmalloc are sizes.           *)
uvmdealloc(m, oldsz, newsz) ==
  IF newsz < oldsz /\ PGROUNDUP(newsz) < PGROUNDUP(oldsz)
  THEN uvmunmap(m, PGROUNDUP(newsz), PGROUNDUP(oldsz) - PGROUNDUP(newsz), TRUE)
  ELSE m

(* Mutant of NewPage: mem is not freed when mappages fails.                *)
NewPage_leak(m, va, perm) ==
  LET n == kalloc(m)
      o == mappages(n, va, perm)
  IN IF ~m.ok THEN m
     ELSE IF ~n.ok THEN [n EXCEPT !.at = va]
     ELSE IF ~o.ok THEN [o EXCEPT !.at = va] ELSE o

(* One turn of the loops of uvmalloc and uvmcopy: a new page at va.        *)
NewPage(m, va, perm) ==
  LET n == kalloc(m)
      o == mappages(n, va, perm)
  IN IF ~m.ok THEN m
     ELSE IF ~n.ok THEN [n EXCEPT !.at = va]
     ELSE IF ~o.ok THEN [kfree(o) EXCEPT !.at = va] ELSE o

Ascending(lo, hi) == [i \in 1..(IF hi < lo THEN 0 ELSE hi - lo + 1) |-> lo + i - 1]

(* uvmalloc: on failure gives back the pages, not the tables.              *)
uvmalloc(m, oldsz, newsz) ==
  LET first == PGROUNDUP(oldsz)
      grown == FoldLeft(LAMBDA n, va : NewPage(n, va, "user"), m,
                        Ascending(first, PGROUNDUP(newsz) - 1))
  IN IF newsz < oldsz THEN m
     ELSE IF grown.ok THEN grown
     ELSE uvmdealloc(grown, grown.at * PGSIZE, first * PGSIZE)

(* The size uvmalloc returns when it succeeds.                             *)
Grown(oldsz, newsz) == IF newsz < oldsz THEN oldsz ELSE newsz

(* freewalk counts the tables free; all leaves must be gone.               *)
freewalk(m) == [m EXCEPT !.free = @ + Cardinality(m.tables), !.tables = {}, !.pte = <<>>,
                         !.panic = @ \/ m.pte # <<>>]

uvmfree(m, sz) == freewalk(uvmunmap(m, 0, PGROUNDUP(sz), TRUE))

(* uvmcopy(old, new, sz) into the page table of m.                         *)
uvmcopy(old, m, sz) ==
  LET copy(n, va) ==
        IF ~n.ok THEN n
        ELSE IF ~(Path(va) \subseteq old.tables) THEN [n EXCEPT !.panic = TRUE]
        ELSE IF va \notin DOMAIN old.pte THEN n ELSE NewPage(n, va, old.pte[va])
      copied == FoldLeft(copy, m, Ascending(0, PGROUNDUP(sz) - 1))
  IN IF copied.ok THEN copied ELSE uvmunmap(copied, 0, copied.at, TRUE)

(* proc_pagetable with uvmcreate: an empty table with the two top pages.   *)
proc_pagetable(m) ==
  LET made == [kalloc(m) EXCEPT !.tables = {Root}, !.pte = <<>>]
      tramp == mappages(made, TRAMPOLINE, "trampoline")
      frame == mappages(tramp, TRAPFRAME, "trapframe")
  IN IF ~kalloc(m).ok THEN kalloc(m)
     ELSE IF ~tramp.ok THEN uvmfree(tramp, 0)
     ELSE IF ~frame.ok THEN uvmfree(uvmunmap(frame, TRAMPOLINE, 1, FALSE), 0)
     ELSE frame

proc_freepagetable(m, sz) ==
  uvmfree(uvmunmap(uvmunmap(m, TRAMPOLINE, 1, FALSE), TRAPFRAME, 1, FALSE), sz)

-----------------------------------------------------------------------------
(* The outcome of a call: the free list and a panic are global.            *)
Result(m) == nfree' = m.free /\ vmpanic' = (vmpanic \/ m.panic)

SetMem(p, m, sz) ==
  mem' = [mem EXCEPT ![p].tables = m.tables, ![p].pte = m.pte, ![p].sz = sz]

Runs(p) == state[p] = "RUNNABLE" /\ ~vmpanic

(* kinit has freed NPAGES pages; userinit makes the first process, of one  *)
(* page (uvminit).                                                         *)
userinit ==
  LET blank == [tables |-> {}, pte |-> <<>>, free |-> NPAGES - 1, ok |-> TRUE,
                at |-> 0, panic |-> FALSE]
  IN NewPage(proc_pagetable(blank), 0, "user")

VmInit ==
  /\ nfree = userinit.free /\ vmpanic = FALSE
  /\ state = [p \in Procs |-> IF p = First THEN "RUNNABLE" ELSE "UNUSED"]
  /\ mem = [p \in Procs |->
              IF p = First THEN [sz |-> PGSIZE, tables |-> userinit.tables,
                                 pte |-> userinit.pte, trapframe |-> TRUE]
              ELSE NoMem]
  /\ vma = [p \in Procs |-> {}] /\ holes = [p \in Procs |-> {}]

-----------------------------------------------------------------------------

(* What a failed fork leaves: allocproc returns at once without a          *)
(* trapframe page, and otherwise freeproc undoes it, with the sz of the    *)
(* slot, which is still 0.                                                 *)
ForkFailed(frame, made, copied, sz) ==
  IF ~frame.ok THEN frame
  ELSE IF ~made.ok THEN kfree(made)
  ELSE proc_freepagetable(kfree(copied), sz)

fork(p, np) ==
  /\ Runs(p) /\ state[np] = "UNUSED"
  /\ LET frame  == kalloc(Work(NoMem))
         made   == proc_pagetable(frame)
         copied == uvmcopy(mem[p], made, mem[p].sz)
     IN IF frame.ok /\ made.ok /\ copied.ok
        THEN /\ Result(copied)
             /\ mem' = [mem EXCEPT ![np] = [sz |-> mem[p].sz, tables |-> copied.tables,
                                            pte |-> copied.pte, trapframe |-> TRUE]]
             /\ state' = [state EXCEPT ![np] = "RUNNABLE"]
             /\ vma' = [vma EXCEPT ![np] = vma[p]]
             /\ holes' = [holes EXCEPT ![np] = holes[p]]
        ELSE /\ Result(ForkFailed(frame, made, copied, mem[np].sz))
             /\ UNCHANGED <<mem, state, vma, holes>>

(* exit unmaps what is mapped; the rest stays until wait.                  *)
exit(p) ==
  /\ p # First
  /\ LET m == FoldSet(LAMBDA va, n : uvmunmap(n, va, 1, TRUE), Work(mem[p]), vma[p])
     IN Result(m) /\ SetMem(p, m, mem[p].sz)
  /\ state' = [state EXCEPT ![p] = "ZOMBIE"]
  /\ vma' = [vma EXCEPT ![p] = {}]
  /\ UNCHANGED holes

(* wait, by whoever is the parent: freeproc.                               *)
freeproc(p) ==
  /\ state[p] = "ZOMBIE" /\ ~vmpanic
  /\ Result(proc_freepagetable(kfree(Work(mem[p])), mem[p].sz))
  /\ mem' = [mem EXCEPT ![p] = NoMem]
  /\ state' = [state EXCEPT ![p] = "UNUSED"]
  /\ holes' = [holes EXCEPT ![p] = {}]
  /\ UNCHANGED vma

(* growproc; a negative sz + n is a huge unsigned number, which uvmdealloc *)
(* takes for no change.  It does not shrink below a mapping (see the       *)
(* README).                                                                *)
sbrk(p, n) ==
  LET sz == mem[p].sz
      m  == IF n > 0 THEN uvmalloc(Work(mem[p]), sz, sz + n)
            ELSE uvmdealloc(Work(mem[p]), sz, IF sz + n < 0 THEN sz ELSE sz + n)
  IN /\ Runs(p) /\ sz + n <= MaxSz
     /\ \A va \in vma[p] : va * PGSIZE < sz + n
     /\ Result(m)
     /\ SetMem(p, m, IF m.ok /\ sz + n >= 0 THEN sz + n ELSE sz)
     /\ UNCHANGED <<state, vma, holes>>

(* sys_mmap of one page, which is not loaded yet.  The page is never the   *)
(* first of its table, and sz is at a page boundary (see the README).      *)
sys_mmap(p) ==
  LET va == mem[p].sz \div PGSIZE
  IN /\ Runs(p) /\ p # First /\ mem[p].sz % PGSIZE = 0 /\ va % PX # 0
     /\ mem[p].sz + PGSIZE <= MaxSz
     /\ mem' = [mem EXCEPT ![p].sz = @ + PGSIZE]
     /\ vma' = [vma EXCEPT ![p] = @ \cup {va}]
     /\ holes' = [holes EXCEPT ![p] = @ \cup {va}]
     /\ UNCHANGED <<nfree, state, vmpanic>>

Faults(p, va) == va \in vma[p] \ DOMAIN mem[p].pte /\ va * PGSIZE < mem[p].sz

(* A fault that mmap_handler can serve, and one for which it has no page   *)
(* or readi returns nothing (it gives the page back): usertrap kills.      *)
mmap_handler(p, va) ==
  LET m == NewPage(Work(mem[p]), va, "user")
  IN /\ Runs(p) /\ Faults(p, va) /\ m.ok
     /\ Result(m) /\ SetMem(p, m, mem[p].sz)
     /\ UNCHANGED <<state, vma, holes>>

usertrap_kill(p, va) ==
  Runs(p) /\ Faults(p, va) /\ exit(p)

sys_exit(p) == Runs(p) /\ exit(p)

sys_munmap(p, va) ==
  LET m == uvmunmap(Work(mem[p]), va, 1, TRUE)
  IN /\ Runs(p) /\ va \in vma[p]
     /\ Result(m) /\ SetMem(p, m, mem[p].sz)
     /\ vma' = [vma EXCEPT ![p] = @ \ {va}]
     /\ UNCHANGED <<state, holes>>

(* exec's loop over the first k program headers.                           *)
LoadSegments(m, prog, k) ==
  FoldLeft(LAMBDA r, end :
             LET n == uvmalloc(r.m, r.sz, end)
             IN IF r.m.ok THEN [m |-> n, sz |-> IF n.ok THEN Grown(r.sz, end) ELSE r.sz] ELSE r,
           [m |-> m, sz |-> 0], SubSeq(prog, 1, k))

(* Mutant of Bad: the size reached so far is not known at the exit.        *)
Bad_nosz(m, sz) == proc_freepagetable(m, 0)

(* exec's error exit, once there is a page table.                          *)
Bad(m, sz) == proc_freepagetable(m, sz)

uvmclear(m, va) == [m EXCEPT !.pte[va] = "guard"]

(* The rest of exec builds the image step by step: m and sz, and ok FALSE  *)
(* when it has failed and been undone.  Last, the arguments may not fit    *)
(* the stack ...                                                           *)
exec_args(m, sz, stop) ==
  LET top == sz + 2 * PGSIZE
  IN IF m.ok /\ stop = "no" THEN [m |-> uvmclear(m, sz \div PGSIZE), sz |-> top, ok |-> TRUE]
     ELSE [m |-> Bad(m, IF m.ok THEN top ELSE sz), sz |-> 0, ok |-> FALSE]

(* ... before that the stack and its guard page are allocated ...          *)
exec_stack(r, stop) ==
  LET sz == PGROUNDUP(r.sz) * PGSIZE
  IN IF r.m.ok /\ stop # "elf" THEN exec_args(uvmalloc(r.m, sz, sz + 2 * PGSIZE), sz, stop)
     ELSE [m |-> Bad(r.m, r.sz), sz |-> 0, ok |-> FALSE]

(* ... after the segments; it may stop after k of them, in reading the     *)
(* next header or the content of the k-th.                                 *)
exec_image(m, prog, k, stop) ==
  IF m.ok THEN exec_stack(LoadSegments(m, prog, k), stop)
  ELSE [m |-> m, sz |-> 0, ok |-> FALSE]

(* The new image takes the place of the old one, which is freed.           *)
exec_commit(p, argc, r) ==
  LET freed == proc_freepagetable([Work(mem[p]) EXCEPT !.free = r.m.free], mem[p].sz)
  IN IF r.ok
     THEN /\ Result([freed EXCEPT !.free = @ + argc, !.panic = @ \/ r.m.panic])
          /\ SetMem(p, r.m, r.sz) /\ holes' = [holes EXCEPT ![p] = {}]
     ELSE Result([r.m EXCEPT !.free = @ + argc]) /\ UNCHANGED <<mem, holes>>

(* sys_exec with argc arguments, a page each meanwhile, and exec, which    *)
(* what is in the file ("elf") or the arguments ("args") may stop.         *)
exec(p, prog, argc, k, stop) ==
  /\ Runs(p) /\ vma[p] = {} /\ argc <= nfree
  /\ stop = "elf" \/ k = Len(prog)
  /\ exec_commit(p, argc,
       exec_image(proc_pagetable([Work(NoMem) EXCEPT !.free = @ - argc]), prog, k, stop))
  /\ UNCHANGED <<state, vma>>

VmNext ==
  \E p \in Procs :
    \/ \E np \in Procs : fork(p, np)
    \/ sys_exit(p)
    \/ freeproc(p)
    \/ \E n \in Deltas : sbrk(p, n)
    \/ sys_mmap(p)
    \/ \E va \in vma[p] : mmap_handler(p, va) \/ usertrap_kill(p, va) \/ sys_munmap(p, va)
    \/ \E prog \in Programs, argc \in 0..MaxArgs, stop \in {"elf", "args", "no"} :
         \E k \in 0..Len(prog) : exec(p, prog, argc, k, stop)

VmSpec == VmInit /\ [][VmNext]_vmvars

-----------------------------------------------------------------------------
Owned(va, m) == m.pte[va] \in {"user", "guard"}

PagesOf(p) ==
  Cardinality(mem[p].tables) + (IF mem[p].trapframe THEN 1 ELSE 0)
  + Cardinality({va \in DOMAIN mem[p].pte : Owned(va, mem[p])})

(* No page is lost, freed twice or in two places: the free list and what   *)
(* the processes hold add up to what kinit handed out, after every call,   *)
(* whether it succeeded or ran out of pages half way.                      *)
PagesExact == nfree + MapThenSumSet(PagesOf, Procs) = NPAGES

(* p->sz tells what is mapped: the pages below it (but for mappings not    *)
(* loaded), the trapframe and the trampoline, and nothing else.  uvmunmap, *)
(* uvmcopy, uvmfree and freewalk rely on it, and none of the panics remap, *)
(* uvmunmap: walk, uvmcopy: pte should exist, freewalk: leaf and kfree is  *)
(* reached.                                                                *)
SpaceExact ==
  /\ ~vmpanic
  /\ \A p \in Procs : state[p] # "UNUSED" =>
       LET below == 0..(PGROUNDUP(mem[p].sz) - 1)
       IN /\ below \ holes[p] \subseteq DOMAIN mem[p].pte
          /\ DOMAIN mem[p].pte \subseteq below \cup {TRAPFRAME, TRAMPOLINE}
          /\ {TRAPFRAME, TRAMPOLINE} \subseteq DOMAIN mem[p].pte

-----------------------------------------------------------------------------
(* Mutant of walkaddr: PTE_U is not looked at.                             *)
walkaddr_v(pt, va) == va \in DOMAIN pt.pte

(* Whether walkaddr finds a user page.                                     *)
walkaddr(pt, va) == va \in DOMAIN pt.pte /\ pt.pte[va] = "user"

(* What a turn of the copy loops takes at va, of max bytes still to copy.  *)
Chunk(va, max) == LET n == PGSIZE - (va % PGSIZE) IN IF n > max THEN max ELSE n

(* copyin and copyout: the user addresses they touch, and the result.      *)
copyin(pt, srcva, len) ==
  LET loop[max \in 0..len] ==
        LET va == srcva + len - max
            n  == Chunk(va, max)
            r  == loop[max - n]
        IN IF max = 0 THEN [ok |-> TRUE, at |-> {}]
           ELSE IF ~walkaddr(pt, va \div PGSIZE) THEN [ok |-> FALSE, at |-> {}]
           ELSE [r EXCEPT !.at = @ \cup (va..(va + n - 1))]
  IN loop[len]

(* copyinstr, of a string whose terminator is at nul: got_null.            *)
copyinstr(pt, srcva, len, nul) ==
  LET loop[max \in 0..len] ==
        LET va == srcva + len - max
            n  == Chunk(va, max)
        IN IF max = 0 \/ ~walkaddr(pt, va \div PGSIZE) THEN FALSE
           ELSE IF nul \in va..(va + n - 1) THEN TRUE
           ELSE loop[max - n]
  IN loop[len]

(* The kernel copies what the caller asked for, page by page, exactly when *)
(* all of it is user memory (for a string: all of it up to its terminator, *)
(* within max bytes), and otherwise reports an error having touched only   *)
(* user memory.                                                            *)
CopyExact ==
  \A p \in {q \in Procs : state[q] = "RUNNABLE"} :
    LET user == {a \in 0..MaxSz :
                   LET f == a \div PGSIZE
                   IN f \in DOMAIN mem[p].pte /\ mem[p].pte[f] = "user"}
    IN \A va \in 0..MaxSz, len \in 0..(2 * PGSIZE + 1) :
         LET all(n) == va..(va + n - 1) \subseteq user
             c == copyin(mem[p], va, len)
         IN /\ c.ok = all(len) /\ c.at \subseteq user
            /\ c.ok => c.at = va..(va + len - 1)
            /\ \A nul \in va..(va + len) :
                 copyinstr(mem[p], va, len, nul) = (nul < va + len /\ all(nul - va + 1))
=============================================================================
