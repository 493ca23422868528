--------------------------------- MODULE Vm ---------------------------------
(***************************************************************************)
(* Physical memory (kernel/kalloc.c), address spaces (kernel/vm.c), and    *)
(* the calls that change them: fork, exit and wait (kernel/proc.c), exec   *)
(* (kernel/exec.c), sbrk, page faults and copies from and to user memory.  *)
(*                                                                         *)
(* Addresses are small numbers, PGSIZE of them to a page.  A page table    *)
(* has a root, tables below it, and leaf tables below those, each with     *)
(* SPAN entries.  Physical pages are counted, not named: who holds how     *)
(* many.  The functions of vm.c are operators on a record: the free pages, *)
(* one page table, what the function returned, and whether it panicked.    *)
(* A call is one step, but for exec, which sleeps: the others meet only at *)
(* the free list, of which a call gets its pages or not.                   *)
(***************************************************************************)
EXTENDS Integers, Sequences, FiniteSets, FiniteSetsExt, SequencesExt

CONSTANTS
    NPROC,
    NPAGE,      \* physical pages
    PGSIZE,
    SPAN,       \* entries of a page-table page (512)
    NUSER,      \* user pages; TRAPFRAME and TRAMPOLINE are the next two
    Images,     \* executable files: sequences of segments
    MAXARG,     \* arguments of exec
    Grow        \* arguments of sbrk

Proc == 1..NPROC
initproc == 1
TRAPFRAME == NUSER
TRAMPOLINE == NUSER + 1
VPage == 0..TRAMPOLINE
\* The tables on the way to page a, by level and place.
TablesOf(a) == << <<1, a \div (SPAN * SPAN)>>, <<0, a \div SPAN>> >>
Table == UNION {Range(TablesOf(a)) : a \in VPage}
Segment == [vaddr : Nat, memsz : Nat, filesz : Nat, write : BOOLEAN]

ASSUME VmAssumption ==
    /\ {NPROC, NPAGE, PGSIZE, SPAN, NUSER, MAXARG} \subseteq Nat \ {0}
    /\ \A i \in Images : i \in Seq(Segment)
    \* memory runs out long before an image and its stack reach the trapframe
    /\ \A i \in Images : \A k \in DOMAIN i : i[k].vaddr + i[k].memsz <= (NUSER - 2) * PGSIZE
    /\ Grow \subseteq Int

\* A page table: has it a root, which of its tables, and what they map.
Pte == [v : BOOLEAN, w : BOOLEAN, u : BOOLEAN]
Invalid == [v |-> FALSE, w |-> FALSE, u |-> FALSE]
NoTable == [root |-> FALSE, table |-> {}, pte |-> [a \in VPage |-> Invalid]]
Pagetable == [root : BOOLEAN, table : SUBSET Table, pte : [VPage -> Pte]]

VARIABLES
    nfree,       \* pages in kmem.freelist
    state,      \* "unused", "run", "exec" (between two steps of exec), "zombie"
    pt, sz,     \* p->pagetable, p->sz
    tf, tx,     \* has p a p->trapframe, a p->tx?
    new, newsz, \* exec: the page table that is being filled
    argv,       \* exec: how many pages hold arguments
    panic

exec == <<new, newsz, argv>>
vmVars == <<nfree, state, pt, sz, tf, tx, exec, panic>>

VmTypeOK ==
    /\ nfree \in 0..NPAGE
    /\ state \in [Proc -> {"unused", "run", "exec", "zombie"}]
    /\ pt \in [Proc -> Pagetable] /\ new \in [Proc -> Pagetable]
    /\ sz \in [Proc -> 0..(NUSER * PGSIZE)] /\ newsz \in [Proc -> 0..(NUSER * PGSIZE)]
    /\ argv \in [Proc -> 0..MAXARG]
    /\ tf \in [Proc -> BOOLEAN] /\ tx \in [Proc -> BOOLEAN]
    /\ panic \in BOOLEAN

PGROUNDUP(a) == ((a + PGSIZE - 1) \div PGSIZE) * PGSIZE
PageOf(a) == a \div PGSIZE
\* The pages of a loop that goes from a up to, but not including, b.
Pages(a, b) == [i \in 1..(PageOf(PGROUNDUP(b)) - PageOf(a)) |-> PageOf(a) + i - 1]

(***************************************************************************)
(* kalloc.c and vm.c, on m = [free, root, table, pte, size, ok, panic].    *)
(***************************************************************************)

Memory(t, fr) == [free |-> fr, root |-> t.root, table |-> t.table, pte |-> t.pte,
                  size |-> 0, ok |-> TRUE, panic |-> panic]
TableOf(m) == [root |-> m.root, table |-> m.table, pte |-> m.pte]

\* kinit, freerange: every page is free.
kinit == NPAGE

\* Take a page off the free list, if there is one; m.ok says so.
kalloc(m) == IF m.free = 0 THEN [m EXCEPT !.ok = FALSE] ELSE [m EXCEPT !.free = @ - 1, !.ok = TRUE]
kfree(m) == [m EXCEPT !.free = @ + 1]

\* walk with alloc: the tables of page a, allocated if need be.  A walk that
\* gets the first one and not the second leaves the first in its place.
walk(m, a) ==
    LET enter(n, t) == IF n.ok THEN [n EXCEPT !.table = @ \cup {t}] ELSE n
        descend(n, t) == IF ~n.ok \/ t \in n.table THEN n ELSE enter(kalloc(n), t)
    IN FoldLeft(descend, [m EXCEPT !.ok = TRUE], TablesOf(a))

\* Mapping a page twice is a panic.
mappages(m, a, write, user) ==
    LET enter(n) ==
            IF ~n.ok THEN n
            ELSE IF n.pte[a].v THEN [n EXCEPT !.panic = TRUE]
            ELSE [n EXCEPT !.pte[a] = [v |-> TRUE, w |-> write, u |-> user]]
    IN enter(walk(m, a))

\* Mutant: a page that cannot be mapped is lost.
NewPage_leak(m, a, write, user) ==
    LET k == kalloc(m) IN IF k.ok THEN mappages(k, a, write, user) ELSE k

\* A new page at a; a page that cannot be mapped is freed again.
NewPage(m, a, write, user) ==
    LET mapped(n) == IF n.ok THEN n ELSE kfree(n)
        taken(k) == IF k.ok THEN mapped(mappages(k, a, write, user)) ELSE k
    IN taken(kalloc(m))

\* Pages that are not mapped are passed over.
uvmunmap(m, pages, do_free) ==
    LET unmap(n, a) ==
            IF ~n.pte[a].v THEN n
            ELSE [n EXCEPT !.pte[a] = Invalid, !.free = IF do_free THEN @ + 1 ELSE @]
    IN FoldLeft(unmap, m, pages)

uvmdealloc(m, old, size) ==
    IF size >= old THEN [m EXCEPT !.size = old]
    ELSE [uvmunmap(m, Pages(PGROUNDUP(size), PGROUNDUP(old)), TRUE) EXCEPT !.size = size]

\* Mutant: everything is, as in uvmcopy.
Undo_all(m, a, old) == uvmdealloc(m, a, 0)

\* uvmalloc gives back what it has allocated up to a.
Undo(m, a, old) == uvmdealloc(m, a, old)

\* m.ok is FALSE, and the mappings are as before, if memory runs out.
uvmalloc(m, old, size, write) ==
    LET first == PGROUNDUP(old)
        added(k, a) == IF k.ok THEN k ELSE [Undo(k, a * PGSIZE, first) EXCEPT !.ok = FALSE]
        add(n, a) == IF n.ok THEN added(NewPage(n, a, write, TRUE), a) ELSE n
        done == FoldLeft(add, [m EXCEPT !.ok = TRUE], Pages(first, size))
    IN IF size < old THEN [m EXCEPT !.size = old, !.ok = TRUE]
       ELSE [done EXCEPT !.size = size]

\* A leaf that is still mapped is a panic.
freewalk(m) ==
    [m EXCEPT !.free = @ + Cardinality(m.table) + 1,
              !.root = FALSE, !.table = {}, !.pte = NoTable.pte,
              !.panic = @ \/ \E a \in VPage : m.pte[a].v]

uvmfree(m, size) == freewalk(uvmunmap(m, Pages(0, size), TRUE))

\* uvmcopy gives back the pages below a.
CopyUndo(m, a) == [uvmunmap(m, Pages(0, a * PGSIZE), TRUE) EXCEPT !.ok = FALSE]

\* m has the child's table, from is the parent's.
uvmcopy(from, m, size) ==
    LET added(k, a) == IF k.ok THEN k ELSE CopyUndo(k, a)
        add(n, a) ==
            IF n.ok /\ from.pte[a].v THEN added(NewPage(n, a, from.pte[a].w, from.pte[a].u), a) ELSE n
    IN FoldLeft(add, [m EXCEPT !.ok = TRUE], Pages(0, size))

\* m.root is FALSE if memory runs out.
proc_pagetable(fr) ==
    LET second(m) == IF m.ok THEN m ELSE uvmfree(uvmunmap(m, <<TRAMPOLINE>>, FALSE), 0)
        first(m) == IF m.ok THEN second(mappages(m, TRAPFRAME, TRUE, FALSE)) ELSE uvmfree(m, 0)
        created(k) ==
            IF k.ok THEN first(mappages([k EXCEPT !.root = TRUE], TRAMPOLINE, FALSE, FALSE)) ELSE k
    IN created(kalloc(Memory(NoTable, fr)))

proc_freepagetable(m, size) ==
    uvmfree(uvmunmap(m, <<TRAMPOLINE, TRAPFRAME>>, FALSE), size)

ismapped(m, a) == m.pte[a].v

\* Where a copy or a fault of p at address va finds a page, if m.ok.
vmfault(m, va, size) ==
    LET a == PageOf(va) IN
    IF va >= size \/ ismapped(m, a) THEN [m EXCEPT !.ok = FALSE] ELSE NewPage(m, a, TRUE, TRUE)

\* Does walkaddr find a page of the user's at a?
walkaddr(m, a) == m.pte[a].v /\ m.pte[a].u

\* copyin, and copyout, which wants a page that may be written.
CopyPages(m, from, to, size, write) ==
    LET find(n, a) == IF walkaddr(n, a) THEN [n EXCEPT !.ok = TRUE]
                      ELSE vmfault(n, a * PGSIZE, size)
        found(k, a) == [k EXCEPT !.ok = @ /\ (write => k.pte[a].w)]
        next(n, a) == IF n.ok THEN found(find(n, a), a) ELSE n
    IN FoldLeft(next, [m EXCEPT !.ok = TRUE], Pages(PageOf(from) * PGSIZE, to))

(***************************************************************************)
(* Processes.                                                              *)
(***************************************************************************)

\* The page table of p, and the free pages, become those of m.
SetTable(p, m) == pt' = [pt EXCEPT ![p] = TableOf(m)] /\ nfree' = m.free /\ panic' = m.panic

\* freeproc of a process that has a trapframe if f, a transaction if x.
freeproc(m, size, f, x) ==
    LET trapframe(n) == IF f THEN kfree(n) ELSE n
        pagetable(n) == IF n.root THEN proc_freepagetable(n, size) ELSE n
        transaction(n) == IF x THEN kfree(n) ELSE n
    IN transaction(pagetable(trapframe(m)))

\* allocproc: [m, tx], with m.ok FALSE if it fails.  Without a page for its
\* transaction a process is made all the same.
allocproc(fr) ==
    LET transaction(x) == [m |-> [x EXCEPT !.ok = TRUE], tx |-> x.ok]
        pagetable(m) ==
            IF m.root THEN transaction(kalloc(m))
            ELSE [m |-> [freeproc(m, 0, TRUE, FALSE) EXCEPT !.ok = FALSE], tx |-> FALSE]
        trapframe(k) == IF k.ok THEN pagetable(proc_pagetable(k.free)) ELSE [m |-> k, tx |-> FALSE]
    IN trapframe(kalloc(Memory(NoTable, fr)))

\* userinit; the rest of memory is free.
VmInit ==
    /\ panic = FALSE
    /\ \E a \in {allocproc(kinit)} :
       /\ nfree = a.m.free
       /\ pt = [p \in Proc |-> IF p = initproc THEN TableOf(a.m) ELSE NoTable]
       /\ tf = [p \in Proc |-> p = initproc]
       /\ tx = [p \in Proc |-> p = initproc /\ a.tx]
    /\ state = [p \in Proc |-> IF p = initproc THEN "run" ELSE "unused"]
    /\ sz = [p \in Proc |-> 0]
    /\ new = [p \in Proc |-> NoTable]
    /\ newsz = [p \in Proc |-> 0] /\ argv = [p \in Proc |-> 0]

\* kfork: the child takes the first unused slot.
kfork(p) ==
    LET q == Min({x \in Proc : state[x] = "unused"}) IN
    /\ state[p] = "run" /\ \E x \in Proc : state[x] = "unused"
    /\ \E a \in {allocproc(nfree)} : \E m \in {IF a.m.ok THEN uvmcopy(pt[p], a.m, sz[p]) ELSE a.m} :
          /\ SetTable(q, IF a.m.ok /\ ~m.ok THEN freeproc(m, 0, TRUE, a.tx) ELSE m)
          /\ state' = [state EXCEPT ![q] = IF m.ok THEN "run" ELSE "unused"]
          /\ sz' = [sz EXCEPT ![q] = IF m.ok THEN sz[p] ELSE 0]
          /\ tf' = [tf EXCEPT ![q] = m.ok] /\ tx' = [tx EXCEPT ![q] = m.ok /\ a.tx]
    /\ UNCHANGED <<exec>>

kexit(p) ==
    /\ state[p] = "run" /\ p # initproc
    /\ state' = [state EXCEPT ![p] = "zombie"]
    /\ UNCHANGED <<nfree, pt, sz, tf, tx, exec, panic>>

\* The parent calls freeproc.
kwait(p) ==
    /\ state[p] = "zombie"
    /\ SetTable(p, freeproc(Memory(pt[p], nfree), sz[p], tf[p], tx[p]))
    /\ state' = [state EXCEPT ![p] = "unused"]
    /\ sz' = [sz EXCEPT ![p] = 0] /\ tf' = [tf EXCEPT ![p] = FALSE] /\ tx' = [tx EXCEPT ![p] = FALSE]
    /\ UNCHANGED <<exec>>

growproc(p, n) ==
    LET m == Memory(pt[p], nfree)
        \* sz + n wraps around if it is negative, and is not below sz then
        grown ==
             IF n > 0 THEN uvmalloc(m, sz[p], sz[p] + n, TRUE)
             ELSE IF n < 0 /\ sz[p] + n >= 0 THEN uvmdealloc(m, sz[p], sz[p] + n)
             ELSE [m EXCEPT !.size = sz[p]]
    IN
    /\ sz[p] + n <= TRAPFRAME * PGSIZE
    /\ \E k \in {grown} : SetTable(p, k) /\ sz' = [sz EXCEPT ![p] = IF k.ok THEN k.size ELSE @]

\* sbrk, at once or lazily; past the limit it fails.
sys_sbrk(p, n) ==
    /\ state[p] = "run"
    /\ \/ growproc(p, n)
       \/ /\ n >= 0 /\ sz[p] + n <= TRAPFRAME * PGSIZE
          /\ sz' = [sz EXCEPT ![p] = @ + n] /\ UNCHANGED <<nfree, pt, panic>>
    /\ UNCHANGED <<state, tf, tx, exec>>

\* The program uses address va: usertrap kills it if vmfault cannot help.
usertrap(p, va, write) ==
    LET a == PageOf(va) IN
    /\ state[p] = "run" /\ p # initproc
    /\ ~(pt[p].pte[a].v /\ pt[p].pte[a].u /\ (write => pt[p].pte[a].w))
    /\ \E m \in {vmfault(Memory(pt[p], nfree), va, sz[p])} :
          SetTable(p, m) /\ state' = [state EXCEPT ![p] = IF m.ok THEN @ ELSE "zombie"]
    /\ UNCHANGED <<sz, tf, tx, exec>>

\* A call copies to or from the addresses from..to-1 of the program.
copy(p, from, to, write) ==
    /\ state[p] = "run"
    /\ SetTable(p, CopyPages(Memory(pt[p], nfree), from, to, sz[p], write))
    /\ UNCHANGED <<state, sz, tf, tx, exec>>

(***************************************************************************)
(* exec.                                                                   *)
(***************************************************************************)

\* loadseg panics if a page it reads into is not mapped.
loadseg(m, s) ==
    LET pages == Pages(s.vaddr, s.vaddr + s.filesz) IN
    [m EXCEPT !.panic = @ \/ \E i \in DOMAIN pages : ~walkaddr(m, pages[i])]

\* One round of the loop over the program headers.
Load(m, s) ==
    LET grown(k) ==
            IF k.ok /\ k.size # 0 THEN loadseg(k, s) ELSE [k EXCEPT !.ok = FALSE, !.size = m.size]
    IN IF ~m.ok THEN m
       ELSE IF s.memsz < s.filesz \/ s.vaddr % PGSIZE # 0 THEN [m EXCEPT !.ok = FALSE]
       ELSE grown(uvmalloc(m, m.size, s.vaddr + s.memsz, s.write))

\* kexec up to the end of that loop, with args pages for the arguments, which
\* sys_exec frees in the end.  Reading the file may fail at any segment.
kexec_load(p, image, n, args) ==
    LET loaded(m) == FoldLeft(Load, [m EXCEPT !.ok = TRUE], SubSeq(image, 1, n))
        bad(m) == IF m.root THEN proc_freepagetable(m, m.size) ELSE m
    IN
    /\ \E t \in {proc_pagetable(nfree - args)} : \E m \in {IF t.root THEN loaded(t) ELSE t} :
          IF m.root /\ m.ok /\ n = Len(image)
          THEN /\ new' = [new EXCEPT ![p] = TableOf(m)] /\ newsz' = [newsz EXCEPT ![p] = m.size]
               /\ state' = [state EXCEPT ![p] = "exec"] /\ argv' = [argv EXCEPT ![p] = args]
               /\ nfree' = m.free /\ panic' = m.panic
          ELSE /\ nfree' = args + bad(m).free /\ panic' = bad(m).panic
               /\ UNCHANGED <<exec, state>>
    /\ UNCHANGED <<pt, sz, tf, tx>>

\* sys_exec copies the arguments into pages of their own; without these it
\* gives back what it has, and fails.
sys_exec(p, image, n) ==
    /\ state[p] = "run"
    /\ \E args \in 0..Min({nfree, MAXARG}) : kexec_load(p, image, n, args)

\* The guard page below the stack is not the user's.
uvmclear(m, a) == [m EXCEPT !.pte[a].u = FALSE]

\* The size the old image is freed with.
OldSize(p, size) == sz[p]

\* The rest of kexec: the stack with its guard page, the arguments (which may
\* not fit), the switch to the new image, and the end of sys_exec.
kexec_commit(p, fits) ==
    LET base == PGROUNDUP(newsz[p])
        top == base + 2 * PGSIZE
        old(m) == proc_freepagetable([Memory(pt[p], m.free) EXCEPT !.panic = m.panic], OldSize(p, top))
        bad(m) == proc_freepagetable(m, IF m.ok THEN top ELSE base)
        clear(m) == IF m.ok THEN uvmclear(m, PageOf(base)) ELSE m
    IN
    /\ state[p] = "exec"
    /\ \E m \in {clear(uvmalloc(Memory(new[p], nfree), base, top, TRUE))} :
          IF m.ok /\ fits
          THEN /\ pt' = [pt EXCEPT ![p] = TableOf(m)] /\ sz' = [sz EXCEPT ![p] = top]
               /\ nfree' = old(m).free + argv[p] /\ panic' = old(m).panic
          ELSE nfree' = bad(m).free + argv[p] /\ panic' = bad(m).panic /\ UNCHANGED <<pt, sz>>
    /\ new' = [new EXCEPT ![p] = NoTable]
    /\ newsz' = [newsz EXCEPT ![p] = 0] /\ argv' = [argv EXCEPT ![p] = 0]
    /\ state' = [state EXCEPT ![p] = "run"]
    /\ UNCHANGED <<tf, tx>>

ProcNext(p) ==
    \/ kfork(p) \/ kexit(p) \/ kwait(p)
    \/ \E n \in Grow : sys_sbrk(p, n)
    \/ \E va \in 0..(NUSER * PGSIZE - 1), write \in BOOLEAN : usertrap(p, va, write)
    \/ \E from \in 0..(NUSER * PGSIZE - 1), write \in BOOLEAN :
          copy(p, from, from + 1, write) \/ copy(p, from, Min({from + PGSIZE, NUSER * PGSIZE}), write)
    \/ \E image \in Images : \E n \in 0..Len(image) : sys_exec(p, image, n)
    \/ \E fits \in BOOLEAN : kexec_commit(p, fits)

\* A panic leaves no step, so that TLC reports one as a deadlock: mappages never
\* finds a page mapped, loadseg always does, freewalk never finds a leaf.
VmNext == ~panic /\ \E p \in Proc : ProcNext(p)

(***************************************************************************)
(* Properties.                                                             *)
(***************************************************************************)

\* The pages a page table holds.
Holds(t) == (IF t.root THEN 1 ELSE 0) + Cardinality(t.table)
            + Cardinality({a \in 0..(NUSER - 1) : t.pte[a].v})

\* Every page is free, or the root or a table of a page table, a user page, a
\* trapframe, a transaction or an argument of exec: none is lost and none
\* freed twice, however the calls fail for want of memory.
PagesAccounted ==
    nfree + MapThenSumSet(LAMBDA p : Holds(pt[p]) + Holds(new[p]) + argv[p], Proc)
         + Cardinality({p \in Proc : tf[p]}) + Cardinality({p \in Proc : tx[p]}) = NPAGE

\* As long as a process has its image, no call moves or takes away a page
\* below its size: neither a call that fails half way, nor a failed exec.
KeepsPages ==
    [][\A p \in Proc, a \in 0..(NUSER - 1) :
         (state[p] = "run" /\ state'[p] \in {"run", "exec"} /\ pt[p].pte[a].v /\ a * PGSIZE < sz'[p])
         => pt'[p].pte[a] = pt[p].pte[a]]_vmVars
=============================================================================
