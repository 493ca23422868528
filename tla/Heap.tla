-------------------------------- MODULE Heap --------------------------------
(***************************************************************************)
(* malloc and free of the programs (user/umalloc.c): a ring of free blocks *)
(* in the order of their addresses.                                        *)
(*                                                                         *)
(* An address counts headers: base is 0, and what sbrk returns is above    *)
(* it.  The fields of a header exist while a block starts there; sbrk      *)
(* fails above HEAPMAX.                                                    *)
(***************************************************************************)
EXTENDS Integers, Sequences, FiniteSets, FiniteSetsExt, TLC

CONSTANTS
    HEAPMAX,        \* bound: the units sbrk can give
    MINCORE,        \* the units morecore asks for at least
    HEADER,         \* sizeof(Header)
    Requests        \* the sizes in bytes a program asks for

VARIABLES
    ptr, size,      \* the fields of the headers
    freep,          \* -1 for a null pointer
    brk,            \* the first unit that is not the program's
    held            \* the blocks the program holds

heapVars == <<ptr, size, freep, brk, held>>

base == 0

HeapInit ==
    /\ ptr = [a \in {} |-> 0] /\ size = [a \in {} |-> 0]
    /\ freep = -1 /\ brk = 1 /\ held = {}

\* The state as a value: the operators below are the code.
Mem == [ptr |-> ptr, size |-> size, freep |-> freep, brk |-> brk]

HeapTypeOK ==
    /\ freep \in -1..HEAPMAX /\ brk \in 1..(HEAPMAX + 1)
    /\ held \subseteq DOMAIN size
    /\ \A a \in DOMAIN ptr : ptr[a] \in DOMAIN ptr
    /\ DOMAIN ptr \subseteq DOMAIN size

\* f without, and with, a value at a.
Without(f, a) == [x \in DOMAIN f \ {a} |-> f[x]]
With(f, a, v) == (a :> v) @@ f

RECURSIVE Place(_, _, _), Search(_, _, _, _)

\* The block of the ring after which bp belongs.
Place(m, bp, p) ==
    IF \/ bp > p /\ bp < m.ptr[p]
       \/ p >= m.ptr[p] /\ (bp > p \/ bp < m.ptr[p])
    THEN p ELSE Place(m, bp, m.ptr[p])

\* bp takes in the block that follows it, when it is free.
JoinUpper(m, bp, p) ==
    LET n == m.ptr[p] IN
    IF bp + m.size[bp] = n
    THEN [m EXCEPT !.size = Without([@ EXCEPT ![bp] = @ + m.size[n]], n),
                   !.ptr = Without(With(@, bp, m.ptr[n]), n)]
    ELSE [m EXCEPT !.ptr = With(@, bp, n)]

\* p takes in bp.
JoinLower(m, bp, p) ==
    IF p + m.size[p] = bp
    THEN [m EXCEPT !.size = Without([@ EXCEPT ![p] = @ + m.size[bp]], bp),
                   !.ptr = Without([@ EXCEPT ![p] = m.ptr[bp]], bp)]
    ELSE [m EXCEPT !.ptr[p] = bp]

Freed(m, bp) ==
    LET p == Place(m, bp, m.freep) IN
    [JoinLower(JoinUpper(m, bp, p), bp, p) EXCEPT !.freep = p]

\* The memory with what sbrk gives, or m itself when it fails.
morecore(m, nu) ==
    LET n == Max({nu, MINCORE}) IN
    IF m.brk + n > HEAPMAX + 1 THEN m
    ELSE Freed([m EXCEPT !.size = With(@, m.brk, n), !.brk = @ + n], m.brk)

\* Mutant: the block given out keeps the size of the whole.
Taken_whole(m, prevp, p, nunits) ==
    IF m.size[p] = nunits
    THEN [m EXCEPT !.ptr = Without([@ EXCEPT ![prevp] = m.ptr[p]], p), !.freep = prevp]
    ELSE LET q == p + m.size[p] - nunits
         IN [m EXCEPT !.size = With(@, q, nunits), !.freep = prevp]

\* nunits are cut off the end of p, or p is taken out of the ring.
Taken(m, prevp, p, nunits) ==
    IF m.size[p] = nunits
    THEN [m EXCEPT !.ptr = Without([@ EXCEPT ![prevp] = m.ptr[p]], p), !.freep = prevp]
    ELSE LET q == p + m.size[p] - nunits
         IN [m EXCEPT !.size = With([@ EXCEPT ![p] = @ - nunits], q, nunits), !.freep = prevp]

\* The loop of malloc: [m, p], with p = -1 for a null pointer.
Search(m, prevp, p, nunits) ==
    IF m.size[p] >= nunits
    THEN [m |-> Taken(m, prevp, p, nunits),
          p |-> IF m.size[p] = nunits THEN p ELSE p + m.size[p] - nunits]
    ELSE IF p # m.freep THEN Search(m, p, m.ptr[p], nunits)
    ELSE LET again(c) == IF c = m THEN [m |-> m, p |-> -1]
                         ELSE Search(c, c.freep, c.ptr[c.freep], nunits)
         IN again(morecore(m, nunits))

Units(nbytes) == (nbytes + HEADER - 1) \div HEADER + 1

SetMem(m) == ptr' = m.ptr /\ size' = m.size /\ freep' = m.freep /\ brk' = m.brk

malloc(nbytes) ==
    LET m == IF freep # -1 THEN Mem
             ELSE [Mem EXCEPT !.ptr = (base :> base), !.size = (base :> 0), !.freep = base]
    IN \E r \in {Search(m, m.freep, m.ptr[m.freep], Units(nbytes))} :
          SetMem(r.m) /\ held' = held \cup ({r.p} \ {-1})

free(bp) ==
    /\ bp \in held
    /\ SetMem(Freed(Mem, bp))
    /\ held' = held \ {bp}

HeapNext == \/ \E n \in Requests : malloc(n)
            \/ \E bp \in held : free(bp)

Block(a) == a..(a + size[a] - 1)

\* The ring lists the free blocks in the order of their addresses with no two
\* neighbours left apart, as free leaves them, and with the blocks the program
\* holds they are all of what sbrk gave, without overlap: malloc gives nothing
\* out twice and nothing is lost.
HeapTiled ==
    LET Blocks == (held \cup DOMAIN ptr) \ {base} IN
    /\ held \cap DOMAIN ptr = {}
    /\ UNION {Block(a) : a \in Blocks} = 1..(brk - 1)
    /\ \A a, b \in Blocks : a # b => Block(a) \cap Block(b) = {}
    /\ \A a \in DOMAIN ptr :
          LET above == {b \in DOMAIN ptr : b > a} IN
          /\ ptr[a] = IF above = {} THEN base ELSE Min(above)
          /\ a # base => a + size[a] \notin DOMAIN ptr
=============================================================================
