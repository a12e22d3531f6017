------------------------------ MODULE Umalloc ------------------------------
(***************************************************************************)
(* The allocator of user programs (umalloc.c of Part_B): first fit from a  *)
(* circular list of free blocks in the order of their addresses.           *)
(* Addresses count units of the size of a Header; the header of a block is *)
(* its first unit.                                                         *)
(***************************************************************************)
EXTENDS Integers, FiniteSets, FiniteSetsExt, Functions

CONSTANTS
    Asked,   \* bytes that the program asks for
    UNIT,    \* bytes of a Header
    WRAP,    \* where an unsigned int wraps
    MORE,    \* the least that morecore() asks for, 4096 in the code
    TOP,     \* sbrk() fails beyond it
    Gap      \* what the program takes with sbrk() itself

base == 0    \* the static Header, below all others

VARIABLES
    ptr, size,   \* headers of free blocks, and the sizes of the others
    freep,
    brk,         \* the end of the heap
    held,        \* bytes asked for in each block that the program has
    own          \* units that the program has from sbrk()

vars == <<ptr, size, freep, brk, held, own>>
Heap == [ptr |-> ptr, size |-> size, freep |-> freep, brk |-> brk]

Init ==
    /\ ptr = [a \in {base} |-> base] /\ size = [a \in {base} |-> 0] /\ freep = base
    /\ brk = 1
    /\ held = [a \in {} |-> 0] /\ own = {}

\* The k-th block of the list after freep; freep itself is the last one.
Block(h, n) ==
    LET next[k \in Nat] == IF k = 0 THEN h.freep ELSE h.ptr[next[k - 1]] IN next[n]
Blocks(h) == Cardinality(DOMAIN h.ptr)
Place(h, P(_)) == Min({k \in 0 .. Blocks(h) : P(Block(h, k))})

-----------------------------------------------------------------------------
\* Mutant: free() stops at the first block below.
Between_below(h, p, bp) == p < bp

\* Whether bp belongs after p: between two blocks, or beyond the last or before
\* the first one.
Between(h, p, bp) ==
    \/ p < bp /\ bp < h.ptr[p]
    \/ p >= h.ptr[p] /\ (p < bp \/ bp < h.ptr[p])

\* free(): bp joins the block above it and the block below it if they touch.
Freed(h, bp) ==
    LET p    == Block(h, Place(h, LAMBDA q : Between(h, q, bp)))
        next == h.ptr[p]
        up   == bp + h.size[bp] = next
        down == p + h.size[p] = bp
        all  == h.size[bp] + (IF up THEN h.size[next] ELSE 0)
        gone == (IF up THEN {next} ELSE {}) \cup (IF down THEN {bp} ELSE {})
        last == IF up THEN h.ptr[next] ELSE next
    IN [h EXCEPT
          !.freep = p,
          !.ptr = [a \in (DOMAIN h.ptr \cup {bp}) \ gone |->
                     IF a = p THEN IF down THEN last ELSE bp ELSE IF a = bp THEN last ELSE h.ptr[a]],
          !.size = [a \in DOMAIN h.size \ gone |->
                      IF a = p /\ down THEN h.size[p] + all ELSE IF a = bp THEN all ELSE h.size[a]]]

\* morecore()
More(h, n) ==
    LET nu == Max({n, MORE}) IN
    Freed([h EXCEPT !.brk = @ + nu,
                    !.size = [a \in DOMAIN @ \cup {h.brk} |-> IF a = h.brk THEN nu ELSE @[a]]],
          h.brk)
HasMore(h, n) == h.brk + Max({n, MORE}) <= TOP

Fits(h, n) == {k \in 1 .. Blocks(h) : h.size[Block(h, k)] >= n}

\* The first block that is large enough gives all of itself or its last units.
Taken(h, n) ==
    LET k    == Min(Fits(h, n))
        p    == Block(h, k)
        prev == Block(h, k - 1)
        rest == h.size[p] - n
    IN [at |-> p + rest,
        heap |-> IF rest = 0
                 THEN [h EXCEPT !.freep = prev,
                                !.ptr = [a \in DOMAIN @ \ {p} |-> IF a = prev THEN @[p] ELSE @[a]]]
                 ELSE [h EXCEPT !.freep = prev,
                                !.size = [a \in DOMAIN @ \cup {p + rest} |->
                                            IF a = p THEN rest ELSE IF a = p + rest THEN n ELSE @[a]]]]

Becomes(h) == ptr' = h.ptr /\ size' = h.size /\ freep' = h.freep /\ brk' = h.brk

Units(n) == ((n + UNIT - 1) % WRAP) \div UNIT + 1

malloc(n) ==
    LET u == Units(n)
        h == IF Fits(Heap, u) # {} THEN Heap ELSE More(Heap, u)
    IN IF Fits(Heap, u) = {} /\ ~HasMore(Heap, u)
       THEN UNCHANGED vars
       ELSE /\ Becomes(Taken(h, u).heap)
            /\ held' = [a \in DOMAIN held \cup {Taken(h, u).at} |->
                           IF a = Taken(h, u).at THEN n ELSE held[a]]
            /\ UNCHANGED own

free(a) ==
    /\ a \in DOMAIN held
    /\ Becomes(Freed(Heap, a))
    /\ held' = Restrict(held, DOMAIN held \ {a})
    /\ UNCHANGED own

sbrk(n) ==
    /\ brk + n <= TOP
    /\ brk' = brk + n /\ own' = own \cup (brk .. brk + n - 1)
    /\ UNCHANGED <<ptr, size, freep, held>>

Next ==
    \/ \E n \in Asked : malloc(n)
    \/ \E a \in 1 .. TOP : free(a)
    \/ \E n \in Gap : sbrk(n)

Spec == Init /\ [][Next]_vars

-----------------------------------------------------------------------------
\* malloc(), free(): every unit of the heap is in one block, free or handed out
\* and large enough for what was asked; the list leads through every free block,
\* upwards but for once; and free blocks that touch have become one.
HeapWhole ==
    LET listed == DOMAIN ptr \ {base}
        units(a) == a .. a + size[a] - 1
    IN
    /\ DOMAIN size = DOMAIN ptr \cup DOMAIN held /\ DOMAIN ptr \cap DOMAIN held = {}
    /\ \A u \in 1 .. brk - 1 : Cardinality({a \in listed \cup DOMAIN held : u \in units(a)})
                                 = IF u \in own THEN 0 ELSE 1
    /\ \A a \in listed \cup DOMAIN held : units(a) \subseteq 1 .. brk - 1
    /\ \A a \in DOMAIN held : held[a] <= UNIT * (size[a] - 1)
    /\ {Block(Heap, k) : k \in 1 .. Blocks(Heap)} = DOMAIN ptr
    /\ Cardinality({a \in DOMAIN ptr : ptr[a] <= a}) = 1
    /\ \A a \in listed : a + size[a] \notin listed
=============================================================================
