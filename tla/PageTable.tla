----------------------------- MODULE PageTable -----------------------------
(***************************************************************************)
(* Page tables as vm.c builds and frees them.  A page table has a page     *)
(* directory, one page table for each of its entries in use, and pages;    *)
(* each is a frame.  The last entry of the directory is the kernel's.      *)
(*                                                                         *)
(* An operator takes a record m of the free frames and a page table, and   *)
(* returns what the function leaves, with ok FALSE when it fails and       *)
(* panic TRUE when it panics.  Sizes and addresses are counted in words.   *)
(***************************************************************************)
EXTENDS Integers, Sequences, FiniteSetsExt, SequencesExt

CONSTANTS
    NDIR,    \* page directory entries for user memory
    NPTE,    \* entries of a page table
    PGSIZE   \* words of a page

NoFrame  == 0              \* the null pointer; V2P() makes it a frame beyond memory
Wild     == -1             \* what is read through a null pointer
NoPage   == <<>>           \* a page table entry without PTE_P
KPAGE    == NDIR * NPTE    \* stands for the pages of the kernel's half
KERNBASE == KPAGE * PGSIZE
Dir      == 0 .. NDIR
UserPage == 0 .. KPAGE - 1
Page     == 0 .. KPAGE

PDX(a) == a \div NPTE
PGROUNDUP(n) == ((n + PGSIZE - 1) \div PGSIZE) * PGSIZE

\* The pages that a loop from address lo, rounded up, to hi goes through.
PagesFrom(lo, hi) == {a \in UserPage : PGROUNDUP(lo) <= a * PGSIZE /\ a * PGSIZE < hi}
InOrder(S) == SetToSortSeq(S, <)

\* The frames of a page table.
TableFrames(pd) == {pd.root} \cup {pd.tab[i] : i \in {i \in Dir : pd.tab[i] # NoFrame}}
Mapped(pd)      == {a \in UserPage : pd.pte[a] # NoPage}
FramesOf(pd)    == TableFrames(pd) \cup {pd.pte[a].frame : a \in Mapped(pd)}

-----------------------------------------------------------------------------
\* The page table that covers page a, made if it is missing and alloc is set.
walkpgdir(m, a, alloc) ==
    CASE m.pd.tab[PDX(a)] # NoFrame -> m
      [] m.pd.tab[PDX(a)] = NoFrame /\ alloc /\ m.free # {} ->
           [m EXCEPT !.free = @ \ {Min(@)}, !.pd.tab[PDX(a)] = Min(m.free)]
      [] OTHER -> [m EXCEPT !.ok = FALSE]

\* mappages() of one page.
mappages(m, a, f, user) ==
    LET w == walkpgdir(m, a, TRUE) IN
    CASE ~w.ok -> w
      [] w.ok /\ w.pd.pte[a] # NoPage -> [w EXCEPT !.panic = TRUE]
      [] OTHER -> [w EXCEPT !.pd.pte[a] = [frame |-> f, user |-> user]]

\* Frees the pages from newsz to oldsz; freeing what V2P() made of a null
\* pointer panics.
deallocuvm(m, oldsz, newsz) ==
    LET gone == PagesFrom(newsz, oldsz) \cap Mapped(m.pd)
        fs   == {m.pd.pte[a].frame : a \in gone}
    IN [m EXCEPT !.free  = @ \cup (fs \ {NoFrame}),
                 !.panic = @ \/ NoFrame \in fs,
                 !.pd.pte = [a \in Page |-> IF a \in gone THEN NoPage ELSE @[a]]]

freevm(m) ==
    LET d == deallocuvm(m, KERNBASE, 0) IN [d EXCEPT !.free = @ \cup TableFrames(d.pd)]

\* A new page table with the kernel's half.
setupkvm(free) ==
    LET none == [root |-> NoFrame, tab |-> [i \in Dir |-> NoFrame],
                 pte |-> [a \in Page |-> NoPage]]
        m    == [free |-> free \ {Min(free)}, pd |-> [none EXCEPT !.root = Min(free)],
                 ok |-> TRUE, panic |-> FALSE]
        k    == mappages(m, KPAGE, NoFrame, FALSE)
    IN CASE free = {} -> [free |-> free, pd |-> none, ok |-> FALSE, panic |-> FALSE]
         [] free # {} /\ ~k.ok -> [freevm(k) EXCEPT !.ok = FALSE]
         [] OTHER -> k

\* One page more: kalloc() and mappages(), which may want a page table.  The
\* second field of the result is the frame, lost to the page table if
\* mappages() fails.
addpage(m, a, user) ==
    IF m.free = {} THEN [m EXCEPT !.ok = FALSE]
    ELSE LET f == Min(m.free)
             n == mappages([m EXCEPT !.free = @ \ {f}], a, f, user)
         IN IF n.ok THEN n ELSE [n EXCEPT !.free = @ \cup {f}]

\* Grows user memory from oldsz to newsz; sz is the new size, 0 on error.
allocuvm(m, oldsz, newsz) ==
    LET grow(n, a) == IF n.ok THEN addpage(n, a, TRUE) ELSE n
        n == FoldLeft(grow, m, InOrder(PagesFrom(oldsz, newsz)))
    IN CASE newsz >= KERNBASE -> [m |-> m, sz |-> 0]
         [] newsz < KERNBASE /\ newsz < oldsz -> [m |-> m, sz |-> oldsz]
         [] OTHER -> IF n.ok THEN [m |-> n, sz |-> newsz]
                     ELSE [m |-> [deallocuvm(n, newsz, oldsz) EXCEPT !.ok = TRUE], sz |-> 0]

\* inituvm(): the first process has one page.
inituvm(m) == addpage(m, 0, TRUE)

\* A copy of the first sz words of pd.
copyuvm(free, pd, sz) ==
    LET copy(n, a) ==
            CASE ~n.ok \/ n.panic -> n
              [] n.ok /\ ~n.panic /\ pd.pte[a] = NoPage -> [n EXCEPT !.panic = TRUE]
              [] OTHER -> addpage(n, a, pd.pte[a].user)
        k == setupkvm(free)
        d == FoldLeft(copy, k, InOrder(PagesFrom(0, sz)))
    IN CASE ~k.ok -> k
         [] k.ok /\ ~d.ok -> [freevm(d) EXCEPT !.ok = FALSE]
         [] OTHER -> d

\* Takes a page away from user code.
clearpteu(m, a) == [m EXCEPT !.pd.pte[a].user = FALSE]

\* The frame behind page a if user code may use it.  Where no page table covers
\* the page, the entry is read through the null pointer of walkpgdir().
uva2ka(pd, a) ==
    IF a \in UserPage /\ pd.tab[PDX(a)] = NoFrame THEN Wild
    ELSE IF a \in Mapped(pd) /\ pd.pte[a].user THEN pd.pte[a].frame ELSE NoFrame
=============================================================================
