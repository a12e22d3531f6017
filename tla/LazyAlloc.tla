----------------------------- MODULE LazyAlloc -----------------------------
(***************************************************************************)
(* Lazy allocation, Part_A: sys_sbrk() only changes the size of a process, *)
(* and trap() gives it a page when it touches one that it has not got.     *)
(* Nothing compares the address with the size, looks at what kalloc() and  *)
(* mappages() return, or takes pages back before the process exits.        *)
(*                                                                         *)
(* A page holds one value; the processes compete for the frames.           *)
(***************************************************************************)
EXTENDS PageTable

CONSTANTS
    Proc, First,   \* processes, and the one that runs when the others are not made
    NFRAME,        \* frames that kalloc() may give
    MaxForks,      \* bound of the model: calls of fork()
    Val            \* values, 0 among them, other than what it finds in text pages

Frame == 1 .. NFRAME
Text  == -1

VARIABLES
    pd,        \* page table of each process, <<>> without one
    size,      \* proc->sz, in pages
    free,      \* kmem.freelist
    mem,       \* contents of each frame
    wrote,     \* what each process has last put in each page, history only
    wiped,     \* processes whose first page a failed kalloc() has zeroed
    panicked,
    forks      \* calls of fork() so far

vars == <<pd, size, free, mem, wrote, wiped, panicked, forks>>

NoTable == <<>>
Alive == {p \in Proc : pd[p] # NoTable}

\* A process as exec() leaves it: text, the guard page and a stack page.
Init ==
    LET k == setupkvm(Frame)
        m == clearpteu(allocuvm(k, 0, 3 * PGSIZE).m, 1)
    IN
    /\ pd = [p \in Proc |-> IF p = First THEN m.pd ELSE NoTable]
    /\ size = [p \in Proc |-> IF p = First THEN 3 ELSE 0]
    /\ free = m.free
    /\ mem = [f \in Frame |-> IF f = m.pd.pte[0].frame THEN Text ELSE 0]
    /\ wrote = [p \in Proc |-> [a \in UserPage |->
                   IF p = First /\ a = 0 THEN Text ELSE 0]]
    /\ wiped = {} /\ panicked = FALSE /\ forks = 0

\* sys_sbrk() of n pages.  The sizes go from nothing to all of user memory
\* (the bound of the model; the code lets them wrap).
sys_sbrk(p, n) ==
    /\ p \in Alive /\ size[p] + n \in 0 .. KPAGE
    /\ size' = [size EXCEPT ![p] = @ + n]
    /\ UNCHANGED <<pd, free, mem, wrote, wiped, panicked, forks>>

\* User code writes to a page that it has.
Store(p, a, v) ==
    /\ p \in Alive /\ a \in Mapped(pd[p])
    /\ LET f == uva2ka(pd[p], a) IN f # NoFrame /\ mem' = [mem EXCEPT ![f] = v]
    /\ wrote' = [wrote EXCEPT ![p][a] = v]
    /\ UNCHANGED <<pd, size, free, wiped, panicked, forks>>

\* Mutant: the page is not cleared.
Cleared_not(f) == mem

\* memset(mem, 0, PGSIZE)
Cleared(f) == [mem EXCEPT ![f] = 0]

\* A fault: on a page that is missing, on the guard page, or on one of the
\* kernel's.  When kalloc() fails, the memset() clears the process's own
\* first page, at address 0, and the page that is mapped is not memory; without
\* a first page the handler faults in turn, for ever.  When mappages() fails
\* for want of a page table, the frame is lost.
trap(p, a) ==
    LET f == IF free = {} THEN NoFrame ELSE Min(free)
        m == mappages([free |-> free \ {f}, pd |-> pd[p], ok |-> TRUE, panic |-> FALSE],
                      a, f, TRUE)
        dies == m.panic \/ (f = NoFrame /\ 0 \notin Mapped(pd[p]))
    IN
    /\ p \in Alive
    /\ pd[p].pte[a] # NoPage => ~pd[p].pte[a].user
    /\ panicked' = dies
    /\ IF dies
       THEN UNCHANGED <<pd, free, mem, wiped>>
       ELSE /\ pd' = [pd EXCEPT ![p] = m.pd] /\ free' = m.free
            /\ mem' = Cleared(IF f # NoFrame THEN f ELSE pd[p].pte[0].frame)
            /\ wiped' = IF f # NoFrame THEN wiped ELSE wiped \cup {p}
    /\ UNCHANGED <<size, wrote, forks>>

\* fork(): the child gets a copy of what is below the parent's size.
fork(p, q) ==
    LET m == copyuvm(free, pd[p], size[p] * PGSIZE)
        source(a) == IF pd[p].pte[a].frame = NoFrame THEN pd[p].pte[0].frame ELSE pd[p].pte[a].frame
    IN
    /\ p \in Alive /\ q \notin Alive /\ forks < MaxForks
    /\ forks' = forks + 1
    /\ free' = m.free /\ panicked' = m.panic
    /\ IF m.ok /\ ~m.panic
       THEN /\ pd' = [pd EXCEPT ![q] = m.pd]
            /\ size' = [size EXCEPT ![q] = size[p]]
            /\ mem' = [f \in Frame |->
                         IF \E a \in Mapped(m.pd) : m.pd.pte[a].frame = f
                         THEN mem[source(CHOOSE a \in Mapped(m.pd) : m.pd.pte[a].frame = f)]
                         ELSE mem[f]]
            /\ wrote' = [wrote EXCEPT ![q] =
                           [a \in UserPage |-> IF a < size[p] THEN wrote[p][a] ELSE 0]]
            /\ wiped' = IF p \in wiped THEN wiped \cup {q} ELSE wiped \ {q}
       ELSE UNCHANGED <<pd, size, mem, wrote, wiped>>

\* exit() and the parent's wait(), whose freevm() takes everything back.
exit(p) ==
    LET m == freevm([free |-> free, pd |-> pd[p], ok |-> TRUE, panic |-> FALSE]) IN
    /\ p \in Alive
    /\ free' = m.free /\ panicked' = m.panic
    /\ pd' = [pd EXCEPT ![p] = NoTable]
    /\ size' = [size EXCEPT ![p] = 0]
    /\ wrote' = [wrote EXCEPT ![p] = [a \in UserPage |-> 0]]
    /\ wiped' = wiped \ {p}
    /\ UNCHANGED <<mem, forks>>

Next ==
    /\ ~panicked
    /\ \E p \in Proc :
          \/ \E n \in {-1, 1} : sys_sbrk(p, n)
          \/ \E a \in UserPage, v \in Val : Store(p, a, v)
          \/ \E a \in Page : trap(p, a)
          \/ \E q \in Proc : fork(p, q)
          \/ exit(p)

Spec == Init /\ [][Next]_vars

-----------------------------------------------------------------------------
TypeOK ==
    /\ free \subseteq Frame
    /\ size \in [Proc -> 0 .. KPAGE]
    /\ \A f \in Frame : mem[f] \in Val \cup {0, Text}
    /\ wiped \subseteq Proc /\ forks \in 0 .. MaxForks /\ panicked \in BOOLEAN

\* Although frames run out in the middle of a fault or of a fork(), no frame
\* has two uses.
OneUse ==
    /\ \A p \in Alive : FramesOf(pd[p]) \cap free = {}
    /\ \A p, q \in Alive : p # q => FramesOf(pd[p]) \cap FramesOf(pd[q]) \subseteq {NoFrame}
    /\ \A p \in Alive : \A a, b \in Mapped(pd[p]) :
          a # b /\ pd[p].pte[a].frame = pd[p].pte[b].frame => pd[p].pte[a].frame = NoFrame

\* A process finds in a page what it, or before the fork() its parent, last
\* wrote there, and zeroes otherwise: never what another process left in the
\* frame.  A fault without memory breaks this for its own first page only.
PagesArePrivate ==
    /\ TypeOK /\ OneUse
    /\ ~panicked =>
       \A p \in Alive \ wiped : \A a \in Mapped(pd[p]) : mem[pd[p].pte[a].frame] = wrote[p][a]

\* No page beyond the size of its process.
SizeIsKept == \A p \in Alive : \A a \in Mapped(pd[p]) : a < size[p]

\* Nothing a user program does stops the machine.
NoPanic == ~panicked

\* All frames are free once all processes have gone.
NothingLost == Alive = {} /\ ~panicked => free = Frame
=============================================================================
