------------------------------- MODULE Paging -------------------------------
(***************************************************************************)
(* Demand paging and swapping in Part_B (paging.c, vm.c, growproc() and    *)
(* sys_swap()): page faults, victims, the page copies of fork() and the    *)
(* frames and disk pages they use.                                         *)
(*                                                                         *)
(* The page tables of a process are only changed by the process itself,    *)
(* or by its parent before it runs and after it is dead; processes meet in *)
(* the free frames and the free disk pages.  A step ends where the code    *)
(* may sleep or where another CPU may take the last free frame.  A disk    *)
(* page is the eight blocks of balloc_page().  A process starts with the   *)
(* image that exec() gives a small program: text in page 0, the guard page *)
(* 1 and the stack in page 2.                                              *)
(***************************************************************************)
EXTENDS Integers, FiniteSets, FiniteSetsExt

CONSTANTS
    NPROC,     \* slots of the process table
    NBOOT,     \* the processes 1 .. NBOOT run at the start and never exit
    NFRAME,    \* physical frames that kalloc() hands out
    Disk,      \* disk pages
    Null,      \* a null pointer
    MaxPages,  \* the size that sbrk() is tried up to, in pages
    Far,       \* pages beyond the reach of the first page table
    NFILE,     \* struct file slots left to the swapper
    Ops,       \* what processes do besides touching their pages
    TLB,       \* whether the TLB may keep an entry until it is flushed
    ABit       \* whether PTE_A is followed: no step of the code depends on it

Proc   == 1 .. NPROC
Frame  == 1 .. NFRAME
Page   == 0 .. MaxPages - 1
Guard  == 1
Region == {"near", "far"}

ASSUME PagingAssumption ==
    /\ NBOOT \in 1 .. NPROC /\ NPROC \in Nat
    /\ NFRAME \in Nat /\ NFRAME >= 5 * NBOOT
    /\ IsFiniteSet(Disk) /\ Null \notin Frame \cup Disk /\ Frame \cap Disk = {}
    /\ MaxPages \in Nat /\ MaxPages >= 3
    /\ Far \subseteq 3 .. MaxPages - 1
    /\ NFILE \in Nat
    /\ Ops \subseteq {"fork", "exit", "swap", "grow", "guard"}
    /\ TLB \in BOOLEAN /\ ABit \in BOOLEAN

\* The contents of a page: zeroes, what kfree() leaves, or the number of the
\* process that wrote it last.
Zero == 0
Junk == -1

\* A page table entry: a frame with PTE_P, a disk page with PTE_SWAPPED, or
\* nothing; PTE_U and PTE_A.
Entry(f, u, a) == [at |-> f, u |-> u, a |-> a]
NoPte == Entry(Null, FALSE, FALSE)

\* What a process in the kernel is busy with: a fault, sys_swap(), or in
\* copyuvm() the page it reads in ("in") or copies ("copy").
NoJob == [what |-> "none", page |-> 0, child |-> 0, pte |-> NoPte,
          got |-> Null, victim |-> 0, disk |-> Null]

VARIABLES
    free, freedisk,   \* free frames and disk pages
    mem, disk,        \* the contents of frames and disk pages
    dir,              \* the frame of each page directory
    tab,              \* the frames of the page tables
    pte,              \* page table entries
    sz,               \* proc.sz, in pages
    stale,            \* frames that the TLB still gives for a page
    pc, job,          \* what each process is doing
    files,            \* struct file slots taken by createSwapFile()
    val,              \* what each process has last written to each page
    stopped           \* how the kernel has gone down

vars == <<free, freedisk, mem, disk, dir, tab, pte, sz, stale, pc, job, files,
          val, stopped>>

Regn(v) == IF v \in Far THEN "far" ELSE "near"

Present(p, v) == pte[p][v].at \in Frame
Swapped(p, v) == pte[p][v].at \in Disk

NoStale == [v \in Page |-> Null]

\* The frames of a booted process: its directory, its page table, its image.
Boot(p, i) == IF p <= NBOOT THEN 5 * (p - 1) + i ELSE Null

Init ==
    /\ free = 5 * NBOOT + 1 .. NFRAME
    /\ freedisk = Disk
    /\ mem = [f \in Frame |-> IF f \in free THEN Junk ELSE Zero]
    /\ disk = [d \in Disk |-> Zero]
    /\ dir = [p \in Proc |-> Boot(p, 1)]
    /\ tab = [p \in Proc |->
                 [r \in Region |-> IF r = "near" THEN Boot(p, 2) ELSE Null]]
    /\ pte = [p \in Proc |-> [v \in Page |->
                 IF p <= NBOOT /\ v <= 2
                 THEN Entry(Boot(p, v + 3), v # Guard, FALSE) ELSE NoPte]]
    /\ sz = [p \in Proc |-> IF p <= NBOOT THEN 3 ELSE 0]
    /\ stale = [p \in Proc |-> NoStale]
    /\ pc = [p \in Proc |-> IF p <= NBOOT THEN "user" ELSE "unused"]
    /\ job = [p \in Proc |-> NoJob]
    /\ files = 0
    /\ val = [p \in Proc |-> [v \in Page |-> Zero]]
    /\ stopped = "no"

-----------------------------------------------------------------------------
(* The steps of a process p in state l that leaves the kernel up.          *)

At(p, l) == stopped = "no" /\ pc[p] = l
goto(p, l) == pc' = [pc EXCEPT ![p] = l]

\* panic(), or the use of a null pointer, after which nothing is defined.
Stop(how) ==
    /\ stopped' = how
    /\ UNCHANGED <<free, freedisk, mem, disk, dir, tab, pte, sz, stale, pc,
                   job, files, val>>

\* kalloc(): which free frame it takes makes no difference.
NextFree == Min(free)

Back(p) ==
    /\ job' = [job EXCEPT ![p] = NoJob]
    /\ goto(p, "user")

-----------------------------------------------------------------------------
(* User mode.                                                              *)

\* Pages a process touches: its own, the guard page only by mistake.
Touchable(p) == {v \in 0 .. sz[p] - 1 : v # Guard \/ "guard" \in Ops}

\* A load or a store that the page tables, or the TLB, let through.
Touch(p, v, write) ==
    LET hit == stale[p][v] # Null
        f   == IF hit THEN stale[p][v] ELSE pte[p][v].at IN
    /\ At(p, "user")
    /\ hit \/ (Present(p, v) /\ pte[p][v].u)
    /\ pte' = IF hit THEN pte ELSE [pte EXCEPT ![p][v].a = ABit]
    /\ IF write THEN /\ mem' = [mem EXCEPT ![f] = p]
                     /\ val' = [val EXCEPT ![p][v] = p]
                ELSE UNCHANGED <<mem, val>>
    /\ UNCHANGED <<free, freedisk, disk, dir, tab, sz, stale, pc, job, files,
                   stopped>>

\* Any other access enters handle_pgfault().
handle_pgfault(p, v) ==
    /\ At(p, "user")
    /\ stale[p][v] = Null /\ ~(Present(p, v) /\ pte[p][v].u)
    /\ job' = [job EXCEPT ![p] = [NoJob EXCEPT !.what = "fault", !.page = v]]
    /\ goto(p, "kalloc")
    /\ UNCHANGED <<free, freedisk, mem, disk, dir, tab, pte, sz, stale, files,
                   val, stopped>>

\* A context switch reloads %cr3 and with it flushes the TLB.
switchuvm(p) ==
    /\ At(p, "user") /\ stale[p] # NoStale
    /\ stale' = [stale EXCEPT ![p] = NoStale]
    /\ UNCHANGED <<free, freedisk, mem, disk, dir, tab, pte, sz, pc, job,
                   files, val, stopped>>

\* growproc(): the size grows, no page is mapped.
sbrk(p) ==
    /\ At(p, "user") /\ "grow" \in Ops /\ sz[p] < MaxPages
    /\ sz' = [sz EXCEPT ![p] = @ + 1]
    /\ UNCHANGED <<free, freedisk, mem, disk, dir, tab, pte, stale, pc, job,
                   files, val, stopped>>

-----------------------------------------------------------------------------
(* Getting a frame: kalloc(), and when there is none swap_page().          *)

kalloc(p) ==
    /\ At(p, "kalloc")
    /\ IF free # {}
       THEN /\ free' = free \ {NextFree}
            /\ job' = [job EXCEPT ![p].got = NextFree]
            /\ goto(p, "have")
       ELSE goto(p, "victim") /\ UNCHANGED <<free, job>>
    /\ UNCHANGED <<freedisk, mem, disk, dir, tab, pte, sz, stale, files, val,
                   stopped>>

\* The pages that select_a_victim() may return: any mapped page but page 0,
\* for *pte & ~PTE_A is never zero.
select_a_victim(p) == {v \in Page \ {0} : Present(p, v)}

\* swap_page() up to the disk page that balloc_page() gives it. A second
\* search finds no more than the first, for clearaccessbit() clears nothing.
swap_page(p) ==
    LET found == select_a_victim(p) IN
    /\ At(p, "victim")
    /\ IF found = {} THEN Stop("null pte")
       ELSE IF freedisk = {} THEN Stop("balloc: out of blocks")
       ELSE \E d \in freedisk :
               /\ freedisk' = freedisk \ {d}
               /\ job' = [job EXCEPT ![p].victim = Min(found), ![p].disk = d]
               /\ goto(p, "write")
               /\ UNCHANGED <<free, mem, disk, dir, tab, pte, sz, stale, files,
                              val, stopped>>

\* What write_page_to_disk() writes.
Written(f) == mem[f]

\* Mutant: the page table entry is left as it was.
Evicted_not(p, v) == pte[p][v]

\* The entry of a page that has been swapped: PTE_P and PTE_U are gone.
Evicted(p, v) == Entry(job[p].disk, FALSE, FALSE)

\* swap_page() flushes the TLB with lcr3(), sys_swap() does not.
Flushed(p) == job[p].what # "swap"

\* The rest of swap_page_from_pte(): createSwapFile() takes a struct file that
\* nobody closes, the page is written, its entry changed and its frame freed.
swap_page_from_pte(p) ==
    LET v == job[p].victim
        f == pte[p][v].at IN
    /\ At(p, "write")
    /\ IF files = NFILE THEN Stop("no slot for files on store")
       ELSE /\ files' = files + 1
            /\ disk' = [disk EXCEPT ![job[p].disk] = Written(f)]
            /\ pte' = [pte EXCEPT ![p][v] = Evicted(p, v)]
            /\ free' = free \cup {f}
            /\ mem' = [mem EXCEPT ![f] = Junk]
            /\ IF Flushed(p)
               THEN stale' = [stale EXCEPT ![p] = NoStale]
               ELSE \E kept \in {Null} \cup
                       IF TLB /\ pte[p][v].u THEN {f} ELSE {} :
                       stale' = [stale EXCEPT ![p][v] = kept]
            /\ IF job[p].what = "swap" THEN Back(p)
               ELSE /\ job' = [job EXCEPT ![p].victim = 0, ![p].disk = Null]
                    /\ goto(p, "again")
            /\ UNCHANGED <<freedisk, dir, tab, sz, val, stopped>>

\* The second kalloc() is not checked.
kalloc_again(p) ==
    /\ At(p, "again")
    /\ IF free = {} THEN Stop("null frame")
       ELSE /\ free' = free \ {NextFree}
            /\ job' = [job EXCEPT ![p].got = NextFree]
            /\ goto(p, "have")
            /\ UNCHANGED <<freedisk, mem, disk, dir, tab, pte, sz, stale,
                           files, val, stopped>>

\* sys_swap(): walkpgdir() makes a page table when there is none.
sys_swap(p, v) ==
    /\ At(p, "user") /\ "swap" \in Ops
    /\ IF tab[p][Regn(v)] = Null
       THEN IF free = {} THEN Stop("null pte")
            ELSE /\ free' = free \ {NextFree}
                 /\ tab' = [tab EXCEPT ![p][Regn(v)] = NextFree]
                 /\ UNCHANGED <<freedisk, mem, disk, dir, pte, sz, stale, pc,
                                job, files, val, stopped>>
       ELSE /\ Present(p, v)
            /\ IF freedisk = {} THEN Stop("balloc: out of blocks")
               ELSE \E d \in freedisk :
                  /\ freedisk' = freedisk \ {d}
                  /\ job' = [job EXCEPT ![p] =
                       [NoJob EXCEPT !.what = "swap", !.victim = v, !.disk = d]]
                  /\ goto(p, "write")
                  /\ UNCHANGED <<free, mem, disk, dir, tab, pte, sz, stale,
                                 files, val, stopped>>

-----------------------------------------------------------------------------
(* The rest of map_address().                                              *)

\* Mutant: PTE_U is forgotten.
ReadIn_kernel(p, v) ==
    LET f == job[p].got IN
    /\ mem' = [mem EXCEPT ![f] = disk[pte[p][v].at]]
    /\ pte' = [pte EXCEPT ![p][v] = Entry(f, FALSE, FALSE)]
    /\ stale' = [stale EXCEPT ![p] = NoStale]
    /\ freedisk' = freedisk \cup {pte[p][v].at}

\* read_page_from_disk(), the new entry, lcr3() and bfree_page().
ReadIn(p, v) ==
    LET f == job[p].got IN
    /\ mem' = [mem EXCEPT ![f] = disk[pte[p][v].at]]
    /\ pte' = [pte EXCEPT ![p][v] = Entry(f, TRUE, FALSE)]
    /\ stale' = [stale EXCEPT ![p] = NoStale]
    /\ freedisk' = freedisk \cup {pte[p][v].at}

\* The page has no entry, as its page table does not exist.
map_nothing(p) ==
    LET v == job[p].page IN
    /\ At(p, "have") /\ job[p].what = "fault"
    /\ tab[p][Regn(v)] = Null
    /\ Back(p)
    /\ UNCHANGED <<free, freedisk, mem, disk, dir, tab, pte, sz, stale, files,
                   val, stopped>>

map_swapped(p) ==
    LET v == job[p].page IN
    /\ At(p, "have") /\ job[p].what = "fault"
    /\ tab[p][Regn(v)] # Null /\ Swapped(p, v)
    /\ ReadIn(p, v)
    /\ Back(p)
    /\ UNCHANGED <<free, disk, dir, tab, sz, files, val, stopped>>

\* Any other page is mapped to zeroes, whatever its entry was.
map_zeroed(p) ==
    LET v == job[p].page
        f == job[p].got IN
    /\ At(p, "have") /\ job[p].what = "fault"
    /\ tab[p][Regn(v)] # Null /\ ~Swapped(p, v)
    /\ mem' = [mem EXCEPT ![f] = Zero]
    /\ pte' = [pte EXCEPT ![p][v] = Entry(f, TRUE, FALSE)]
    /\ Back(p)
    /\ UNCHANGED <<free, freedisk, disk, dir, tab, sz, stale, files, val,
                   stopped>>

-----------------------------------------------------------------------------
(* fork() and copyuvm(); exit() with the freevm() of wait().               *)

\* Mutant: a swapped page is forgotten.
freevm_present(q) ==
    /\ free' = free \cup {f \in Frame :
                  \/ dir[q] = f \/ \E r \in Region : tab[q][r] = f
                  \/ \E v \in Page : pte[q][v].at = f}
    /\ mem' = [f \in Frame |-> IF f \in free' \ free THEN Junk ELSE mem[f]]
    /\ UNCHANGED freedisk
    /\ dir' = [dir EXCEPT ![q] = Null]
    /\ tab' = [tab EXCEPT ![q] = [r \in Region |-> Null]]
    /\ pte' = [pte EXCEPT ![q] = [v \in Page |-> NoPte]]

\* freevm(): whatever the tables of q hold is free again, in one step, as
\* nobody else uses it and a later kalloc() only finds more.
freevm(q) ==
    /\ free' = free \cup {f \in Frame :
                  \/ dir[q] = f \/ \E r \in Region : tab[q][r] = f
                  \/ \E v \in Page : pte[q][v].at = f}
    /\ mem' = [f \in Frame |-> IF f \in free' \ free THEN Junk ELSE mem[f]]
    /\ freedisk' = freedisk \cup {d \in Disk : \E v \in Page : pte[q][v].at = d}
    /\ dir' = [dir EXCEPT ![q] = Null]
    /\ tab' = [tab EXCEPT ![q] = [r \in Region |-> Null]]
    /\ pte' = [pte EXCEPT ![q] = [v \in Page |-> NoPte]]

\* setupkvm() in copyuvm(): without a frame for the directory fork() fails.
fork(p, q) ==
    /\ At(p, "user") /\ "fork" \in Ops
    /\ pc[q] = "unused" /\ free # {}
    /\ free' = free \ {NextFree}
    /\ dir' = [dir EXCEPT ![q] = NextFree]
    /\ pc' = [pc EXCEPT ![p] = "copy", ![q] = "embryo"]
    /\ job' = [job EXCEPT ![p] = [NoJob EXCEPT !.child = q]]
    /\ UNCHANGED <<freedisk, mem, disk, tab, pte, sz, stale, files, val,
                   stopped>>

\* The head of copyuvm()'s loop: what is to be copied is looked up before the
\* frame for the copy is allocated.
copyuvm(p) ==
    LET v == job[p].page IN
    /\ At(p, "copy") /\ v < sz[p]
    /\ IF tab[p][Regn(v)] = Null THEN Stop("copyuvm: pte should exist")
       ELSE /\ job' = [job EXCEPT ![p].what = IF Swapped(p, v) THEN "in" ELSE "copy",
                                  ![p].pte = pte[p][v]]
            /\ goto(p, "kalloc")
            /\ UNCHANGED <<free, freedisk, mem, disk, dir, tab, pte, sz, stale,
                           files, val, stopped>>

copy_in(p) ==
    /\ At(p, "have") /\ job[p].what = "in"
    /\ ReadIn(p, job[p].page)
    /\ job' = [job EXCEPT ![p].got = Null]
    /\ goto(p, "copy")
    /\ UNCHANGED <<free, disk, dir, tab, sz, files, val, stopped>>

\* Mutant: the child gets the parent's frame.
CopyTo_same(p) == job[p].pte.at

\* The frame for the child's page.
CopyTo(p) == job[p].got

\* memmove() and mappages() for the child. A page that was never mapped has
\* the address 0 in its entry: the copy is of whatever is in frame 0.
copy_page(p) ==
    LET v == job[p].page
        q == job[p].child
        e == job[p].pte
        f == CopyTo(p)
        table == tab[q][Regn(v)]
        data == IF e.at = Null THEN Junk ELSE mem[e.at] IN
    /\ At(p, "have") /\ job[p].what = "copy"
    /\ table # Null \/ free # {}
    /\ mem' = [mem EXCEPT ![f] = data]
    /\ pte' = [pte EXCEPT ![q][v] = Entry(f, e.u, e.a)]
    /\ IF table = Null
       THEN free' = free \ {NextFree} /\ tab' = [tab EXCEPT ![q][Regn(v)] = NextFree]
       ELSE UNCHANGED <<free, tab>>
    /\ job' = [job EXCEPT ![p] = [NoJob EXCEPT !.child = q, !.page = v + 1]]
    /\ goto(p, "copy")
    /\ UNCHANGED <<freedisk, disk, dir, sz, stale, files, val, stopped>>

\* mappages() finds no frame for a page table: the child is given up.
copy_fails(p) ==
    LET q == job[p].child IN
    /\ At(p, "have") /\ job[p].what = "copy"
    /\ tab[q][Regn(job[p].page)] = Null /\ free = {}
    /\ freevm(q)
    /\ job' = [job EXCEPT ![p] = NoJob]
    /\ pc' = [pc EXCEPT ![p] = "user", ![q] = "unused"]
    /\ UNCHANGED <<disk, sz, stale, files, val, stopped>>

fork_done(p) ==
    LET q == job[p].child IN
    /\ At(p, "copy") /\ job[p].page = sz[p]
    /\ sz' = [sz EXCEPT ![q] = sz[p]]
    /\ val' = [val EXCEPT ![q] = val[p]]
    /\ job' = [job EXCEPT ![p] = NoJob]
    /\ pc' = [pc EXCEPT ![p] = "user", ![q] = "user"]
    /\ UNCHANGED <<free, freedisk, mem, disk, dir, tab, pte, stale, files,
                   stopped>>

exit(p) ==
    /\ At(p, "user") /\ "exit" \in Ops /\ p > NBOOT
    /\ freevm(p)
    /\ sz' = [sz EXCEPT ![p] = 0]
    /\ stale' = [stale EXCEPT ![p] = NoStale]
    /\ val' = [val EXCEPT ![p] = [v \in Page |-> Zero]]
    /\ goto(p, "unused")
    /\ UNCHANGED <<disk, job, files, stopped>>

-----------------------------------------------------------------------------
Stopped == stopped # "no" /\ UNCHANGED vars

Next ==
    \/ \E p \in Proc :
          \/ \E v \in Touchable(p) :
                \/ \E write \in BOOLEAN : Touch(p, v, write)
                \/ handle_pgfault(p, v)
          \/ \E v \in Page : sys_swap(p, v)
          \/ \E q \in Proc : fork(p, q)
          \/ switchuvm(p) \/ sbrk(p) \/ exit(p)
          \/ kalloc(p) \/ swap_page(p) \/ swap_page_from_pte(p)
          \/ kalloc_again(p)
          \/ map_nothing(p) \/ map_swapped(p) \/ map_zeroed(p)
          \/ copyuvm(p) \/ copy_in(p) \/ copy_page(p) \/ copy_fails(p)
          \/ fork_done(p)
    \/ Stopped

Spec == Init /\ [][Next]_vars

-----------------------------------------------------------------------------
PC == {"unused", "embryo", "user", "kalloc", "victim", "write", "again",
       "have", "copy"}

Pte == [at : Frame \cup Disk \cup {Null}, u : BOOLEAN, a : BOOLEAN]

Data == {Zero, Junk} \cup Proc

Why == {"no", "null pte", "null frame", "no slot for files on store",
        "balloc: out of blocks", "copyuvm: pte should exist"}

TypeOK ==
    /\ free \subseteq Frame /\ freedisk \subseteq Disk
    /\ mem \in [Frame -> Data] /\ disk \in [Disk -> Data]
    /\ dir \in [Proc -> Frame \cup {Null}]
    /\ tab \in [Proc -> [Region -> Frame \cup {Null}]]
    /\ pte \in [Proc -> [Page -> Pte]]
    /\ sz \in [Proc -> 0 .. MaxPages]
    /\ stale \in [Proc -> [Page -> Frame \cup {Null}]]
    /\ pc \in [Proc -> PC]
    /\ job \in [Proc ->
          [what : {"none", "fault", "swap", "in", "copy"}, page : 0 .. MaxPages,
           child : 0 .. NPROC, pte : Pte, got : Frame \cup {Null},
           victim : Page, disk : Disk \cup {Null}]]
    /\ files \in 0 .. NFILE
    /\ val \in [Proc -> [Page -> Data]]
    /\ stopped \in Why

\* How many owners a frame and a disk page have: the free list, the tables of
\* the processes, the kernel's local variables.
FrameOwners(f) ==
    (IF f \in free THEN 1 ELSE 0)
      + Cardinality({p \in Proc : dir[p] = f})
      + Cardinality({x \in Proc \X Region : tab[x[1]][x[2]] = f})
      + Cardinality({x \in Proc \X Page : pte[x[1]][x[2]].at = f})
      + Cardinality({p \in Proc : job[p].got = f})

DiskOwners(d) ==
    (IF d \in freedisk THEN 1 ELSE 0)
      + Cardinality({x \in Proc \X Page : pte[x[1]][x[2]].at = d})
      + Cardinality({p \in Proc : job[p].disk = d})

\* No frame and no disk page has two owners, whatever was swapped, copied and
\* freed in whatever order and whichever calls failed half way.
NoPageShared ==
    /\ \A f \in Frame : FrameOwners(f) <= 1
    /\ \A d \in Disk : DiskOwners(d) <= 1

\* No frame and no disk page is shared or lost.
EveryPageHasOneOwner ==
    /\ \A f \in Frame : FrameOwners(f) = 1
    /\ \A d \in Disk : DiskOwners(d) = 1

\* What p would find in page v: memory that is not mapped for it reads as zero.
Found(p, v) ==
    IF stale[p][v] # Null THEN mem[stale[p][v]]
    ELSE IF Swapped(p, v) THEN disk[pte[p][v].at]
    ELSE IF Present(p, v) /\ pte[p][v].u THEN mem[pte[p][v].at]
    ELSE Zero

\* Every process finds in its memory what it has written there or had from
\* its parent, wherever the page has been in between.
MemoryKept ==
    \A p \in Proc : pc[p] \notin {"unused", "embryo"} /\ stopped = "no" =>
       \A v \in 0 .. sz[p] - 1 : Found(p, v) = val[p][v]

\* A page fault ends with the page mapped.
FaultEndsMapped ==
    \A p \in Proc : job[p].what = "fault" /\ pc'[p] = "user" =>
       LET e == pte'[p][job[p].page] IN e.at \in Frame /\ e.u
FaultMaps == [][FaultEndsMapped]_vars

\* The guard page below the stack stays out of the user's reach.
GuardHolds ==
    \A p \in Proc : Present(p, Guard) => ~pte[p][Guard].u

\* select_a_victim() returns a page that has not been accessed.
VictimNotAccessed ==
    [][\A p \in Proc : pc[p] = "victim" /\ pc'[p] = "write" =>
          ~pte[p][job'[p].victim].a]_vars

\* The kalloc() after swap_page() gets the frame that has been freed.
FrameAfterSwap == stopped # "null frame"

\* createSwapFile() finds a file slot.
SwapFileFound == stopped # "no slot for files on store"

\* Every page below sz has a page table for copyuvm() to find.
PteExists == stopped # "copyuvm: pte should exist"
=============================================================================
