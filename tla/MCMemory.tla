------------------------------ MODULE MCMemory ------------------------------
(***************************************************************************)
(* One run for Paging with three sets of operations, memories and disks.   *)
(* A behaviour is one of these systems, named by which.                    *)
(***************************************************************************)
EXTENDS Paging, TLC

CONSTANT OtherDisk   \* the disk pages of the instances with fewer

VARIABLE which

\* fork() and exit() with swapped pages, and memory enough for both processes.
Forking == INSTANCE Paging WITH
    NBOOT <- 1, NFRAME <- 10, Disk <- OtherDisk, MaxPages <- 3, NFILE <- 2,
    Ops <- {"fork", "exit", "swap"}

\* Forks that fail, faults on pages without a page table, and a TLB that keeps
\* entries.
Leaking == INSTANCE Paging WITH
    NBOOT <- 1, NFRAME <- 7, Disk <- OtherDisk, MaxPages <- 4, Far <- {3}, NFILE <- 2,
    Ops <- {"fork", "grow", "swap"}, TLB <- TRUE

-----------------------------------------------------------------------------
MemoryInit ==
    \/ which = "swap" /\ Init
    \/ which = "fork" /\ Forking!Init
    \/ which = "leak" /\ Leaking!Init

MemoryNext ==
    /\ which' = which
    /\ \/ which = "swap" /\ Next
       \/ which = "fork" /\ Forking!Next
       \/ which = "leak" /\ Leaking!Next

MemorySpec == MemoryInit /\ [][MemoryNext]_<<which, vars>>

\* The disk pages of an instance are interchangeable.
Symmetry == Permutations(Disk) \cup Permutations(OtherDisk)

-----------------------------------------------------------------------------
\* swap_page(), map_address(), copyuvm(), freevm(): every frame and disk page
\* has one owner, whether processes grow past the memory or fork and exit.
OneOwner ==
    /\ which = "swap" => EveryPageHasOneOwner
    /\ which = "fork" => Forking!EveryPageHasOneOwner

\* The same calls: memory keeps what was last written to it.
Kept ==
    /\ which = "swap" => TypeOK /\ MemoryKept
    /\ which = "fork" => Forking!TypeOK /\ Forking!MemoryKept

\* handle_pgfault(): a page fault ends with the page mapped, whatever has been
\* swapped out for it.
FaultsMap == [][which = "swap" => FaultEndsMapped]_vars

\* copyuvm() that fails half way, faults without a page table and stale TLB
\* entries lose frames, but give none to two owners.
NoneShared == which = "leak" => Leaking!TypeOK /\ Leaking!NoPageShared
=============================================================================
