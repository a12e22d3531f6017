----------------------------- MODULE AtomicDisk -----------------------------
(***************************************************************************)
(* What the write-ahead log of Part_B/log.c promises the file system: the  *)
(* updates made between begin_op() and end_op() reach the disk in groups   *)
(* of whole operations, and a crash falls back to the last group.          *)
(***************************************************************************)
CONSTANTS Proc, Block, Val

VARIABLES
    mem,       \* the contents of the blocks as the running system sees them
    durable,   \* the contents a crash falls back to
    active     \* the processes between begin_op() and end_op()

avars == <<mem, durable, active>>

AInit ==
    /\ mem \in [Block -> Val]
    /\ durable = mem
    /\ active = {}

Begin(p) ==
    /\ p \notin active
    /\ active' = active \cup {p}
    /\ UNCHANGED <<mem, durable>>

Update(p, b) ==
    /\ p \in active
    /\ \E v \in Val : mem' = [mem EXCEPT ![b] = v]
    /\ UNCHANGED <<durable, active>>

End(p) ==
    /\ p \in active
    /\ active' = active \ {p}
    /\ UNCHANGED <<mem, durable>>

\* Every finished operation becomes durable at once, and no unfinished one.
Sync ==
    /\ active = {}
    /\ durable' = mem
    /\ UNCHANGED <<mem, active>>

Crash ==
    /\ mem' = durable
    /\ active' = {}
    /\ UNCHANGED durable

ANext ==
    \/ \E p \in Proc : Begin(p) \/ End(p) \/ \E b \in Block : Update(p, b)
    \/ Sync
    \/ Crash

ASpec == AInit /\ [][ANext]_avars
=============================================================================
