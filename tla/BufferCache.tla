---------------------------- MODULE BufferCache ----------------------------
(***************************************************************************)
(* The buffer cache of Part_B (bio.c), the sleep locks of its buffers      *)
(* (sleeplock.c) and the memory disk below it (memide.c).  The log above   *)
(* is what the cache sees of log.c: writers that leave a buffer dirty,     *)
(* and commits that write the dirty buffers once no writer is left.        *)
(*                                                                         *)
(* What runs under bcache.lock or under the spin lock of a sleep lock is   *)
(* one step.                                                               *)
(***************************************************************************)
EXTENDS Integers, Sequences, FiniteSets, SequencesExt

CONSTANTS
    Proc, Block, Buf,  \* processes, blocks, and the buffers that cache them
    Kinds,             \* what processes do: "read", "write", "page", "log"
    LogRoom            \* how many dirty buffers the log may pin

None == "none"
Val  == {0, 1}         \* contents of a block

\* What the proofs assume of the constants.
CacheAssumption ==
    /\ IsFiniteSet(Proc) /\ IsFiniteSet(Buf)
    /\ None \notin Proc \cup Block \cup Buf

VARIABLES
    disk,              \* contents of each block
    buf,               \* bcache.buf
    mru,               \* bcache.head's list, most recently used first
    pc, op, blk, at,   \* of each process: where it is, what it does, the
                       \* block it wants and the buffer it has a pointer to
    committing,        \* the process in commit()
    latest             \* the last contents given to each block, history only

vars == <<disk, buf, mru, pc, op, blk, at, committing, latest>>
procvars == <<op, blk, at>>

\* binit(): the buffers are on the list, caching nothing.
binit ==
    /\ buf = [i \in Buf |-> [block |-> None, valid |-> FALSE, dirty |-> FALSE,
                         data |-> 0, refcnt |-> 0, locked |-> None]]
    /\ mru = SetToSeq(Buf)

Init ==
    /\ disk = [b \in Block |-> 0] /\ latest = disk
    /\ binit
    /\ pc = [p \in Proc |-> "idle"] /\ op = [p \in Proc |-> None]
    /\ blk = [p \in Proc |-> None] /\ at = [p \in Proc |-> None]
    /\ committing = None

goto(p, l) == pc' = [pc EXCEPT ![p] = l]

-----------------------------------------------------------------------------
(* What the processes are about to do.                                     *)

Dirty   == {i \in Buf : buf[i].dirty}
Loggers == {p \in Proc : op[p] = "log"}

\* begin_op() for the calls that log what they write, and no waiting for the
\* others.
Start(p, k, b) ==
    /\ pc[p] = "idle" /\ op[p] = None /\ k \in Kinds
    /\ k = "log" => committing = None /\ Cardinality(Dirty) + Cardinality(Loggers) < LogRoom
    /\ op' = [op EXCEPT ![p] = k] /\ blk' = [blk EXCEPT ![p] = b]
    /\ goto(p, "get")
    /\ UNCHANGED <<disk, buf, mru, at, committing, latest>>

\* The last end_op() installs what is dirty, one block after the other.
Commit(p) ==
    /\ op[p] \in {None, "install"} /\ pc[p] = "idle"
    /\ Loggers = {} /\ committing \in {None, p}
    /\ IF Dirty = {}
       THEN /\ committing = p /\ committing' = None
            /\ op' = [op EXCEPT ![p] = None]
            /\ UNCHANGED <<blk, pc>>
       ELSE /\ committing' = p
            /\ op' = [op EXCEPT ![p] = "install"]
            /\ \E i \in Dirty : blk' = [blk EXCEPT ![p] = buf[i].block]
            /\ goto(p, "get")
    /\ UNCHANGED <<disk, buf, mru, at, latest>>

-----------------------------------------------------------------------------
(* bio.c                                                                   *)

\* Mutant: a buffer is recycled as soon as nobody refers to it.
Unused_dirty(i) == buf[i].refcnt = 0

\* bget() may recycle the buffer: even without references a dirty one is in
\* use by the log.
Unused(i) == buf[i].refcnt = 0 /\ ~buf[i].dirty

\* The least recently used of the buffers that are not in use, if there is one.
Recycled == {i \in Buf : \E n \in DOMAIN mru :
    i = mru[n] /\ Unused(i) /\ \A m \in n + 1 .. Len(mru) : ~Unused(mru[m])}

\* Both loops of bget() under bcache.lock.
bget(p) ==
    LET hits == {i \in Buf : buf[i].block = blk[p]} IN
    /\ pc[p] = "get"
    /\ \/ /\ hits # {}
          /\ \E i \in hits : /\ buf' = [buf EXCEPT ![i].refcnt = @ + 1]
                             /\ at' = [at EXCEPT ![p] = i]
          /\ goto(p, "lock")
       \/ /\ hits = {}
          /\ \E i \in Recycled :
             /\ buf' = [buf EXCEPT ![i].block = blk[p], ![i].valid = FALSE,
                                   ![i].dirty = FALSE, ![i].refcnt = 1]
             /\ at' = [at EXCEPT ![p] = i]
          /\ goto(p, "lock")
       \/ hits = {} /\ Recycled = {} /\ goto(p, "panic") /\ UNCHANGED <<buf, at>>
    /\ UNCHANGED <<disk, mru, op, blk, committing, latest>>

\* One turn of the loop of acquiresleep().
acquiresleep(p) ==
    /\ pc[p] = "lock"
    /\ IF buf[at[p]].locked # None
       THEN goto(p, "asleep") /\ UNCHANGED buf
       ELSE goto(p, "have") /\ buf' = [buf EXCEPT ![at[p]].locked = p]
    /\ UNCHANGED <<disk, mru, procvars, committing, latest>>

\* memide.c: a dirty buffer is written, another is read.
iderw(b, i) ==
    IF buf[i].dirty
    THEN /\ disk' = [disk EXCEPT ![b] = buf[i].data]
         /\ buf' = [buf EXCEPT ![i].dirty = FALSE, ![i].valid = TRUE]
    ELSE /\ buf' = [buf EXCEPT ![i].data = disk[b], ![i].valid = TRUE]
         /\ UNCHANGED disk

\* bread() reads the disk unless the buffer holds the block; the pages of
\* write_page_to_disk() take the buffer as it is.
bread(p) ==
    /\ pc[p] = "have"
    /\ IF op[p] = "page" \/ buf[at[p]].valid
       THEN UNCHANGED <<buf, disk>>
       ELSE iderw(blk[p], at[p])
    /\ goto(p, "use")
    /\ UNCHANGED <<mru, procvars, committing, latest>>

\* What the process does with the locked buffer: read it, change it and write
\* it, change it and log it, or install what the log holds.
use(p) ==
    /\ pc[p] = "use"
    /\ \/ op[p] = "read" /\ goto(p, "release") /\ UNCHANGED <<buf, latest>>
       \/ op[p] = "install" /\ goto(p, "sync") /\ UNCHANGED <<buf, latest>>
       \/ \E v \in Val :
             /\ op[p] \in {"write", "page", "log"}
             /\ buf' = [buf EXCEPT ![at[p]].data = v,
                                   ![at[p]].dirty = @ \/ op[p] = "log"]
             /\ latest' = [latest EXCEPT ![blk[p]] = v]
             /\ goto(p, CASE op[p] = "log" -> "release" [] op[p] = "write" -> "sync"
                          [] OTHER -> "begin")
    /\ UNCHANGED <<disk, mru, procvars, committing>>

\* filewrite() in write_page_to_disk(), with the buffer locked: its begin_op()
\* waits for a commit.
begin_op(p) ==
    /\ pc[p] = "begin" /\ committing = None
    /\ goto(p, "sync")
    /\ UNCHANGED <<disk, buf, mru, procvars, committing, latest>>

\* bwrite() marks the buffer dirty and has iderw() write it.
bwrite(p) ==
    /\ pc[p] = "sync"
    /\ disk' = [disk EXCEPT ![blk[p]] = buf[at[p]].data]
    /\ buf' = [buf EXCEPT ![at[p]].dirty = FALSE, ![at[p]].valid = TRUE]
    /\ goto(p, "release")
    /\ UNCHANGED <<mru, procvars, committing, latest>>

\* brelse() lets the sleep lock go and wakes who waits for it.
releasesleep(p) ==
    /\ pc[p] = "release"
    /\ buf' = [buf EXCEPT ![at[p]].locked = None]
    /\ pc' = [q \in Proc |-> IF q = p THEN "drop"
                             ELSE IF pc[q] = "asleep" /\ at[q] = at[p] THEN "lock"
                             ELSE pc[q]]
    /\ UNCHANGED <<disk, mru, procvars, committing, latest>>

\* The list with buffer i moved to the front.
MovedToFront(i) ==
    LET n == CHOOSE n \in DOMAIN mru : mru[n] = i
    IN [m \in DOMAIN mru |-> IF m = 1 THEN i ELSE IF m <= n THEN mru[m - 1] ELSE mru[m]]

\* The rest of brelse(), under bcache.lock: an unused buffer becomes the most
\* recently used.
brelse(p) ==
    /\ pc[p] = "drop"
    /\ buf' = [buf EXCEPT ![at[p]].refcnt = @ - 1]
    /\ mru' = IF buf[at[p]].refcnt = 1 THEN MovedToFront(at[p]) ELSE mru
    /\ at' = [at EXCEPT ![p] = None] /\ blk' = [blk EXCEPT ![p] = None]
    /\ op' = [op EXCEPT ![p] = IF @ = "install" THEN @ ELSE None]
    /\ goto(p, "idle")
    /\ UNCHANGED <<disk, committing, latest>>

Next == \E p \in Proc :
    \/ \E k \in Kinds, b \in Block : Start(p, k, b)
    \/ Commit(p) \/ bget(p) \/ acquiresleep(p) \/ bread(p) \/ use(p)
    \/ begin_op(p) \/ bwrite(p) \/ releasesleep(p) \/ brelse(p)

Spec == Init /\ [][Next]_vars

-----------------------------------------------------------------------------
Buffer == [block : Block \cup {None}, valid : BOOLEAN, dirty : BOOLEAN,
           data : Val, refcnt : Nat, locked : Proc \cup {None}]

TypeOK ==
    /\ disk \in [Block -> Val] /\ latest \in [Block -> Val]
    /\ buf \in [Buf -> Buffer]
    /\ mru \in Seq(Buf) /\ ToSet(mru) = Buf /\ Len(mru) = Cardinality(Buf)
    /\ at \in [Proc -> Buf \cup {None}] /\ blk \in [Proc -> Block \cup {None}]
    /\ committing \in Proc \cup {None}

\* The processes that have a pointer to the buffer.
Users(i) == {p \in Proc : at[p] = i}

\* A buffer belongs to the block for as long as a process has a pointer to it,
\* no block has two, and references are counted: bget() and brelse().
Owned ==
    /\ \A i, j \in Buf : buf[i].block = buf[j].block /\ i # j => buf[i].block = None
    /\ \A i \in Buf : buf[i].refcnt = Cardinality(Users(i))
    /\ \A p \in Proc : at[p] # None => buf[at[p]].block = blk[p]

\* A process has a pointer to a buffer from bget() until brelse(), and has that
\* buffer locked between acquiresleep() and releasesleep().
Locked  == {"have", "use", "begin", "sync", "release"}
Pointed == Locked \cup {"lock", "asleep", "drop"}
Calls ==
    /\ pc \in [Proc -> Pointed \cup {"idle", "get", "panic"}]
    /\ op \in [Proc -> Kinds \cup {None, "install"}]
    /\ \A p \in Proc : at[p] # None <=> pc[p] \in Pointed
    /\ \A p \in Proc : pc[p] # "idle" => blk[p] # None
    /\ \A p \in Proc, i \in Buf :
          buf[i].locked = p <=> at[p] = i /\ pc[p] \in Locked

\* Buffer i has been changed and is still to be written.
Written(i) ==
    buf[i].dirty \/ \E p \in Proc : at[p] = i /\ pc[p] \in {"begin", "sync"}

\* A buffer that is valid, or about to be written, holds its block's last
\* contents, and the disk does unless there is such a buffer to write.
Contents ==
    /\ \A i \in Buf : buf[i].dirty => buf[i].valid
    /\ \A i \in Buf : buf[i].valid =>
          buf[i].block # None /\ buf[i].data = latest[buf[i].block]
    /\ \A p \in Proc : pc[p] = "use" /\ op[p] # "page" => buf[at[p]].valid
    /\ \A p \in Proc : pc[p] \in {"begin", "sync"} => buf[at[p]].data = latest[blk[p]]
    /\ \A b \in Block : disk[b] = latest[b] \/ \E i \in Buf : buf[i].block = b /\ Written(i)

CacheInv == TypeOK /\ Owned /\ Calls /\ Contents

\* Who has a block locked sees what was last written to it by anybody,
\* although buffers are recycled, pinned, and written around the log
\* (bio.c:3-6 "a synchronization point for disk blocks").
CacheCoherent ==
    /\ TypeOK /\ Owned
    /\ \A p \in Proc : pc[p] = "use" /\ op[p] # "page" => buf[at[p]].data = latest[blk[p]]

\* Everything but a panic goes on.  A page that is being written while the log
\* commits the block's previous contents stops both for good.
NoDeadlock == (\A p \in Proc : pc[p] # "panic") => ENABLED Next

\* There is a buffer to recycle.
NoPanic == \A p \in Proc : pc[p] # "panic"
=============================================================================
