-------------------------------- MODULE Log --------------------------------
(***************************************************************************)
(* The write-ahead log of Part_B/log.c with what it uses of the buffer     *)
(* cache, and the two block operations of fs.c that run against it in a    *)
(* way of their own: balloc(), which calls begin_op() while it holds the   *)
(* bitmap's buffer, and bfree(), which writes the bitmap with bwrite().    *)
(*                                                                         *)
(* The disk writes one block at a time and the machine may crash between   *)
(* any two writes.  A critical section under log.lock is one step; the     *)
(* tests that log_write() makes before it takes the lock are another.      *)
(* The log has blocks for a full header here; on the disk that mkfs makes  *)
(* the last of them would be the first block of inodes (see LogOnDisk).    *)
(***************************************************************************)
EXTENDS Integers, Sequences, FiniteSets, FiniteSetsExt, SequencesExt

CONSTANTS
    Proc,         \* processes that make file system calls
    Block,        \* home blocks
    Bitmap,       \* the home block that holds the free map
    NoBlock,      \* no buffer
    LOGSIZE,      \* the capacity of struct logheader
    nlog,         \* blocks of the on-disk log, its header included
    MAXOPBLOCKS,  \* blocks one system call may write
    Kinds,        \* the calls made: "op", "balloc", "nested", "bfree"
    Crashes       \* whether the machine may crash

ASSUME LogAssumption ==
    /\ IsFiniteSet(Proc) /\ IsFiniteSet(Block)
    /\ Bitmap \in Block /\ NoBlock \notin Block
    /\ LOGSIZE \in Nat \ {0} /\ nlog \in Nat \ {0}
    /\ MAXOPBLOCKS \in Nat /\ MAXOPBLOCKS >= 2     \* balloc() writes two
    /\ Kinds \subseteq {"op", "balloc", "nested", "bfree"}
    /\ Crashes \in BOOLEAN

Val    == {0, 1}       \* two contents of a block
NoData == 2            \* the block is not cached

VARIABLES
    home, logblk, header,   \* the disk: home blocks, log blocks, log header
    cache, dirty,           \* buffers: contents and B_DIRTY
    lh,                     \* log.lh, as the sequence of its block numbers
    outstanding, committing,
    pc,        \* where each process is
    nest,      \* its begin_op() calls without end_op()
    hold,      \* the buffer it has locked
    wrote,     \* the blocks its system call has written
    alloc,     \* whether it is in balloc()
    tail,      \* the loop index of write_log() and install_trans()
    boot       \* recovery after a crash: "up" once it is done

diskvars == <<home, logblk, header>>
logvars  == <<lh, outstanding, committing>>
procvars == <<pc, nest, hold, wrote, alloc>>
vars == <<diskvars, cache, dirty, logvars, procvars, tail, boot>>

PC == {"idle", "begin", "sleep", "body", "append", "bread", "zero", "end",
       "wlog", "whead", "install", "clear", "done", "panic"}

Idle ==
    /\ lh = <<>> /\ outstanding = 0 /\ committing = FALSE
    /\ cache = [b \in Block |-> NoData]
    /\ dirty = [b \in Block |-> FALSE]
    /\ pc = [p \in Proc |-> "idle"]
    /\ nest = [p \in Proc |-> 0]
    /\ hold = [p \in Proc |-> NoBlock]
    /\ wrote = [p \in Proc |-> {}]
    /\ alloc = [p \in Proc |-> FALSE]
    /\ tail = 1

\* A file system as mkfs leaves it, with an empty log, before initlog().
Init ==
    /\ home = [b \in Block |-> 0]
    /\ logblk = [i \in 1 .. LOGSIZE |-> 0]
    /\ header = <<>>
    /\ boot = "read"
    /\ Idle

-----------------------------------------------------------------------------
(* Buffers.                                                                *)

\* What bread(b) returns: the cached contents, or the disk's.
Content(b) == IF cache[b] = NoData THEN home[b] ELSE cache[b]

\* bread(b) would get the buffer's sleep lock.
Unlocked(b) == \A p \in Proc : hold[p] # b

goto(p, l) == pc' = [pc EXCEPT ![p] = l]

\* bget() recycles the buffer of a block that nobody uses or has in the log.
Evict(b) ==
    /\ boot = "up" /\ cache[b] # NoData /\ ~dirty[b] /\ Unlocked(b)
    /\ cache' = [cache EXCEPT ![b] = NoData]
    /\ UNCHANGED <<diskvars, dirty, logvars, procvars, tail, boot>>

-----------------------------------------------------------------------------
(* begin_op(), log_write() and end_op().                                   *)

\* Mutant: no room is reserved for the calls in progress.
Room_one == Len(lh) + MAXOPBLOCKS <= LOGSIZE

\* There is log space for one more call.
Room == Len(lh) + (outstanding + 1) * MAXOPBLOCKS <= LOGSIZE

SystemCall(p) ==
    /\ boot = "up" /\ "op" \in Kinds /\ pc[p] = "idle"
    /\ goto(p, "begin")
    /\ UNCHANGED <<diskvars, cache, dirty, logvars, nest, hold, wrote, alloc,
                   tail, boot>>

begin_op(p) ==
    /\ pc[p] = "begin"
    /\ IF committing \/ ~Room
       THEN goto(p, "sleep") /\ UNCHANGED <<outstanding, nest>>
       ELSE /\ outstanding' = outstanding + 1
            /\ nest' = [nest EXCEPT ![p] = @ + 1]
            /\ goto(p, IF alloc[p] THEN "zero" ELSE "body")
    /\ UNCHANGED <<diskvars, cache, dirty, lh, committing, hold, wrote, alloc,
                   tail, boot>>

\* The call locks a buffer and modifies its data; log_write() then tests for
\* a full log before it takes log.lock.
Modify(p, b) ==
    /\ cache' = [cache EXCEPT ![b] = 1 - Content(b)]
    /\ hold' = [hold EXCEPT ![p] = b]
    /\ goto(p, IF Len(lh) >= LOGSIZE \/ Len(lh) >= nlog - 1
               THEN "panic" ELSE "append")

Write(p) ==
    /\ pc[p] = "body"
    /\ \E b \in Block :
          /\ Unlocked(b)
          /\ Cardinality(wrote[p] \cup {b}) <= MAXOPBLOCKS
          /\ Modify(p, b)
          /\ wrote' = [wrote EXCEPT ![p] = @ \cup {b}]
    /\ UNCHANGED <<diskvars, dirty, logvars, nest, alloc, tail, boot>>

\* Mutant: log_write() does not pin the buffer.
Pin_none(b) == UNCHANGED dirty

\* b->flags |= B_DIRTY
Pin(b) == dirty' = [dirty EXCEPT ![b] = TRUE]

\* brelse()
Release(p) == hold' = [hold EXCEPT ![p] = NoBlock]

\* The rest of log_write(), with absorption, and brelse().
log_write(p) ==
    LET b == hold[p] IN
    /\ pc[p] = "append"
    /\ lh' = IF Contains(lh, b) THEN lh ELSE Append(lh, b)
    /\ Pin(b)
    /\ Release(p)
    /\ goto(p, IF ~alloc[p] THEN "body"
               ELSE IF b = Bitmap THEN "zero" ELSE "end")
    /\ UNCHANGED <<diskvars, cache, outstanding, committing, nest, wrote,
                   alloc, tail, boot>>

\* Mutant: the call that ends commits, whatever calls are in progress.
LastCall_any == TRUE

\* The ending call is the last one outstanding.
LastCall == outstanding = 1

\* Mutant: end_op() wakes nobody.
Awake_none(f) == f

\* wakeup(&log)
Awake(f) == [p \in Proc |-> IF f[p] = "sleep" THEN "begin" ELSE f[p]]

end_op(p) ==
    /\ pc[p] \in {"body", "end"}
    /\ outstanding' = outstanding - 1
    /\ nest' = [nest EXCEPT ![p] = @ - 1]
    /\ alloc' = [alloc EXCEPT ![p] = FALSE]
    /\ wrote' = [wrote EXCEPT ![p] = IF nest[p] > 1 THEN @ ELSE {}]
    /\ IF LastCall
       THEN /\ committing' = TRUE
            /\ goto(p, IF lh = <<>> THEN "done" ELSE "wlog")
            /\ tail' = 1
       ELSE /\ pc' = Awake([pc EXCEPT ![p] = IF nest[p] > 1 THEN "body"
                                             ELSE "idle"])
            /\ UNCHANGED <<committing, tail>>
    /\ UNCHANGED <<diskvars, cache, dirty, lh, hold, boot>>

-----------------------------------------------------------------------------
(* commit(): one step per disk write.                                      *)

write_log(p) ==
    /\ pc[p] = "wlog" /\ Unlocked(lh[tail])
    /\ logblk' = [logblk EXCEPT ![tail] = Content(lh[tail])]
    /\ IF tail = Len(lh) THEN goto(p, "whead") /\ tail' = 1
                         ELSE tail' = tail + 1 /\ UNCHANGED pc
    /\ UNCHANGED <<home, header, cache, dirty, logvars, nest, hold, wrote,
                   alloc, boot>>

\* The header with the block numbers is the commit point.
write_head(p) ==
    /\ pc[p] = "whead"
    /\ header' = lh
    /\ goto(p, "install")
    /\ UNCHANGED <<home, logblk, cache, dirty, logvars, nest, hold, wrote,
                   alloc, tail, boot>>

\* One round of install_trans(): copy a log block to its home through the
\* cache and clear B_DIRTY.
Install ==
    LET b == lh[tail] IN
    /\ Unlocked(b)
    /\ home' = [home EXCEPT ![b] = logblk[tail]]
    /\ cache' = [cache EXCEPT ![b] = logblk[tail]]
    /\ dirty' = [dirty EXCEPT ![b] = FALSE]

install_trans(p) ==
    /\ pc[p] = "install"
    /\ Install
    /\ IF tail = Len(lh) THEN goto(p, "clear") /\ tail' = 1
                         ELSE tail' = tail + 1 /\ UNCHANGED pc
    /\ UNCHANGED <<logblk, header, logvars, nest, hold, wrote, alloc, boot>>

clear_log(p) ==
    /\ pc[p] = "clear"
    /\ lh' = <<>> /\ header' = <<>>
    /\ goto(p, "done")
    /\ UNCHANGED <<home, logblk, cache, dirty, outstanding, committing, nest,
                   hold, wrote, alloc, tail, boot>>

\* The end of end_op(): committing is cleared and begin_op() callers woken.
commit_done(p) ==
    /\ pc[p] = "done"
    /\ committing' = FALSE
    /\ pc' = Awake([pc EXCEPT ![p] = "idle"])
    /\ UNCHANGED <<diskvars, cache, dirty, lh, outstanding, nest, hold, wrote,
                   alloc, tail, boot>>

-----------------------------------------------------------------------------
(* balloc() and bfree() of fs.c.                                           *)

\* A call to balloc(), inside another call's transaction or outside any.
BallocCall(p) ==
    /\ boot = "up"
    /\ \/ pc[p] = "idle" /\ "balloc" \in Kinds
       \/ pc[p] = "body" /\ nest[p] = 1 /\ "nested" \in Kinds
    /\ alloc' = [alloc EXCEPT ![p] = TRUE]
    /\ goto(p, "bread")
    /\ UNCHANGED <<diskvars, cache, dirty, logvars, nest, hold, wrote, tail,
                   boot>>

\* balloc() reads the bitmap and finds a free bit: it keeps the bitmap's
\* buffer locked and calls begin_op().
balloc(p) ==
    /\ pc[p] = "bread" /\ Unlocked(Bitmap)
    /\ hold' = [hold EXCEPT ![p] = Bitmap]
    /\ cache' = [cache EXCEPT ![Bitmap] = Content(Bitmap)]
    /\ goto(p, "begin")
    /\ UNCHANGED <<diskvars, dirty, logvars, nest, wrote, alloc, tail, boot>>

\* Inside its transaction balloc() marks the block in use and then zeroes it.
balloc_write(p) ==
    /\ pc[p] = "zero"
    /\ \E b \in Block :
          /\ \/ hold[p] = Bitmap /\ b = Bitmap
             \/ hold[p] = NoBlock /\ b # Bitmap /\ Unlocked(b)
          /\ Modify(p, b)
          /\ wrote' = [wrote EXCEPT ![p] = IF nest[p] > 1 THEN @ ELSE @ \cup {b}]
    /\ UNCHANGED <<diskvars, dirty, logvars, nest, alloc, tail, boot>>

\* bfree(): clear the bit and bwrite() the bitmap, past the log.
bfree(p) ==
    /\ boot = "up" /\ "bfree" \in Kinds
    /\ pc[p] \in {"idle", "body"} /\ Unlocked(Bitmap)
    /\ home' = [home EXCEPT ![Bitmap] = 1 - Content(Bitmap)]
    /\ cache' = [cache EXCEPT ![Bitmap] = 1 - Content(Bitmap)]
    /\ dirty' = [dirty EXCEPT ![Bitmap] = FALSE]
    /\ UNCHANGED <<logblk, header, logvars, procvars, tail, boot>>

-----------------------------------------------------------------------------
(* Crash and recovery: initlog() runs before the first file system call.   *)

Crash ==
    /\ Crashes
    /\ boot' = "read"
    /\ lh' = <<>> /\ outstanding' = 0 /\ committing' = FALSE /\ tail' = 1
    /\ cache' = [b \in Block |-> NoData]
    /\ dirty' = [b \in Block |-> FALSE]
    /\ pc' = [p \in Proc |-> "idle"]
    /\ nest' = [p \in Proc |-> 0]
    /\ hold' = [p \in Proc |-> NoBlock]
    /\ wrote' = [p \in Proc |-> {}]
    /\ alloc' = [p \in Proc |-> FALSE]
    /\ UNCHANGED diskvars

\* Mutant: recovery clears the log without installing it.
read_head_drop ==
    /\ boot = "read"
    /\ lh' = header
    /\ boot' = "clear"
    /\ UNCHANGED <<diskvars, cache, dirty, outstanding, committing, procvars,
                   tail>>

read_head ==
    /\ boot = "read"
    /\ lh' = header
    /\ boot' = IF header = <<>> THEN "clear" ELSE "install"
    /\ UNCHANGED <<diskvars, cache, dirty, outstanding, committing, procvars,
                   tail>>

recover_install ==
    /\ boot = "install"
    /\ Install
    /\ IF tail = Len(lh) THEN boot' = "clear" /\ tail' = 1
                         ELSE tail' = tail + 1 /\ UNCHANGED boot
    /\ UNCHANGED <<logblk, header, logvars, procvars>>

recover_clear ==
    /\ boot = "clear"
    /\ lh' = <<>> /\ header' = <<>>
    /\ boot' = "up"
    /\ UNCHANGED <<home, logblk, cache, dirty, outstanding, committing,
                   procvars, tail>>

-----------------------------------------------------------------------------
Commit(p) ==
    write_log(p) \/ write_head(p) \/ install_trans(p) \/ clear_log(p)
      \/ commit_done(p)

Recover == read_head \/ recover_install \/ recover_clear

\* What a process does once it has started a call; end_op() must come.
Progress(p) ==
    log_write(p) \/ end_op(p) \/ Commit(p) \/ balloc(p) \/ balloc_write(p)

\* panic() ends in for(;;).
Panicked(p) == pc[p] = "panic" /\ UNCHANGED vars

Next ==
    \/ \E p \in Proc :
          \/ SystemCall(p) \/ begin_op(p) \/ Write(p) \/ Progress(p)
          \/ BallocCall(p) \/ bfree(p) \/ Panicked(p)
    \/ \E b \in Block : Evict(b)
    \/ Recover
    \/ Crash

Spec == Init /\ [][Next]_vars

(***************************************************************************)
(* A process that is inside a call goes on executing and writes only       *)
(* finitely often before end_op(); one that is woken in begin_op() again   *)
(* and again and finds the log usable again and again gets its turn.       *)
(* Nothing forces new calls, evictions or crashes.                         *)
(***************************************************************************)
Fairness ==
    /\ WF_vars(Recover)
    /\ \A p \in Proc :
          /\ WF_vars(Progress(p))
          /\ SF_vars(end_op(p))
          /\ WF_vars(begin_op(p))
          /\ SF_vars(begin_op(p) /\ ~committing /\ Room)

FairSpec == Spec /\ Fairness

-----------------------------------------------------------------------------
TypeOK ==
    /\ home \in [Block -> Val]
    /\ logblk \in [1 .. LOGSIZE -> Val]
    /\ header \in Seq(Block)
    /\ cache \in [Block -> Val \cup {NoData}]
    /\ dirty \in [Block -> BOOLEAN]
    /\ lh \in Seq(Block)
    /\ outstanding \in Nat
    /\ committing \in BOOLEAN
    /\ pc \in [Proc -> PC]
    /\ nest \in [Proc -> 0 .. 2]
    /\ hold \in [Proc -> Block \cup {NoBlock}]
    /\ wrote \in [Proc -> SUBSET Block]
    /\ alloc \in [Proc -> BOOLEAN]
    /\ tail \in 1 .. LOGSIZE
    /\ boot \in {"read", "install", "clear", "up"}

\* The transactions open: the second of a process is the one of a balloc()
\* inside another call.
Open == {o \in Proc \X (1 .. 2) : o[2] <= nest[o[1]]}

\* The block that p is about to append to the log, or has panicked over, if
\* it is not absorbed.
ToAppend(p) ==
    IF pc[p] \in {"append", "panic"} /\ ~Contains(lh, hold[p]) THEN 1 ELSE 0

\* Blocks that a transaction may still add to the log.
MayAdd(o) ==
    LET p == o[1] IN
    IF o[2] = 1
    THEN MAXOPBLOCKS - Cardinality(wrote[p])
           + (IF nest[p] = 1 THEN ToAppend(p) ELSE 0)
    ELSE (IF pc[p] = "zero" THEN 1 ELSE ToAppend(p))
           + (IF pc[p] \in {"zero", "append", "panic"} /\ hold[p] = Bitmap
              THEN 1 ELSE 0)

\* One element for each block that may still be added.
Reserved ==
    {s \in Open \X (1 .. MAXOPBLOCKS) : s[2] <= MayAdd(s[1])}

\* begin_op()'s reservation is enough for the header in memory: what is in
\* the log and what the calls in progress may still add fit struct logheader
\* together, whatever they absorb.  It says nothing of the log on disk.
LogFits == boot = "up" => Len(lh) + Cardinality(Reserved) <= LOGSIZE

\* log_write() panics for want of room only over a block that is in the log
\* already and needs none, or because the log on disk is shorter than the
\* header in memory that begin_op() has reserved room in.
LogPanics ==
    \A p \in Proc :
       pc[p] = "panic" =>
          \/ Contains(lh, hold[p])
          \/ nlog - 1 <= Len(lh) /\ Len(lh) < LOGSIZE

\* A modified block stays in the cache until its transaction is installed:
\* bget() cannot recycle the only copy.
PinnedUntilInstalled ==
    \A b \in Block :
       cache[b] # home[b] /\ cache[b] # NoData /\ Unlocked(b) =>
          dirty[b] /\ Contains(lh, b)

\* begin_op(), log_write(), balloc(), bfree(): the reservation is enough for the
\* header in memory, nothing but a log on disk that is smaller keeps a call from
\* the room it has reserved, and no modified buffer is recycled before its block
\* is on disk, also when calls open transactions of their own and write past
\* the log.
LogKeeps == TypeOK /\ LogFits /\ LogPanics /\ PinnedUntilInstalled

\* The log fits the blocks it has on disk: write_log() stays before inodestart
\* (fs.h: "Number of log blocks", one of which is the header).
LogOnDisk == Len(lh) <= nlog - 1

\* A commit runs only while no call is in progress, so end_op() never finds
\* log.committing set; the header on disk is then the log's, and the log
\* blocks hold what the cache holds.
CommitIsQuiet ==
    /\ committing => outstanding = 0
    /\ boot = "up" /\ header # <<>> =>
          /\ committing /\ header = lh
          /\ \A i \in 1 .. Len(lh) : logblk[i] = Content(lh[i])

\* No block of a call in progress reaches its home on disk: "Thus there is never
\* any reasoning required about whether a commit might write an uncommitted
\* system call's updates to disk."
NoEarlyWrite ==
    [][\A b \in Block :
          home'[b] # home[b] /\ Contains(lh, b) /\ boot = "up" =>
             outstanding = 0]_vars

\* log_write() never panics on a log whose calls keep to MAXOPBLOCKS.
LogNeverPanics == \A p \in Proc : pc[p] # "panic"

\* Whoever sleeps in begin_op() gets to run its call, unless the machine
\* crashes first.
BeginOpReturns ==
    \A p \in Proc : pc[p] = "sleep" ~> pc[p] \in {"body", "zero"} \/ boot # "up"

\* Every commit is finished, and so the "last outstanding end_op() commits" for
\* those who sleep in begin_op().
CommitFinishes == committing ~> ~committing

\* What recovery makes of the disk.
Durable ==
    [b \in Block |->
       IF \E i \in 1 .. Len(header) : header[i] = b
       THEN logblk[CHOOSE i \in 1 .. Len(header) : header[i] = b]
       ELSE home[b]]

A == INSTANCE AtomicDisk WITH
       mem     <- IF boot = "up" THEN [b \in Block |-> Content(b)] ELSE Durable,
       durable <- Durable,
       active  <- {p \in Proc : nest[p] > 0}

\* The log implements the atomic disk.
ImplementsAtomicDisk == A!ASpec

-----------------------------------------------------------------------------
(***************************************************************************)
(* The inductive invariant behind the properties above.                    *)
(***************************************************************************)
Committing == {"wlog", "whead", "install", "clear", "done"}

\* What a process has, by where it is.
CallInv ==
    \A p \in Proc :
       /\ pc[p] \in {"idle"} \cup Committing =>
             nest[p] = 0 /\ hold[p] = NoBlock /\ ~alloc[p]
       /\ pc[p] \in {"begin", "sleep"} =>
             /\ nest[p] = 0 \/ (nest[p] = 1 /\ alloc[p])
             /\ hold[p] = IF alloc[p] THEN Bitmap ELSE NoBlock
       /\ pc[p] = "bread" => nest[p] \in 0 .. 1 /\ hold[p] = NoBlock /\ alloc[p]
       /\ pc[p] = "body" => nest[p] = 1 /\ hold[p] = NoBlock /\ ~alloc[p]
       /\ pc[p] = "zero" =>
             nest[p] \in 1 .. 2 /\ hold[p] \in {Bitmap, NoBlock} /\ alloc[p]
       /\ pc[p] \in {"append", "panic"} =>
             /\ nest[p] = 1 \/ (nest[p] = 2 /\ alloc[p])
             /\ hold[p] # NoBlock
       /\ pc[p] = "end" => nest[p] \in 1 .. 2 /\ hold[p] = NoBlock /\ alloc[p]

\* The blocks that the system call of p has written are in the log.
Logged(p) ==
    /\ nest[p] = 0 => wrote[p] = {}
    /\ Cardinality(wrote[p]) <= MAXOPBLOCKS
    /\ \A b \in wrote[p] :
          Contains(lh, b) \/ (pc[p] \in {"append", "panic"} /\ hold[p] = b)
    /\ pc[p] = "append" /\ nest[p] = 1 =>
          /\ hold[p] \in wrote[p]
          /\ alloc[p] /\ hold[p] = Bitmap => wrote[p] = {Bitmap}
    /\ pc[p] = "zero" /\ nest[p] = 1 =>
          wrote[p] = IF hold[p] = Bitmap THEN {} ELSE {Bitmap}

WroteInv == \A p \in Proc : Logged(p)

\* Sleep locks exclude each other.
HoldInv ==
    \A p, q \in Proc : hold[p] = hold[q] /\ hold[p] # NoBlock => p = q

NestInv == Cardinality(Open) = outstanding

Distinct(s) == \A i, j \in 1 .. Len(s) : s[i] = s[j] => i = j

\* One process commits, with no transaction open; nobody runs during recovery.
CommitInv ==
    /\ committing <=> \E p \in Proc : pc[p] \in Committing
    /\ \A p, q \in Proc :
          pc[p] \in Committing /\ pc[q] \in Committing => p = q
    /\ committing => outstanding = 0
    /\ boot # "up" => outstanding = 0 /\ \A p \in Proc : pc[p] = "idle"

\* Where the commit or the recovery has come to, and the header on disk.
HeaderInv ==
    /\ Distinct(lh) /\ Distinct(header)
    /\ Len(lh) <= LOGSIZE /\ Len(header) <= LOGSIZE
    /\ \A p \in Proc :
          /\ pc[p] \in {"wlog", "whead", "install", "clear"} =>
                tail \in 1 .. Len(lh)
          /\ pc[p] = "whead" => tail = 1
          /\ pc[p] = "done" => lh = <<>>
          /\ pc[p] \in {"install", "clear"} => header = lh
    /\ boot = "up" /\ (\A p \in Proc : pc[p] \notin {"install", "clear"}) =>
          header = <<>>
    /\ boot = "read" => lh = <<>> /\ tail = 1
    /\ boot = "install" => header = lh /\ tail \in 1 .. Len(lh)
    /\ boot = "clear" => header = lh

\* A buffer that differs from its home is in the log and pinned, or is held
\* by the process that has just written it.
Synced(b) == cache[b] \in {NoData, home[b]}

PinInv ==
    /\ \A b \in Block :
          \/ Synced(b)
          \/ dirty[b] /\ Contains(lh, b)
          \/ \E p \in Proc : pc[p] \in {"append", "panic"} /\ hold[p] = b
    /\ boot # "up" => \A b \in Block : Synced(b)
    /\ \A p \in Proc :
          /\ pc[p] = "install" => \A i \in 1 .. tail - 1 : Synced(lh[i])
          /\ pc[p] = "clear" => \A i \in 1 .. Len(lh) : Synced(lh[i])

\* What log_write() has found when it panics stays true: the log only grows
\* while a call is in progress.
PanicInv ==
    \A p \in Proc :
       pc[p] = "panic" => Len(lh) >= LOGSIZE \/ Len(lh) >= nlog - 1

LogInv ==
    /\ TypeOK /\ CallInv /\ WroteInv /\ HoldInv /\ NestInv /\ CommitInv
    /\ LogFits /\ HeaderInv /\ PinInv

\* The log blocks of a commit hold what the cache holds, and what has been
\* installed is in its home.
CopyInv ==
    /\ \A p \in Proc :
          /\ pc[p] = "wlog" =>
                \A i \in 1 .. tail - 1 : logblk[i] = Content(lh[i])
          /\ pc[p] \in {"whead", "install", "clear"} =>
                \A i \in 1 .. Len(lh) : logblk[i] = Content(lh[i])
          /\ pc[p] = "install" =>
                \A i \in 1 .. tail - 1 : home[lh[i]] = logblk[i]
          /\ pc[p] = "clear" => \A i \in 1 .. Len(lh) : home[lh[i]] = logblk[i]
    /\ boot = "install" => \A i \in 1 .. tail - 1 : home[lh[i]] = logblk[i]
    /\ boot = "clear" => \A i \in 1 .. Len(lh) : home[lh[i]] = logblk[i]
=============================================================================
