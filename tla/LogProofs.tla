----------------------------- MODULE LogProofs -----------------------------
(***************************************************************************)
(* What is proved of the write-ahead log of Part_B/log.c for any number of *)
(* processes and blocks, any log size and any mixture of calls.  LogInv is *)
(* the inductive invariant; CopyInv adds what bfree(), which writes past   *)
(* the log, would break.                                                   *)
(***************************************************************************)
EXTENDS Log, FiniteSetTheorems, SequenceTheorems, TLAPS

LEMMA Sizes ==
    /\ Bitmap \in Block /\ NoBlock \notin Block
    /\ LOGSIZE \in Nat /\ LOGSIZE >= 1
    /\ MAXOPBLOCKS \in Nat /\ MAXOPBLOCKS >= 2
    /\ IsFiniteSet(Proc) /\ IsFiniteSet(Block)
  BY LogAssumption, SMT

LEMMA Contents ==
    ASSUME TypeOK, NEW b \in Block
    PROVE  /\ Content(b) \in Val /\ 1 - Content(b) \in Val
           /\ cache[b] \in {NoData, home[b]} => Content(b) = home[b]
  BY SMT DEF TypeOK, Content, Val, NoData

\* What wakeup(&log) does to one process.
LEMMA AwakeAt ==
    ASSUME NEW f \in [Proc -> PC], NEW q \in Proc
    PROVE  /\ Awake(f) \in [Proc -> PC]
           /\ Awake(f)[q] = IF f[q] = "sleep" THEN "begin" ELSE f[q]
  BY DEF Awake, PC

\* What Next has, operation by operation.
LEMMA NextCases ==
    ASSUME Next
    PROVE  \/ \E p \in Proc :
                 \/ SystemCall(p) \/ begin_op(p) \/ Write(p) \/ balloc_write(p)
                 \/ log_write(p) \/ end_op(p) \/ write_log(p) \/ write_head(p)
                 \/ install_trans(p) \/ clear_log(p) \/ commit_done(p)
                 \/ BallocCall(p) \/ balloc(p) \/ bfree(p)
           \/ \E b \in Block : Evict(b)
           \/ read_head \/ recover_install \/ recover_clear \/ Crash
           \/ UNCHANGED vars
  BY DEF Next, Progress, Commit, Recover, Panicked

-----------------------------------------------------------------------------
(* Counting the open transactions.                                         *)

LEMMA OpenFinite ==
    ASSUME TypeOK
    PROVE  IsFiniteSet(Open) /\ Cardinality(Open) \in Nat
<1>1. IsFiniteSet(1 .. 2)
  <2>1. 1 \in Int /\ 2 \in Int
    OBVIOUS
  <2> QED  BY <2>1, FS_Interval, Zenon
<1>2. IsFiniteSet(Proc \X (1 .. 2))
  BY <1>1, Sizes, FS_Product
<1>3. Open \subseteq Proc \X (1 .. 2)
  BY DEF Open
<1>4. IsFiniteSet(Open)
  BY <1>2, <1>3, FS_Subset
<1> QED  BY <1>4, FS_CardinalityType

\* With none open no process has one; with one open, one process has it.
LEMMA Counted ==
    ASSUME TypeOK, NestInv
    PROVE  /\ outstanding = 0 => \A p \in Proc : nest[p] = 0
           /\ \A p \in Proc : nest[p] > 0 => outstanding > 0
           /\ outstanding = 1 =>
                 \A p, q \in Proc : nest[p] > 0 =>
                    nest[p] = 1 /\ (q # p => nest[q] = 0)
<1>1. IsFiniteSet(Open) /\ Cardinality(Open) = outstanding /\ outstanding \in Nat
  BY OpenFinite DEF NestInv, TypeOK
<1>2. ASSUME NEW p \in Proc, nest[p] > 0
      PROVE  <<p, 1>> \in Open
  <2>1. nest[p] \in 0 .. 2
    BY DEF TypeOK
  <2>2. 1 <= nest[p] /\ 1 \in 1 .. 2
    BY <1>2, <2>1, SMT
  <2> QED  BY <2>2 DEF Open
<1>3. ASSUME outstanding = 0, NEW p \in Proc
      PROVE  nest[p] = 0
  <2>1. Open = {}
    BY <1>1, <1>3, FS_EmptySet
  <2>2. ~(nest[p] > 0)
    BY <1>2, <2>1
  <2> QED  BY <2>2, SMT DEF TypeOK
<1>4. ASSUME NEW p \in Proc, nest[p] > 0
      PROVE  outstanding > 0
  <2>1. outstanding # 0
    BY <1>3, <1>4
  <2> QED  BY <1>1, <2>1
<1>5. ASSUME outstanding = 1, NEW p \in Proc, NEW q \in Proc, nest[p] > 0
      PROVE  nest[p] = 1 /\ (q # p => nest[q] = 0)
  <2>1. PICK x : Open = {x}
    BY <1>1, <1>5, FS_Singleton
  <2>2. Open = {<<p, 1>>}
    BY <1>2, <1>5, <2>1
  <2>3. <<p, 2>> \notin Open
    BY <2>2
  <2>4. nest[p] = 1
    BY <1>5, <2>3, SMT DEF Open, TypeOK
  <2>5. ASSUME q # p PROVE nest[q] = 0
    <3>1. <<q, 1>> \notin Open
      BY <2>2, <2>5
    <3>2. ~(nest[q] > 0)
      BY <1>2, <3>1
    <3> QED  BY <3>2, SMT DEF TypeOK
  <2> QED  BY <2>4, <2>5
<1> QED  BY <1>3, <1>4, <1>5

LEMMA OpenSame == UNCHANGED nest => UNCHANGED Open
  BY DEF Open

LEMMA Opens ==
    ASSUME TypeOK, NestInv, NEW p \in Proc, nest[p] \in 0 .. 1,
           nest' = [nest EXCEPT ![p] = @ + 1], outstanding' = outstanding + 1
    PROVE  NestInv'
<1> DEFINE x == <<p, nest[p] + 1>>
<1>1. Open' = Open \cup {x}
  <2>1. ASSUME NEW q \in Proc, NEW k \in 1 .. 2
        PROVE  k <= nest'[q] <=> (k <= nest[q] \/ <<q, k>> = x)
    BY SMT DEF TypeOK
  <2>2. x \in Proc \X (1 .. 2)
    BY SMT
  <2>3. \A o \in Proc \X (1 .. 2) : o = <<o[1], o[2]>> /\ o[1] \in Proc
                                                      /\ o[2] \in 1 .. 2
    OBVIOUS
  <2> HIDE DEF x
  <2>4. \A o \in Proc \X (1 .. 2) :
           o[2] <= nest'[o[1]] <=> (o[2] <= nest[o[1]] \/ o = x)
    BY <2>1, <2>3
  <2> QED  BY <2>2, <2>4 DEF Open
<1>2. x \notin Open
  BY SMT DEF Open, TypeOK
<1> QED  BY <1>1, <1>2, OpenFinite, FS_AddElement DEF NestInv

LEMMA Closes ==
    ASSUME TypeOK, NestInv, NEW p \in Proc, nest[p] \in 1 .. 2,
           nest' = [nest EXCEPT ![p] = @ - 1], outstanding' = outstanding - 1
    PROVE  NestInv' /\ outstanding' \in Nat
<1> DEFINE x == <<p, nest[p]>>
<1>1. Open' = Open \ {x}
  <2>1. ASSUME NEW q \in Proc, NEW k \in 1 .. 2
        PROVE  k <= nest'[q] <=> (k <= nest[q] /\ <<q, k>> # x)
    BY SMT DEF TypeOK
  <2>3. \A o \in Proc \X (1 .. 2) : o = <<o[1], o[2]>> /\ o[1] \in Proc
                                                      /\ o[2] \in 1 .. 2
    OBVIOUS
  <2> HIDE DEF x
  <2>4. \A o \in Proc \X (1 .. 2) :
           o[2] <= nest'[o[1]] <=> (o[2] <= nest[o[1]] /\ o # x)
    BY <2>1, <2>3
  <2> QED  BY <2>4 DEF Open
<1>2. x \in Open
  BY SMT DEF Open, TypeOK
<1>3. outstanding > 0
  BY Counted, SMT DEF TypeOK
<1>4. outstanding' \in Nat
  BY <1>3, SMT DEF TypeOK
<1> QED  BY <1>1, <1>2, <1>4, OpenFinite, FS_RemoveElement DEF NestInv

-----------------------------------------------------------------------------
(* Types, and what a process has at each place.                            *)

LEMMA InitType == Init => TypeOK /\ CallInv
<1> SUFFICES ASSUME Init PROVE TypeOK /\ CallInv
  OBVIOUS
<1>1. TypeOK
  <2>1. /\ home \in [Block -> Val] /\ logblk \in [1 .. LOGSIZE -> Val]
        /\ header \in Seq(Block) /\ boot \in {"read", "install", "clear", "up"}
    BY DEF Init, Val
  <2>2. /\ cache \in [Block -> Val \cup {NoData}] /\ dirty \in [Block -> BOOLEAN]
        /\ lh \in Seq(Block) /\ outstanding \in Nat
    BY DEF Init, Idle
  <2>5. committing \in BOOLEAN
    BY DEF Init, Idle
  <2>3. /\ pc \in [Proc -> PC] /\ nest \in [Proc -> 0 .. 2]
        /\ hold \in [Proc -> Block \cup {NoBlock}]
        /\ wrote \in [Proc -> SUBSET Block] /\ alloc \in [Proc -> BOOLEAN]
    BY DEF Init, Idle, PC
  <2>4. tail \in 1 .. LOGSIZE
    BY Sizes, SMT DEF Init, Idle
  <2> QED  BY <2>1, <2>2, <2>3, <2>4, <2>5 DEF TypeOK
<1>2. CallInv
  BY DEF Init, Idle, CallInv, Committing
<1> QED  BY <1>1, <1>2

LEMMA SystemCallType ==
    ASSUME TypeOK, CallInv, NEW p \in Proc, SystemCall(p)
    PROVE  TypeOK' /\ CallInv'
<1>1. TypeOK'
  BY DEF SystemCall, goto, TypeOK, PC, diskvars, logvars
<1>2. CallInv'
  BY DEF SystemCall, goto, TypeOK, CallInv, Committing
<1> QED  BY <1>1, <1>2

LEMMA begin_opType ==
    ASSUME TypeOK, CallInv, NEW p \in Proc, begin_op(p)
    PROVE  TypeOK' /\ CallInv'
<1>1. CASE committing \/ ~Room
  <2>1. /\ pc[p] = "begin" /\ pc' = [pc EXCEPT ![p] = "sleep"]
        /\ UNCHANGED <<outstanding, nest>>
        /\ UNCHANGED <<diskvars, cache, dirty, lh, committing, hold, wrote,
                       alloc, tail, boot>>
    BY <1>1 DEF begin_op, goto
  <2>2. TypeOK'
    BY <2>1 DEF TypeOK, PC, diskvars
  <2>3. CallInv'
    BY <2>1 DEF TypeOK, CallInv, Committing
  <2> QED  BY <2>2, <2>3
<1>2. CASE ~(committing \/ ~Room)
  <2> DEFINE l == IF alloc[p] THEN "zero" ELSE "body"
  <2>1. /\ pc[p] = "begin" /\ pc' = [pc EXCEPT ![p] = l]
        /\ outstanding' = outstanding + 1
        /\ nest' = [nest EXCEPT ![p] = @ + 1]
        /\ UNCHANGED <<diskvars, cache, dirty, lh, committing, hold, wrote,
                       alloc, tail, boot>>
    BY <1>2 DEF begin_op, goto
  <2>2. /\ nest[p] \in 0 .. 1 /\ (nest[p] = 1 => alloc[p])
        /\ hold[p] = IF alloc[p] THEN Bitmap ELSE NoBlock
    BY <2>1 DEF CallInv
  <2>3. TypeOK'
    <3>1. pc' \in [Proc -> PC]
      BY <2>1 DEF TypeOK, PC
    <3>2. nest' \in [Proc -> 0 .. 2] /\ outstanding' \in Nat
      BY <2>1, <2>2 DEF TypeOK
    <3> QED  BY <2>1, <3>1, <3>2 DEF TypeOK, diskvars
  <2>4. CallInv'
    <3>1. /\ \A q \in Proc : q # p => pc'[q] = pc[q] /\ nest'[q] = nest[q]
          /\ pc'[p] = l /\ nest'[p] = nest[p] + 1
          /\ UNCHANGED <<hold, alloc>>
      BY <2>1 DEF TypeOK
    <3> QED  BY <2>2, <3>1 DEF TypeOK, CallInv, Committing
  <2> QED  BY <2>3, <2>4
<1> QED  BY <1>1, <1>2

\* What Modify() leaves: the buffer changed and locked.
LEMMA Modified ==
    ASSUME TypeOK, NEW p \in Proc, NEW b \in Block, Modify(p, b)
    PROVE  /\ cache' = [cache EXCEPT ![b] = 1 - Content(b)]
           /\ cache' \in [Block -> Val \cup {NoData}]
           /\ hold' = [hold EXCEPT ![p] = b]
           /\ hold' \in [Proc -> Block \cup {NoBlock}]
           /\ pc' \in [Proc -> PC]
           /\ pc' = [pc EXCEPT ![p] = "panic"]
                 \/ pc' = [pc EXCEPT ![p] = "append"]
<1>1. cache' \in [Block -> Val \cup {NoData}]
  BY Contents DEF Modify, TypeOK
<1> QED  BY <1>1 DEF Modify, goto, TypeOK, PC

LEMMA WriteType ==
    ASSUME TypeOK, CallInv, NEW p \in Proc, Write(p)
    PROVE  TypeOK' /\ CallInv'
<1>1. PICK b \in Block :
         /\ Modify(p, b) /\ wrote' = [wrote EXCEPT ![p] = @ \cup {b}]
  BY DEF Write
<1>2. /\ pc[p] = "body" /\ nest[p] = 1
      /\ UNCHANGED <<diskvars, dirty, logvars, nest, alloc, tail, boot>>
  BY DEF Write, CallInv
<1>3. TypeOK'
  BY <1>1, <1>2, Modified DEF TypeOK, diskvars, logvars
<1>4. CallInv'
  <2>1. /\ \A q \in Proc : q # p => pc'[q] = pc[q] /\ hold'[q] = hold[q]
        /\ pc'[p] \in {"append", "panic"} /\ hold'[p] \in Block
        /\ UNCHANGED <<nest, alloc>>
    BY <1>1, <1>2, Modified DEF TypeOK
  <2> QED  BY <1>2, <2>1, Sizes DEF CallInv, Committing
<1> QED  BY <1>3, <1>4

LEMMA balloc_writeType ==
    ASSUME TypeOK, CallInv, NEW p \in Proc, balloc_write(p)
    PROVE  TypeOK' /\ CallInv'
<1>1. PICK b \in Block :
         /\ Modify(p, b)
         /\ wrote' = [wrote EXCEPT ![p] = IF nest[p] > 1 THEN @
                                          ELSE @ \cup {b}]
  BY DEF balloc_write
<1>2. /\ pc[p] = "zero" /\ nest[p] \in 1 .. 2 /\ alloc[p]
      /\ UNCHANGED <<diskvars, dirty, logvars, nest, alloc, tail, boot>>
  BY DEF balloc_write, CallInv
<1>3. TypeOK'
  <2>1. wrote' \in [Proc -> SUBSET Block]
    BY <1>1 DEF TypeOK
  <2> QED  BY <1>1, <1>2, <2>1, Modified DEF TypeOK, diskvars, logvars
<1>4. CallInv'
  <2>1. /\ \A q \in Proc : q # p => pc'[q] = pc[q] /\ hold'[q] = hold[q]
        /\ pc'[p] \in {"append", "panic"} /\ hold'[p] \in Block
        /\ UNCHANGED <<nest, alloc>>
    BY <1>1, <1>2, Modified DEF TypeOK
  <2> QED  BY <1>2, <2>1, Sizes DEF CallInv, Committing
<1> QED  BY <1>3, <1>4

LEMMA log_writeType ==
    ASSUME TypeOK, CallInv, NEW p \in Proc, log_write(p)
    PROVE  TypeOK' /\ CallInv'
<1> DEFINE b == hold[p]
<1>1. /\ pc[p] = "append"
      /\ lh' = (IF Contains(lh, b) THEN lh ELSE Append(lh, b))
      /\ dirty' = [dirty EXCEPT ![b] = TRUE]
      /\ hold' = [hold EXCEPT ![p] = NoBlock]
      /\ \/ ~alloc[p] /\ pc' = [pc EXCEPT ![p] = "body"]
         \/ alloc[p] /\ pc' = [pc EXCEPT ![p] = "zero"]
         \/ alloc[p] /\ pc' = [pc EXCEPT ![p] = "end"]
      /\ UNCHANGED <<diskvars, cache, outstanding, committing, nest, wrote,
                     alloc, tail, boot>>
  BY DEF log_write, Pin, Release, goto
<1>2. b \in Block
  BY <1>1 DEF TypeOK, CallInv
<1>3. TypeOK'
  <2>1. lh' \in Seq(Block)
    BY <1>1, <1>2 DEF TypeOK
  <2>2. pc' \in [Proc -> PC]
    BY <1>1 DEF TypeOK, PC
  <2>3. dirty' \in [Block -> BOOLEAN] /\ hold' \in [Proc -> Block \cup {NoBlock}]
    BY <1>1 DEF TypeOK
  <2> QED  BY <1>1, <2>1, <2>2, <2>3 DEF TypeOK, diskvars
<1>4. CallInv'
  <2>1. /\ \A q \in Proc : q # p => pc'[q] = pc[q] /\ hold'[q] = hold[q]
        /\ IF alloc[p] THEN pc'[p] \in {"zero", "end"} ELSE pc'[p] = "body"
        /\ hold'[p] = NoBlock
        /\ UNCHANGED <<nest, alloc>>
    BY <1>1 DEF TypeOK
  <2>2. nest[p] \in 1 .. 2 /\ (~alloc[p] => nest[p] = 1)
    BY <1>1 DEF CallInv
  <2> QED  BY <2>1, <2>2 DEF CallInv, Committing
<1> QED  BY <1>3, <1>4

\* Where end_op() leaves the process and those it wakes.
LEMMA Ends ==
    ASSUME TypeOK, CallInv, NestInv, NEW p \in Proc, end_op(p)
    PROVE  /\ pc[p] \in {"body", "end"} /\ nest[p] \in 1 .. 2 /\ hold[p] = NoBlock
           /\ nest[p] > 1 => alloc[p]
           /\ outstanding = 1 => nest[p] = 1
           /\ outstanding' = outstanding - 1
           /\ nest' = [nest EXCEPT ![p] = @ - 1]
           /\ alloc' = [alloc EXCEPT ![p] = FALSE]
           /\ wrote' = [wrote EXCEPT ![p] = IF nest[p] > 1 THEN @ ELSE {}]
           /\ \/ outstanding = 1 /\ committing' = TRUE /\ tail' = 1
              \/ UNCHANGED <<committing, tail>>
           /\ UNCHANGED <<diskvars, cache, dirty, lh, hold, boot>>
           /\ pc' \in [Proc -> PC]
           /\ \/ pc'[p] = "body" /\ nest[p] = 2
              \/ pc'[p] = "idle" /\ nest[p] = 1
              \/ pc'[p] = "wlog" /\ nest[p] = 1 /\ lh # <<>> /\ tail' = 1
              \/ pc'[p] = "done" /\ nest[p] = 1 /\ lh = <<>>
           /\ \A q \in Proc : q # p => pc'[q] = pc[q]
                                        \/ (pc[q] = "sleep" /\ pc'[q] = "begin")
<1> DEFINE f == [pc EXCEPT ![p] = IF nest[p] > 1 THEN "body" ELSE "idle"]
<1>1. /\ pc[p] \in {"body", "end"}
      /\ outstanding' = outstanding - 1
      /\ nest' = [nest EXCEPT ![p] = @ - 1]
      /\ alloc' = [alloc EXCEPT ![p] = FALSE]
      /\ wrote' = [wrote EXCEPT ![p] = IF nest[p] > 1 THEN @ ELSE {}]
      /\ UNCHANGED <<diskvars, cache, dirty, lh, hold, boot>>
  BY DEF end_op
<1>2. \/ /\ outstanding = 1 /\ committing' = TRUE /\ tail' = 1
         /\ \/ pc' = [pc EXCEPT ![p] = "done"] /\ lh = <<>>
            \/ pc' = [pc EXCEPT ![p] = "wlog"] /\ lh # <<>>
      \/ pc' = Awake(f) /\ UNCHANGED <<committing, tail>>
  BY DEF end_op, LastCall, goto
<1>3. /\ nest[p] \in 1 .. 2 /\ hold[p] = NoBlock
      /\ nest[p] > 1 => alloc[p]
      /\ outstanding = 1 => nest[p] = 1
  <2>1. nest[p] \in 1 .. 2 /\ hold[p] = NoBlock /\ (nest[p] > 1 => alloc[p])
    BY <1>1 DEF CallInv
  <2>2. nest[p] > 0
    BY <2>1
  <2> QED  BY <2>1, <2>2, Counted
<1>4. CASE /\ outstanding = 1 /\ tail' = 1 /\ committing' = TRUE
           /\ \/ pc' = [pc EXCEPT ![p] = "done"] /\ lh = <<>>
              \/ pc' = [pc EXCEPT ![p] = "wlog"] /\ lh # <<>>
  <2>1. /\ pc' \in [Proc -> PC] /\ \A q \in Proc : q # p => pc'[q] = pc[q]
        /\ \/ pc'[p] = "done" /\ lh = <<>>
           \/ pc'[p] = "wlog" /\ lh # <<>>
    BY <1>4 DEF TypeOK, PC
  <2>2. nest[p] = 1
    BY <1>3, <1>4
  <2> QED  BY <1>1, <1>3, <1>4, <2>1, <2>2
<1>5. CASE pc' = Awake(f) /\ UNCHANGED <<committing, tail>>
  <2>1. /\ f \in [Proc -> PC]
        /\ \A q \in Proc : f[q] = IF q # p THEN pc[q]
                                  ELSE IF nest[p] > 1 THEN "body" ELSE "idle"
    BY DEF TypeOK, PC
  <2>2. /\ pc' \in [Proc -> PC]
        /\ \A q \in Proc : pc'[q] = IF f[q] = "sleep" THEN "begin" ELSE f[q]
    BY <1>5, <2>1, AwakeAt
  <2>3. nest[p] = 1 \/ nest[p] = 2
    BY <1>3
  <2> HIDE DEF f
  <2>4. pc'[p] = IF nest[p] > 1 THEN "body" ELSE "idle"
    BY <2>1, <2>2
  <2> QED  BY <1>1, <1>3, <1>5, <2>1, <2>2, <2>3, <2>4
<1> QED  BY <1>2, <1>4, <1>5

LEMMA end_opType ==
    ASSUME TypeOK, CallInv, NestInv, NEW p \in Proc, end_op(p)
    PROVE  TypeOK' /\ CallInv'
<1>1. /\ nest' = [nest EXCEPT ![p] = @ - 1] /\ nest[p] \in 1 .. 2
      /\ alloc' = [alloc EXCEPT ![p] = FALSE]
      /\ wrote' = [wrote EXCEPT ![p] = IF nest[p] > 1 THEN @ ELSE {}]
      /\ outstanding' = outstanding - 1
      /\ committing' = TRUE \/ UNCHANGED committing
      /\ tail' = 1 \/ UNCHANGED tail
      /\ pc' \in [Proc -> PC]
      /\ UNCHANGED <<diskvars, cache, dirty, lh, hold, boot>>
  BY Ends
<1>2. TypeOK'
  <2>1. nest' \in [Proc -> 0 .. 2] /\ alloc' \in [Proc -> BOOLEAN]
        /\ wrote' \in [Proc -> SUBSET Block]
    BY <1>1 DEF TypeOK
  <2>2. outstanding' \in Nat
    BY <1>1, Closes
  <2>3. committing' \in BOOLEAN
    BY <1>1 DEF TypeOK
  <2>4. tail' \in 1 .. LOGSIZE
    BY <1>1, Sizes, SMT DEF TypeOK
  <2> QED  BY <1>1, <2>1, <2>2, <2>3, <2>4 DEF TypeOK, diskvars
<1>3. CallInv'
  <2>1. /\ \A q \in Proc : q # p => nest'[q] = nest[q] /\ alloc'[q] = alloc[q]
        /\ nest'[p] = nest[p] - 1 /\ ~alloc'[p] /\ UNCHANGED hold
    BY <1>1 DEF TypeOK
  <2>2. /\ nest[p] \in 1 .. 2 /\ hold[p] = NoBlock
        /\ \/ pc'[p] = "body" /\ nest[p] = 2
           \/ pc'[p] \in {"idle", "wlog", "done"} /\ nest[p] = 1
        /\ \A q \in Proc : q # p => pc'[q] = pc[q]
                                     \/ (pc[q] = "sleep" /\ pc'[q] = "begin")
    BY Ends
  <2> QED  BY <2>1, <2>2 DEF CallInv, Committing
<1> QED  BY <1>2, <1>3

LEMMA write_logType ==
    ASSUME TypeOK, CallInv, HeaderInv, NEW p \in Proc, write_log(p)
    PROVE  TypeOK' /\ CallInv'
<1>1. /\ pc[p] = "wlog"
      /\ logblk' = [logblk EXCEPT ![tail] = Content(lh[tail])]
      /\ \/ tail = Len(lh) /\ pc' = [pc EXCEPT ![p] = "whead"] /\ tail' = 1
         \/ tail # Len(lh) /\ tail' = tail + 1 /\ UNCHANGED pc
      /\ UNCHANGED <<home, header, cache, dirty, logvars, nest, hold, wrote,
                     alloc, boot>>
  BY DEF write_log, goto
<1>2. tail \in 1 .. Len(lh) /\ Len(lh) <= LOGSIZE /\ Len(lh) \in Nat
  BY <1>1 DEF HeaderInv, TypeOK
<1>3. lh[tail] \in Block
  BY <1>2 DEF TypeOK
<1>4. TypeOK'
  <2>1. logblk' \in [1 .. LOGSIZE -> Val]
    BY <1>1, <1>3, Contents DEF TypeOK
  <2>2. pc' \in [Proc -> PC]
    BY <1>1 DEF TypeOK, PC
  <2>3. tail' \in 1 .. LOGSIZE
    BY <1>1, <1>2, Sizes, SMT
  <2> QED  BY <1>1, <2>1, <2>2, <2>3 DEF TypeOK, logvars
<1>5. CallInv'
  BY <1>1 DEF TypeOK, CallInv, Committing
<1> QED  BY <1>4, <1>5

LEMMA write_headType ==
    ASSUME TypeOK, CallInv, NEW p \in Proc, write_head(p)
    PROVE  TypeOK' /\ CallInv'
<1>1. TypeOK'
  BY DEF write_head, goto, TypeOK, PC, logvars
<1>2. CallInv'
  BY DEF write_head, goto, TypeOK, CallInv, Committing
<1> QED  BY <1>1, <1>2

\* What a round of install_trans() leaves.
LEMMA Installed ==
    ASSUME TypeOK, HeaderInv, tail \in 1 .. Len(lh), Install
    PROVE  LET b == lh[tail] IN
           /\ b \in Block /\ logblk[tail] \in Val /\ Unlocked(b)
           /\ home' = [home EXCEPT ![b] = logblk[tail]]
           /\ cache' = [cache EXCEPT ![b] = logblk[tail]]
           /\ dirty' = [dirty EXCEPT ![b] = FALSE]
           /\ home' \in [Block -> Val]
           /\ cache' \in [Block -> Val \cup {NoData}]
           /\ dirty' \in [Block -> BOOLEAN]
<1>1. tail \in 1 .. LOGSIZE
  BY DEF TypeOK
<1> QED  BY <1>1 DEF TypeOK, Install

LEMMA install_transType ==
    ASSUME TypeOK, CallInv, HeaderInv, NEW p \in Proc, install_trans(p)
    PROVE  TypeOK' /\ CallInv'
<1>1. /\ pc[p] = "install" /\ Install
      /\ \/ tail = Len(lh) /\ pc' = [pc EXCEPT ![p] = "clear"] /\ tail' = 1
         \/ tail # Len(lh) /\ tail' = tail + 1 /\ UNCHANGED pc
      /\ UNCHANGED <<logblk, header, logvars, nest, hold, wrote, alloc, boot>>
  BY DEF install_trans, goto
<1>2. tail \in 1 .. Len(lh) /\ Len(lh) <= LOGSIZE /\ Len(lh) \in Nat
  BY <1>1 DEF HeaderInv, TypeOK
<1>3. TypeOK'
  <2>1. pc' \in [Proc -> PC]
    BY <1>1 DEF TypeOK, PC
  <2>2. tail' \in 1 .. LOGSIZE
    BY <1>1, <1>2, Sizes, SMT
  <2> QED  BY <1>1, <1>2, <2>1, <2>2, Installed DEF TypeOK, logvars
<1>4. CallInv'
  BY <1>1 DEF TypeOK, CallInv, Committing
<1> QED  BY <1>3, <1>4

LEMMA clear_logType ==
    ASSUME TypeOK, CallInv, NEW p \in Proc, clear_log(p)
    PROVE  TypeOK' /\ CallInv'
<1>1. TypeOK'
  BY DEF clear_log, goto, TypeOK, PC
<1>2. CallInv'
  BY DEF clear_log, goto, TypeOK, CallInv, Committing
<1> QED  BY <1>1, <1>2

LEMMA commit_doneType ==
    ASSUME TypeOK, CallInv, NEW p \in Proc, commit_done(p)
    PROVE  TypeOK' /\ CallInv'
<1> DEFINE f == [pc EXCEPT ![p] = "idle"]
<1>1. /\ pc[p] = "done" /\ committing' = FALSE /\ pc' = Awake(f)
      /\ UNCHANGED <<diskvars, cache, dirty, lh, outstanding, nest, hold,
                     wrote, alloc, tail, boot>>
  BY DEF commit_done
<1>2. f \in [Proc -> PC] /\ \A q \in Proc : f[q] = IF q = p THEN "idle" ELSE pc[q]
  BY DEF TypeOK, PC
<1>3. /\ pc' \in [Proc -> PC] /\ pc'[p] = "idle"
      /\ \A q \in Proc : q # p => pc'[q] = pc[q]
                                     \/ (pc[q] = "sleep" /\ pc'[q] = "begin")
  BY <1>1, <1>2, AwakeAt
<1> HIDE DEF f
<1>4. TypeOK'
  BY <1>1, <1>3 DEF TypeOK, diskvars
<1>5. CallInv'
  BY <1>1, <1>3 DEF CallInv, Committing
<1> QED  BY <1>4, <1>5

LEMMA BallocCallType ==
    ASSUME TypeOK, CallInv, NEW p \in Proc, BallocCall(p)
    PROVE  TypeOK' /\ CallInv'
<1>1. TypeOK'
  BY DEF BallocCall, goto, TypeOK, PC, diskvars, logvars
<1>2. CallInv'
  BY DEF BallocCall, goto, TypeOK, CallInv, Committing
<1> QED  BY <1>1, <1>2

LEMMA ballocType ==
    ASSUME TypeOK, CallInv, NEW p \in Proc, balloc(p)
    PROVE  TypeOK' /\ CallInv'
<1>1. /\ pc[p] = "bread" /\ hold' = [hold EXCEPT ![p] = Bitmap]
      /\ cache' = [cache EXCEPT ![Bitmap] = Content(Bitmap)]
      /\ pc' = [pc EXCEPT ![p] = "begin"]
      /\ UNCHANGED <<diskvars, dirty, logvars, nest, wrote, alloc, tail, boot>>
  BY DEF balloc, goto
<1>2. TypeOK'
  <2>1. cache' \in [Block -> Val \cup {NoData}]
    BY <1>1, Sizes, Contents DEF TypeOK
  <2>2. hold' \in [Proc -> Block \cup {NoBlock}] /\ pc' \in [Proc -> PC]
    BY <1>1, Sizes DEF TypeOK, PC
  <2> QED  BY <1>1, <2>1, <2>2 DEF TypeOK, diskvars, logvars
<1>3. CallInv'
  BY <1>1 DEF TypeOK, CallInv, Committing
<1> QED  BY <1>2, <1>3

LEMMA bfreeType ==
    ASSUME TypeOK, CallInv, NEW p \in Proc, bfree(p)
    PROVE  TypeOK' /\ CallInv'
<1>1. TypeOK'
  <2>1. home' \in [Block -> Val] /\ cache' \in [Block -> Val \cup {NoData}]
        /\ dirty' \in [Block -> BOOLEAN]
    BY Sizes, Contents DEF bfree, TypeOK
  <2> QED  BY <2>1 DEF bfree, TypeOK, logvars, procvars
<1>2. CallInv'
  BY DEF bfree, procvars, CallInv
<1> QED  BY <1>1, <1>2

LEMMA EvictType ==
    ASSUME TypeOK, CallInv, NEW b \in Block, Evict(b)
    PROVE  TypeOK' /\ CallInv'
<1>1. TypeOK'
  BY DEF Evict, TypeOK, diskvars, logvars, procvars
<1>2. CallInv'
  BY DEF Evict, procvars, CallInv
<1> QED  BY <1>1, <1>2

LEMMA RecoverType ==
    ASSUME TypeOK, CallInv, HeaderInv, read_head \/ recover_install \/ recover_clear
    PROVE  TypeOK' /\ CallInv'
<1>1. CallInv'
  BY DEF read_head, recover_install, recover_clear, procvars, CallInv
<1>2. CASE read_head
  BY <1>1, <1>2 DEF read_head, TypeOK, diskvars, procvars
<1>3. CASE recover_install
  <2>1. /\ boot = "install" /\ Install
        /\ \/ tail = Len(lh) /\ boot' = "clear" /\ tail' = 1
           \/ tail # Len(lh) /\ tail' = tail + 1 /\ UNCHANGED boot
        /\ UNCHANGED <<logblk, header, logvars, procvars>>
    BY <1>3 DEF recover_install
  <2>2. tail \in 1 .. Len(lh) /\ Len(lh) <= LOGSIZE /\ Len(lh) \in Nat
    BY <2>1 DEF HeaderInv, TypeOK
  <2>3. tail' \in 1 .. LOGSIZE
    BY <2>1, <2>2, Sizes, SMT
  <2> QED  BY <1>1, <2>1, <2>2, <2>3, Installed DEF TypeOK, logvars, procvars
<1>4. CASE recover_clear
  BY <1>1, <1>4 DEF recover_clear, TypeOK, procvars
<1> QED  BY <1>2, <1>3, <1>4

LEMMA CrashType ==
    ASSUME TypeOK, Crash
    PROVE  TypeOK' /\ CallInv'
<1>1. TypeOK'
  <2>1. /\ cache' \in [Block -> Val \cup {NoData}] /\ dirty' \in [Block -> BOOLEAN]
        /\ lh' \in Seq(Block) /\ outstanding' \in Nat
    BY DEF Crash
  <2>2. committing' \in BOOLEAN /\ boot' \in {"read", "install", "clear", "up"}
    BY DEF Crash
  <2>3. /\ pc' \in [Proc -> PC] /\ nest' \in [Proc -> 0 .. 2]
        /\ hold' \in [Proc -> Block \cup {NoBlock}]
        /\ wrote' \in [Proc -> SUBSET Block] /\ alloc' \in [Proc -> BOOLEAN]
    BY DEF Crash, PC
  <2>4. tail' \in 1 .. LOGSIZE
    BY Sizes, SMT DEF Crash
  <2> QED  BY <2>1, <2>2, <2>3, <2>4 DEF Crash, TypeOK, diskvars
<1>2. CallInv'
  BY DEF Crash, CallInv, Committing
<1> QED  BY <1>1, <1>2

-----------------------------------------------------------------------------
(* Locks, and who commits.                                                 *)

LEMMA HoldStep ==
    ASSUME TypeOK, HoldInv, Next
    PROVE  HoldInv'
<1>1. ASSUME NEW p \in Proc, NEW b \in Block \cup {NoBlock},
             hold' = [hold EXCEPT ![p] = b],
             b = NoBlock \/ b = hold[p] \/ Unlocked(b)
      PROVE  HoldInv'
  <2>1. \A q \in Proc : hold'[q] = IF q = p THEN b ELSE hold[q]
    BY <1>1 DEF TypeOK
  <2> QED  BY <1>1, <2>1 DEF HoldInv, Unlocked
<1>2. ASSUME UNCHANGED hold PROVE HoldInv'
  BY <1>2 DEF HoldInv
<1>3. ASSUME NEW p \in Proc, Write(p) \/ balloc_write(p) PROVE HoldInv'
  <2>1. PICK b \in Block : /\ hold' = [hold EXCEPT ![p] = b]
                           /\ b = hold[p] \/ Unlocked(b)
    BY <1>3 DEF Write, balloc_write, Modify
  <2> QED  BY <1>1, <2>1
<1>4. ASSUME NEW p \in Proc, log_write(p) PROVE HoldInv'
  BY <1>1, <1>4 DEF log_write, Release
<1>5. ASSUME NEW p \in Proc, balloc(p) PROVE HoldInv'
  BY <1>1, <1>5, Sizes DEF balloc
<1>6. ASSUME Crash PROVE HoldInv'
  BY <1>6 DEF Crash, HoldInv
<1>7. ASSUME NEW p \in Proc,
             \/ SystemCall(p) \/ begin_op(p) \/ end_op(p) \/ write_log(p)
             \/ write_head(p) \/ install_trans(p) \/ clear_log(p)
             \/ commit_done(p) \/ BallocCall(p) \/ bfree(p)
      PROVE  HoldInv'
  BY <1>2, <1>7 DEF SystemCall, begin_op, end_op, write_log, write_head,
     install_trans, clear_log, commit_done, BallocCall, bfree, procvars
<1>8. ASSUME read_head \/ recover_install \/ recover_clear PROVE HoldInv'
  BY <1>2, <1>8 DEF read_head, recover_install, recover_clear, procvars
<1>9. ASSUME NEW b \in Block, Evict(b) PROVE HoldInv'
  BY <1>2, <1>9 DEF Evict, procvars
<1>10. ASSUME UNCHANGED vars PROVE HoldInv'
  BY <1>2, <1>10 DEF vars, procvars
<1> QED  BY <1>3, <1>4, <1>5, <1>6, <1>7, <1>8, <1>9, <1>10, NextCases

\* Steps that neither start nor end a commit, nor open or close a transaction.
LEMMA CommitFrame ==
    ASSUME NestInv, CommitInv, UNCHANGED <<nest, outstanding, committing>>,
           \A q \in Proc : pc'[q] \in Committing <=> pc[q] \in Committing,
           \/ boot = "up" /\ boot' = "up"
           \/ boot # "up" /\ UNCHANGED pc
    PROVE  NestInv' /\ CommitInv'
<1>1. NestInv'
  BY OpenSame DEF NestInv
<1>2. \A q \in Proc : (pc'[q] \in Committing) = (pc[q] \in Committing)
  OBVIOUS
<1>3. CommitInv'
  BY <1>2 DEF CommitInv
<1> QED  BY <1>1, <1>3

LEMMA Running ==
    ASSUME CommitInv, NEW p \in Proc, pc[p] # "idle"
    PROVE  boot = "up"
  BY DEF CommitInv

LEMMA MovesCommit ==
    ASSUME TypeOK, CallInv, NestInv, CommitInv, NEW p \in Proc,
           \/ SystemCall(p) \/ Write(p) \/ balloc_write(p) \/ log_write(p)
           \/ BallocCall(p) \/ balloc(p) \/ write_log(p) \/ write_head(p)
           \/ install_trans(p) \/ clear_log(p)
    PROVE  NestInv' /\ CommitInv'
<1>1. UNCHANGED <<nest, outstanding, committing, boot>>
  BY DEF SystemCall, Write, balloc_write, log_write, BallocCall, balloc,
         write_log, write_head, install_trans, clear_log, logvars
<1>2. boot = "up"
  BY Running DEF SystemCall, Write, balloc_write, log_write, BallocCall,
     balloc, write_log, write_head, install_trans, clear_log
<1>3. ASSUME NEW l \in PC, pc' = [pc EXCEPT ![p] = l],
             l \in Committing <=> pc[p] \in Committing
      PROVE  NestInv' /\ CommitInv'
  BY <1>1, <1>2, <1>3, CommitFrame DEF TypeOK
<1>4. ASSUME UNCHANGED pc PROVE NestInv' /\ CommitInv'
  BY <1>1, <1>2, <1>4, CommitFrame
<1>5. CASE SystemCall(p) \/ BallocCall(p) \/ balloc(p)
  BY <1>3, <1>5 DEF SystemCall, BallocCall, balloc, goto, Committing, PC
<1>6. CASE Write(p) \/ balloc_write(p)
  <2>1. PICK l \in {"append", "panic"} : pc' = [pc EXCEPT ![p] = l]
    BY <1>6 DEF Write, balloc_write, Modify, goto
  <2>2. pc[p] \in {"body", "zero"}
    BY <1>6 DEF Write, balloc_write
  <2>3. l \in PC /\ l \notin Committing /\ pc[p] \notin Committing
    BY <2>1, <2>2 DEF Committing, PC
  <2> QED  BY <1>3, <2>1, <2>3
<1>7. CASE log_write(p)
  <2>1. PICK l \in {"body", "zero", "end"} : pc' = [pc EXCEPT ![p] = l]
    BY <1>7 DEF log_write, goto
  <2>2. pc[p] = "append"
    BY <1>7 DEF log_write
  <2>3. l \in PC /\ l \notin Committing /\ pc[p] \notin Committing
    BY <2>1, <2>2 DEF Committing, PC
  <2> QED  BY <1>3, <2>1, <2>3
<1>8. CASE write_log(p) \/ write_head(p) \/ install_trans(p) \/ clear_log(p)
  <2>1. \/ \E l \in Committing : pc' = [pc EXCEPT ![p] = l]
        \/ UNCHANGED pc
    BY <1>8 DEF write_log, write_head, install_trans, clear_log, goto,
                Committing
  <2>2. pc[p] \in Committing
    BY <1>8 DEF write_log, write_head, install_trans, clear_log, Committing
  <2> QED  BY <1>3, <1>4, <2>1, <2>2 DEF Committing, PC
<1> QED  BY <1>5, <1>6, <1>7, <1>8

LEMMA begin_opCommit ==
    ASSUME TypeOK, CallInv, NestInv, CommitInv, NEW p \in Proc, begin_op(p)
    PROVE  NestInv' /\ CommitInv'
<1>1. boot = "up" /\ boot' = "up" /\ pc[p] = "begin" /\ UNCHANGED committing
  BY Running DEF begin_op
<1>2. CASE committing \/ ~Room
  <2>1. pc' = [pc EXCEPT ![p] = "sleep"] /\ UNCHANGED <<outstanding, nest>>
    BY <1>2 DEF begin_op, goto
  <2>2. \A q \in Proc : pc'[q] \in Committing <=> pc[q] \in Committing
    BY <1>1, <2>1 DEF TypeOK, Committing
  <2> QED  BY <1>1, <2>1, <2>2, CommitFrame
<1>3. CASE ~(committing \/ ~Room)
  <2>1. /\ outstanding' = outstanding + 1 /\ nest' = [nest EXCEPT ![p] = @ + 1]
        /\ \E l \in {"zero", "body"} : pc' = [pc EXCEPT ![p] = l]
    BY <1>3 DEF begin_op, goto
  <2>2. nest[p] \in 0 .. 1
    BY <1>1 DEF CallInv
  <2>3. NestInv'
    BY <2>1, <2>2, Opens
  <2>4. \A q \in Proc : (pc'[q] \in Committing) = (pc[q] \in Committing)
    BY <1>1, <2>1 DEF TypeOK, Committing
  <2>5. CommitInv'
    BY <1>1, <1>3, <2>4 DEF CommitInv
  <2> QED  BY <2>3, <2>5
<1> QED  BY <1>2, <1>3

LEMMA end_opCommit ==
    ASSUME TypeOK, CallInv, NestInv, CommitInv, NEW p \in Proc, end_op(p)
    PROVE  NestInv' /\ CommitInv'
<1> DEFINE f == [pc EXCEPT ![p] = IF nest[p] > 1 THEN "body" ELSE "idle"]
<1>1. /\ pc[p] \in {"body", "end"}
      /\ outstanding' = outstanding - 1
      /\ nest' = [nest EXCEPT ![p] = @ - 1]
      /\ \/ /\ outstanding = 1 /\ committing' = TRUE
            /\ \E l \in {"done", "wlog"} : pc' = [pc EXCEPT ![p] = l]
         \/ outstanding # 1 /\ pc' = Awake(f) /\ UNCHANGED committing
      /\ UNCHANGED boot
  BY DEF end_op, LastCall, goto
<1>2. boot = "up"
  BY <1>1, Running
<1>3. nest[p] \in 1 .. 2
  BY <1>1 DEF CallInv
<1>4. outstanding > 0
  <2>1. nest[p] > 0
    BY <1>3
  <2> QED  BY <2>1, Counted
<1>5. ~committing /\ \A q \in Proc : pc[q] \notin Committing
  BY <1>4 DEF CommitInv
<1>6. NestInv'
  BY <1>1, <1>3, Closes
<1>7. CommitInv'
  <2>1. CASE /\ outstanding = 1 /\ committing' = TRUE
             /\ \E l \in {"done", "wlog"} : pc' = [pc EXCEPT ![p] = l]
    <3>1. outstanding' = 0
      BY <1>1, <2>1
    <3>2. \A q \in Proc : (pc'[q] \in Committing) = (q = p)
      BY <1>5, <2>1 DEF TypeOK, Committing
    <3> QED  BY <1>1, <1>2, <2>1, <3>1, <3>2 DEF CommitInv
  <2>2. CASE pc' = Awake(f) /\ UNCHANGED committing
    <3>1. /\ f \in [Proc -> PC]
          /\ \A q \in Proc : f[q] \notin Committing
      BY <1>5 DEF TypeOK, PC, Committing
    <3>2. \A q \in Proc : pc'[q] = IF f[q] = "sleep" THEN "begin" ELSE f[q]
      BY <2>2, <3>1, AwakeAt
    <3> HIDE DEF f
    <3>3. \A q \in Proc : pc'[q] \notin Committing
      BY <3>1, <3>2 DEF Committing
    <3>4. ~committing' /\ boot' = "up"
      BY <1>1, <1>2, <1>5, <2>2
    <3> QED  BY <3>3, <3>4 DEF CommitInv
  <2> QED  BY <1>1, <2>1, <2>2
<1> QED  BY <1>6, <1>7

LEMMA commit_doneCommit ==
    ASSUME TypeOK, CallInv, NestInv, CommitInv, NEW p \in Proc, commit_done(p)
    PROVE  NestInv' /\ CommitInv'
<1> DEFINE f == [pc EXCEPT ![p] = "idle"]
<1>1. /\ pc[p] = "done" /\ committing' = FALSE /\ pc' = Awake(f)
      /\ UNCHANGED <<outstanding, nest, boot>>
  BY DEF commit_done
<1>2. boot = "up"
  BY <1>1, Running
<1>3. f \in [Proc -> PC] /\ \A q \in Proc : f[q] \notin Committing
  BY <1>1 DEF TypeOK, PC, Committing, CommitInv
<1>4. \A q \in Proc : pc'[q] = IF f[q] = "sleep" THEN "begin" ELSE f[q]
  BY <1>1, <1>3, AwakeAt
<1> HIDE DEF f
<1>5. \A q \in Proc : pc'[q] \notin Committing
  BY <1>3, <1>4 DEF Committing
<1>6. CommitInv'
  BY <1>1, <1>2, <1>5 DEF CommitInv
<1>7. NestInv'
  BY <1>1, OpenSame DEF NestInv
<1> QED  BY <1>6, <1>7

LEMMA CrashCommit ==
    ASSUME TypeOK, Crash
    PROVE  NestInv' /\ CommitInv'
<1>1. /\ nest' = [p \in Proc |-> 0] /\ pc' = [p \in Proc |-> "idle"]
      /\ outstanding' = 0 /\ committing' = FALSE /\ boot' = "read"
  BY DEF Crash
<1>2. Open' = {}
  BY <1>1, SMT DEF Open
<1>3. NestInv'
  BY <1>1, <1>2, FS_EmptySet DEF NestInv
<1>4. CommitInv'
  BY <1>1 DEF CommitInv, Committing
<1> QED  BY <1>3, <1>4

LEMMA CommitStep ==
    ASSUME TypeOK, CallInv, NestInv, CommitInv, Next
    PROVE  NestInv' /\ CommitInv'
<1>1. ASSUME NEW p \in Proc, bfree(p) PROVE NestInv' /\ CommitInv'
  BY <1>1, CommitFrame DEF bfree, procvars, logvars
<1>2. ASSUME NEW b \in Block, Evict(b) PROVE NestInv' /\ CommitInv'
  BY <1>2, CommitFrame DEF Evict, procvars, logvars
<1>3. ASSUME read_head \/ recover_install PROVE NestInv' /\ CommitInv'
  <2>1. UNCHANGED <<nest, outstanding, committing, pc>> /\ boot # "up"
    BY <1>3 DEF read_head, recover_install, procvars, logvars
  <2> QED  BY <2>1, CommitFrame
<1>4. ASSUME recover_clear PROVE NestInv' /\ CommitInv'
  <2>1. /\ UNCHANGED <<nest, outstanding, committing, pc>>
        /\ boot # "up" /\ boot' = "up"
    BY <1>4 DEF recover_clear, procvars
  <2>2. NestInv'
    BY <2>1, OpenSame DEF NestInv
  <2> QED  BY <2>1, <2>2 DEF CommitInv
<1>5. ASSUME UNCHANGED vars PROVE NestInv' /\ CommitInv'
  BY <1>5, CommitFrame DEF vars, procvars, logvars
<1> QED  BY <1>1, <1>2, <1>3, <1>4, <1>5, NextCases, MovesCommit,
            begin_opCommit, end_opCommit, commit_doneCommit, CrashCommit

-----------------------------------------------------------------------------
(* The blocks that calls write get into the log.                           *)

LEMMA AppendContains ==
    ASSUME NEW s \in Seq(Block), NEW b \in Block, NEW x
    PROVE  Contains(Append(s, b), x) <=> Contains(s, x) \/ x = b
<1>1. /\ Len(Append(s, b)) = Len(s) + 1 /\ Len(s) \in Nat
      /\ Append(s, b)[Len(s) + 1] = b
      /\ \A i \in 1 .. Len(s) : Append(s, b)[i] = s[i]
  OBVIOUS
<1>2. \A i \in 1 .. Len(s) + 1 : i \in 1 .. Len(s) \/ i = Len(s) + 1
  BY <1>1, SMT
<1>3. /\ \A i \in 1 .. Len(s) : i \in 1 .. Len(s) + 1
      /\ Len(s) + 1 \in 1 .. Len(s) + 1
  BY <1>1, SMT
<1> QED  BY <1>1, <1>2, <1>3 DEF Contains

\* A set of at most one block, and one more.
LEMMA TwoBlocks ==
    ASSUME NEW b \in Block, NEW S, S = {} \/ S = {Bitmap}
    PROVE  Cardinality(S \cup {b}) <= MAXOPBLOCKS
<1>1. IsFiniteSet(S) /\ (Cardinality(S) = 0 \/ Cardinality(S) = 1)
  <2>1. CASE S = {}
    BY <2>1, FS_EmptySet, Zenon
  <2>2. CASE S = {Bitmap}
    BY <2>2, FS_Singleton, Zenon
  <2> QED  BY <2>1, <2>2
<1>2. Cardinality(S \cup {b}) = IF b \in S THEN Cardinality(S)
                                           ELSE Cardinality(S) + 1
  BY <1>1, FS_AddElement
<1> QED  BY <1>1, <1>2, Sizes, SMT

\* Steps that write no block and take none out of the log.
LEMMA WroteFrame ==
    ASSUME WroteInv, UNCHANGED <<wrote, nest>>,
           \A b : Contains(lh, b) => Contains(lh', b),
           \A q \in Proc :
              /\ pc'[q] = "append" <=> pc[q] = "append"
              /\ pc'[q] = "panic" <=> pc[q] = "panic"
              /\ pc'[q] = "zero" => pc[q] = "zero"
              /\ pc[q] \in {"append", "panic", "zero"} =>
                    hold'[q] = hold[q] /\ alloc'[q] = alloc[q]
    PROVE  WroteInv'
<1>1. \A q \in Proc :
         /\ (pc'[q] \in {"append", "panic"}) = (pc[q] \in {"append", "panic"})
         /\ pc[q] \in {"append", "panic"} => hold'[q] = hold[q]
  OBVIOUS
<1>2. \A q \in Proc :
         /\ nest'[q] = 0 => wrote'[q] = {}
         /\ Cardinality(wrote'[q]) <= MAXOPBLOCKS
         /\ pc'[q] = "append" /\ nest'[q] = 1 =>
               /\ hold'[q] \in wrote'[q]
               /\ alloc'[q] /\ hold'[q] = Bitmap => wrote'[q] = {Bitmap}
         /\ pc'[q] = "zero" /\ nest'[q] = 1 =>
               wrote'[q] = IF hold'[q] = Bitmap THEN {} ELSE {Bitmap}
  BY DEF WroteInv, Logged
<1>3. \A q \in Proc : \A b \in wrote'[q] :
         Contains(lh', b) \/ (pc'[q] \in {"append", "panic"} /\ hold'[q] = b)
  BY <1>1 DEF WroteInv, Logged
<1> QED  BY <1>2, <1>3 DEF WroteInv, Logged

\* With no transaction open nothing is written.
LEMMA WroteNothing ==
    ASSUME WroteInv, \A q \in Proc : nest[q] = 0, UNCHANGED <<wrote, nest>>
    PROVE  WroteInv'
  BY Sizes, FS_EmptySet, SMT DEF WroteInv, Logged

LEMMA WriteWrote ==
    ASSUME TypeOK, CallInv, WroteInv, NEW p \in Proc, Write(p)
    PROVE  WroteInv'
<1>1. PICK b \in Block :
         /\ Modify(p, b) /\ wrote' = [wrote EXCEPT ![p] = @ \cup {b}]
         /\ Cardinality(wrote[p] \cup {b}) <= MAXOPBLOCKS
  BY DEF Write
<1>2. /\ pc[p] = "body" /\ nest[p] = 1 /\ ~alloc[p]
      /\ UNCHANGED <<nest, lh, alloc>>
  BY DEF Write, CallInv, logvars
<1>3. /\ \A q \in Proc : q # p => /\ pc'[q] = pc[q] /\ hold'[q] = hold[q]
                                  /\ wrote'[q] = wrote[q]
      /\ pc'[p] \in {"append", "panic"} /\ hold'[p] = b
      /\ wrote'[p] = wrote[p] \cup {b}
  BY <1>1, <1>2, Modified DEF TypeOK
<1> QED  BY <1>1, <1>2, <1>3 DEF WroteInv, Logged

LEMMA balloc_writeWrote ==
    ASSUME TypeOK, CallInv, WroteInv, NEW p \in Proc, balloc_write(p)
    PROVE  WroteInv'
<1>1. PICK b \in Block :
         /\ \/ hold[p] = Bitmap /\ b = Bitmap
            \/ hold[p] = NoBlock /\ b # Bitmap /\ Unlocked(b)
         /\ Modify(p, b)
         /\ wrote' = [wrote EXCEPT ![p] = IF nest[p] > 1 THEN @
                                          ELSE @ \cup {b}]
  BY DEF balloc_write
<1>2. /\ pc[p] = "zero" /\ nest[p] \in 1 .. 2 /\ UNCHANGED <<nest, lh, alloc>>
  BY DEF balloc_write, CallInv, logvars
<1>3. /\ \A q \in Proc : q # p => /\ pc'[q] = pc[q] /\ hold'[q] = hold[q]
                                  /\ wrote'[q] = wrote[q]
      /\ pc'[p] \in {"append", "panic"} /\ hold'[p] = b
      /\ wrote'[p] = IF nest[p] > 1 THEN wrote[p] ELSE wrote[p] \cup {b}
  BY <1>1, <1>2, Modified DEF TypeOK
<1>4. nest[p] = 1 => Cardinality(wrote[p] \cup {b}) <= MAXOPBLOCKS
  <2>1. nest[p] = 1 => wrote[p] = {} \/ wrote[p] = {Bitmap}
    BY <1>2 DEF WroteInv, Logged
  <2> QED  BY <2>1, TwoBlocks
<1>5. CASE nest[p] = 1
  <2>1. b = Bitmap => wrote[p] = {}
    BY <1>1, <1>2, <1>5, Sizes DEF WroteInv, Logged
  <2>2. wrote'[p] = wrote[p] \cup {b} /\ (b = Bitmap => wrote'[p] = {Bitmap})
    BY <1>3, <1>5, <2>1
  <2>3. \A c \in wrote'[p] : Contains(lh', c) \/ c = hold'[p]
    BY <1>2, <1>3, <2>2 DEF WroteInv, Logged
  <2>4. Cardinality(wrote'[p]) <= MAXOPBLOCKS
    BY <1>4, <1>5, <2>2
  <2>5. Logged(p)'
    BY <1>2, <1>3, <1>5, <2>2, <2>3, <2>4 DEF Logged
  <2>6. ASSUME NEW q \in Proc, q # p PROVE Logged(q)'
    BY <1>2, <1>3, <2>6 DEF WroteInv, Logged
  <2> QED  BY <2>5, <2>6 DEF WroteInv
<1>6. CASE nest[p] = 2
  <2>1. Logged(p)'
    BY <1>2, <1>3, <1>6 DEF WroteInv, Logged
  <2>2. ASSUME NEW q \in Proc, q # p PROVE Logged(q)'
    BY <1>2, <1>3, <2>2 DEF WroteInv, Logged
  <2> QED  BY <2>1, <2>2 DEF WroteInv
<1> QED  BY <1>2, <1>5, <1>6

LEMMA log_writeWrote ==
    ASSUME TypeOK, CallInv, WroteInv, NEW p \in Proc, log_write(p)
    PROVE  WroteInv'
<1> DEFINE b == hold[p]
<1>1. /\ pc[p] = "append"
      /\ lh' = (IF Contains(lh, b) THEN lh ELSE Append(lh, b))
      /\ hold' = [hold EXCEPT ![p] = NoBlock]
      /\ \/ pc' = [pc EXCEPT ![p] = "body"]
         \/ b = Bitmap /\ alloc[p] /\ pc' = [pc EXCEPT ![p] = "zero"]
         \/ pc' = [pc EXCEPT ![p] = "end"]
      /\ UNCHANGED <<nest, wrote, alloc>>
  BY DEF log_write, Release, goto
<1>2. b \in Block
  BY <1>1 DEF TypeOK, CallInv
<1>3. \A x : Contains(lh', x) <=> Contains(lh, x) \/ x = b
  <2>1. CASE Contains(lh, b)
    BY <1>1, <2>1
  <2>2. CASE ~Contains(lh, b)
    BY <1>1, <1>2, <2>2, AppendContains DEF TypeOK
  <2> QED  BY <2>1, <2>2
<1>4. /\ \A q \in Proc : q # p => pc'[q] = pc[q] /\ hold'[q] = hold[q]
      /\ pc'[p] \in {"body", "zero", "end"} /\ hold'[p] = NoBlock
      /\ pc'[p] = "zero" => b = Bitmap /\ alloc[p]
  BY <1>1 DEF TypeOK
<1>5. nest[p] = 1 /\ b = Bitmap /\ alloc[p] => wrote[p] = {Bitmap}
  BY <1>1 DEF WroteInv, Logged
<1> HIDE DEF b
<1>6. ASSUME NEW q \in Proc, q # p
      PROVE  Logged(q)'
  <2>1. Logged(q)
    BY DEF WroteInv
  <2>2. /\ pc'[q] = pc[q] /\ hold'[q] = hold[q] /\ wrote' = wrote
        /\ nest' = nest /\ alloc' = alloc
        /\ \A x : Contains(lh, x) => Contains(lh', x)
    BY <1>1, <1>3, <1>4, <1>6
  <2> QED  BY <2>1, <2>2 DEF Logged
<1>7. Logged(p)'
  <2>1. Logged(p)
    BY DEF WroteInv
  <2>2. \A c \in wrote'[p] : Contains(lh', c)
    BY <1>1, <1>3, <2>1 DEF Logged, b
  <2>3. NoBlock # Bitmap
    BY Sizes
  <2>4. pc'[p] = "zero" /\ nest'[p] = 1 => wrote'[p] = {Bitmap}
    BY <1>1, <1>4, <1>5
  <2> QED  BY <1>1, <1>4, <2>1, <2>2, <2>3, <2>4 DEF Logged
<1> QED  BY <1>6, <1>7 DEF WroteInv

LEMMA begin_opWrote ==
    ASSUME TypeOK, CallInv, WroteInv, NEW p \in Proc, begin_op(p)
    PROVE  WroteInv'
<1>1. pc[p] = "begin" /\ UNCHANGED <<lh, hold, wrote, alloc>>
  BY DEF begin_op
<1>2. CASE committing \/ ~Room
  <2>1. pc' = [pc EXCEPT ![p] = "sleep"] /\ UNCHANGED nest
    BY <1>2 DEF begin_op, goto
  <2>2. \A q \in Proc : pc'[q] = IF q = p THEN "sleep" ELSE pc[q]
    BY <2>1 DEF TypeOK
  <2> QED  BY <1>1, <2>1, <2>2, WroteFrame
<1>3. CASE ~(committing \/ ~Room)
  <2>1. /\ \A q \in Proc : q # p => pc'[q] = pc[q] /\ nest'[q] = nest[q]
        /\ pc'[p] = IF alloc[p] THEN "zero" ELSE "body"
        /\ nest'[p] = nest[p] + 1
    BY <1>3 DEF begin_op, goto, TypeOK
  <2>2. /\ nest[p] \in 0 .. 1
        /\ hold[p] = IF alloc[p] THEN Bitmap ELSE NoBlock
    BY <1>1 DEF CallInv
  <2>3. ASSUME NEW q \in Proc, q # p PROVE Logged(q)'
    BY <1>1, <2>1, <2>3 DEF WroteInv, Logged
  <2>4. /\ \A b \in wrote[p] : Contains(lh, b)
        /\ Cardinality(wrote[p]) <= MAXOPBLOCKS
        /\ nest[p] = 0 => wrote[p] = {}
    BY <1>1 DEF WroteInv, Logged
  <2>5. /\ pc'[p] \in {"zero", "body"} /\ nest'[p] # 0 /\ UNCHANGED <<wrote, lh>>
        /\ pc'[p] = "zero" /\ nest'[p] = 1 =>
              hold'[p] = Bitmap /\ wrote[p] = {}
    BY <1>1, <2>1, <2>2, <2>4
  <2>6. Logged(p)'
    BY <2>4, <2>5 DEF Logged
  <2> QED  BY <2>3, <2>6 DEF WroteInv
<1> QED  BY <1>2, <1>3

LEMMA end_opWrote ==
    ASSUME TypeOK, CallInv, NestInv, WroteInv, NEW p \in Proc, end_op(p)
    PROVE  WroteInv'
<1>0. /\ nest' = [nest EXCEPT ![p] = @ - 1] /\ nest[p] \in 1 .. 2
      /\ alloc' = [alloc EXCEPT ![p] = FALSE]
      /\ wrote' = [wrote EXCEPT ![p] = IF nest[p] > 1 THEN @ ELSE {}]
      /\ \A q \in Proc : q # p => pc'[q] = pc[q]
                                   \/ (pc[q] = "sleep" /\ pc'[q] = "begin")
      /\ UNCHANGED <<hold, lh>>
  BY Ends
<1>1. /\ \A q \in Proc : q # p =>
            /\ nest'[q] = nest[q] /\ alloc'[q] = alloc[q] /\ wrote'[q] = wrote[q]
            /\ pc'[q] = pc[q] \/ (pc[q] = "sleep" /\ pc'[q] = "begin")
      /\ nest'[p] = nest[p] - 1 /\ UNCHANGED <<hold, lh>>
      /\ wrote'[p] = IF nest[p] > 1 THEN wrote[p] ELSE {}
  BY <1>0 DEF TypeOK
<1>2. /\ pc[p] \in {"body", "end"} /\ nest[p] \in 1 .. 2
      /\ \/ pc'[p] = "body" /\ nest[p] = 2
         \/ pc'[p] \in {"idle", "wlog", "done"} /\ nest[p] = 1
  BY Ends
<1>3. ASSUME NEW q \in Proc, q # p PROVE Logged(q)'
  BY <1>1, <1>3 DEF WroteInv, Logged
<1>4. CASE nest[p] = 2
  <2>1. pc'[p] = "body" /\ nest'[p] = 1 /\ wrote'[p] = wrote[p] /\ lh' = lh
    BY <1>1, <1>2, <1>4
  <2>2. /\ \A b \in wrote[p] : Contains(lh, b)
        /\ Cardinality(wrote[p]) <= MAXOPBLOCKS
    BY <1>2 DEF WroteInv, Logged
  <2>3. Logged(p)'
    BY <2>1, <2>2 DEF Logged
  <2> QED  BY <1>3, <2>3 DEF WroteInv
<1>5. CASE nest[p] = 1
  <2>1. wrote'[p] = {} /\ pc'[p] \in {"idle", "wlog", "done"}
    BY <1>1, <1>2, <1>5
  <2>2. Cardinality(wrote'[p]) <= MAXOPBLOCKS
    BY <2>1, FS_EmptySet, Sizes
  <2>3. Logged(p)'
    BY <2>1, <2>2 DEF Logged
  <2> QED  BY <1>3, <2>3 DEF WroteInv
<1>6. Logged(p)' => WroteInv'
  BY <1>3 DEF WroteInv
<1> QED  BY <1>2, <1>4, <1>5, <1>6

LEMMA WroteStep ==
    ASSUME TypeOK, CallInv, NestInv, CommitInv, HeaderInv, WroteInv, Next
    PROVE  WroteInv'
<1>1. ASSUME NEW p \in Proc,
             \/ SystemCall(p) \/ BallocCall(p) \/ balloc(p)
      PROVE  WroteInv'
  <2>1. /\ pc[p] \in {"idle", "body", "bread"} /\ UNCHANGED <<wrote, nest, lh>>
        /\ \E l \in {"begin", "bread"} : pc' = [pc EXCEPT ![p] = l]
        /\ \A q \in Proc : q # p => hold'[q] = hold[q] /\ alloc'[q] = alloc[q]
    BY <1>1 DEF SystemCall, BallocCall, balloc, goto, logvars, TypeOK
  <2>2. /\ \A q \in Proc : q # p => pc'[q] = pc[q]
        /\ pc'[p] \in {"begin", "bread"}
    BY <2>1 DEF TypeOK
  <2> QED  BY <2>1, <2>2, WroteFrame
<1>2. ASSUME NEW p \in Proc,
             write_log(p) \/ write_head(p) \/ install_trans(p)
      PROVE  WroteInv'
  <2>1. /\ pc[p] \in Committing
        /\ UNCHANGED <<wrote, nest, lh, hold, alloc>>
        /\ UNCHANGED pc
              \/ \E l \in Committing : pc' = [pc EXCEPT ![p] = l]
    BY <1>2 DEF write_log, write_head, install_trans, goto, logvars, Committing
  <2>2. /\ \A q \in Proc : q # p => pc'[q] = pc[q]
        /\ pc'[p] \in Committing
    BY <2>1 DEF TypeOK
  <2> QED  BY <2>1, <2>2, WroteFrame DEF Committing
<1>3. ASSUME NEW p \in Proc, clear_log(p) \/ commit_done(p) PROVE WroteInv'
  <2>1. pc[p] \in Committing /\ UNCHANGED <<wrote, nest>>
    BY <1>3 DEF clear_log, commit_done, Committing
  <2>2. \A q \in Proc : nest[q] = 0
    BY <2>1, Counted DEF CommitInv
  <2> QED  BY <2>1, <2>2, WroteNothing
<1>4. ASSUME NEW p \in Proc, bfree(p) PROVE WroteInv'
  BY <1>4, WroteFrame DEF bfree, procvars, logvars
<1>5. ASSUME NEW b \in Block, Evict(b) PROVE WroteInv'
  BY <1>5, WroteFrame DEF Evict, procvars, logvars
<1>6. ASSUME read_head \/ recover_install \/ recover_clear PROVE WroteInv'
  <2>1. boot # "up" /\ UNCHANGED <<wrote, nest>>
    BY <1>6 DEF read_head, recover_install, recover_clear, procvars
  <2>2. \A q \in Proc : nest[q] = 0
    BY <2>1, Counted DEF CommitInv
  <2> QED  BY <2>1, <2>2, WroteNothing
<1>7. ASSUME Crash PROVE WroteInv'
  BY <1>7, FS_EmptySet, Sizes DEF Crash, WroteInv, Logged
<1>8. ASSUME UNCHANGED vars PROVE WroteInv'
  BY <1>8, WroteFrame DEF vars, procvars, logvars
<1> QED  BY <1>1, <1>2, <1>3, <1>4, <1>5, <1>6, <1>7, <1>8, NextCases,
            WriteWrote, balloc_writeWrote, log_writeWrote, begin_opWrote,
            end_opWrote

-----------------------------------------------------------------------------
(* The room that begin_op() reserves.                                      *)

LEMMA WroteFinite ==
    ASSUME TypeOK, NEW q \in Proc
    PROVE  IsFiniteSet(wrote[q]) /\ Cardinality(wrote[q]) \in Nat
<1>1. wrote[q] \subseteq Block
  BY DEF TypeOK
<1>2. IsFiniteSet(wrote[q])
  BY <1>1, Sizes, FS_Subset
<1> QED  BY <1>2, FS_CardinalityType

LEMMA MayAddAt ==
    ASSUME TypeOK, NEW q \in Proc
    PROVE  /\ ToAppend(q) \in 0 .. 1
           /\ MayAdd(<<q, 1>>) = MAXOPBLOCKS - Cardinality(wrote[q])
                                    + (IF nest[q] = 1 THEN ToAppend(q) ELSE 0)
           /\ MayAdd(<<q, 1>>) \in Int
           /\ MayAdd(<<q, 2>>) =
                 (IF pc[q] = "zero" THEN 1 ELSE ToAppend(q))
                   + (IF pc[q] \in {"zero", "append", "panic"} /\ hold[q] = Bitmap
                      THEN 1 ELSE 0)
           /\ MayAdd(<<q, 2>>) \in 0 .. 2
<1>1. ToAppend(q) \in 0 .. 1
  BY DEF ToAppend
<1>2. <<q, 1>>[1] = q /\ <<q, 1>>[2] = 1 /\ <<q, 2>>[1] = q /\ <<q, 2>>[2] # 1
  OBVIOUS
<1>3. MayAdd(<<q, 1>>) = MAXOPBLOCKS - Cardinality(wrote[q])
                           + (IF nest[q] = 1 THEN ToAppend(q) ELSE 0)
  BY <1>2 DEF MayAdd
<1>4. MayAdd(<<q, 2>>) =
         (IF pc[q] = "zero" THEN 1 ELSE ToAppend(q))
           + (IF pc[q] \in {"zero", "append", "panic"} /\ hold[q] = Bitmap
              THEN 1 ELSE 0)
  BY <1>2 DEF MayAdd
<1>5. Cardinality(wrote[q]) \in Nat
  BY WroteFinite
<1> QED  BY <1>1, <1>3, <1>4, <1>5, Sizes

LEMMA Pairs ==
    \A o \in Proc \X (1 .. 2) :
       o = <<o[1], o[2]>> /\ o[1] \in Proc /\ (o[2] = 1 \/ o[2] = 2)
  OBVIOUS

LEMMA MayAddInt ==
    ASSUME TypeOK, NEW o \in Open
    PROVE  MayAdd(o) \in Int
<1>1. o \in Proc \X (1 .. 2)
  BY DEF Open
<1>2. PICK q \in Proc : o = <<q, 1>> \/ o = <<q, 2>>
  BY <1>1, Pairs
<1>3. MayAdd(<<q, 1>>) \in Int /\ MayAdd(<<q, 2>>) \in Int
  BY MayAddAt
<1> QED  BY <1>2, <1>3

LEMMA ReservedFinite ==
    ASSUME TypeOK
    PROVE  IsFiniteSet(Reserved) /\ Cardinality(Reserved) \in Nat
<1>1. 1 \in Int /\ MAXOPBLOCKS \in Int
  BY Sizes
<1>2. IsFiniteSet(1 .. MAXOPBLOCKS)
  BY <1>1, FS_Interval, Zenon
<1>3. IsFiniteSet(Open \X (1 .. MAXOPBLOCKS))
  BY <1>2, OpenFinite, FS_Product
<1>4. Reserved \subseteq Open \X (1 .. MAXOPBLOCKS)
  BY DEF Reserved
<1>5. IsFiniteSet(Reserved)
  BY <1>3, <1>4, FS_Subset
<1> QED  BY <1>5, FS_CardinalityType

LEMMA MayAddPrimed ==
    ASSUME TypeOK', NEW q \in Proc
    PROVE  /\ MayAdd(<<q, 1>>)' = MAXOPBLOCKS - Cardinality(wrote'[q])
                                     + (IF nest'[q] = 1 THEN ToAppend(q)' ELSE 0)
           /\ MayAdd(<<q, 1>>)' \in Int
           /\ MayAdd(<<q, 2>>)' =
                 (IF pc'[q] = "zero" THEN 1 ELSE ToAppend(q)')
                   + (IF pc'[q] \in {"zero", "append", "panic"} /\ hold'[q] = Bitmap
                      THEN 1 ELSE 0)
           /\ MayAdd(<<q, 2>>)' \in Int
           /\ ToAppend(q)' \in 0 .. 1
<1>1. ToAppend(q)' \in 0 .. 1
  BY DEF ToAppend
<1>2. <<q, 1>>[1] = q /\ <<q, 1>>[2] = 1 /\ <<q, 2>>[1] = q /\ <<q, 2>>[2] # 1
  OBVIOUS
<1>3. MayAdd(<<q, 1>>)' = MAXOPBLOCKS - Cardinality(wrote'[q])
                            + (IF nest'[q] = 1 THEN ToAppend(q)' ELSE 0)
  BY <1>2 DEF MayAdd
<1>4. MayAdd(<<q, 2>>)' =
         (IF pc'[q] = "zero" THEN 1 ELSE ToAppend(q)')
           + (IF pc'[q] \in {"zero", "append", "panic"} /\ hold'[q] = Bitmap
              THEN 1 ELSE 0)
  BY <1>2 DEF MayAdd
<1>5. Cardinality(wrote'[q]) \in Nat
  <2>1. wrote'[q] \subseteq Block
    BY DEF TypeOK
  <2>2. IsFiniteSet(wrote'[q])
    BY <2>1, Sizes, FS_Subset
  <2> QED  BY <2>2, FS_CardinalityType
<1> QED  BY <1>1, <1>3, <1>4, <1>5, Sizes

LEMMA ReservedPrimed ==
    ASSUME TypeOK'
    PROVE  Cardinality(Reserved') \in Nat
<1>1. 1 \in Int /\ MAXOPBLOCKS \in Int /\ 2 \in Int
  BY Sizes
<1>2. IsFiniteSet(1 .. MAXOPBLOCKS) /\ IsFiniteSet(1 .. 2)
  BY <1>1, FS_Interval, Zenon
<1>3. Open' \subseteq Proc \X (1 .. 2)
  BY DEF Open
<1>4. IsFiniteSet(Open')
  BY <1>2, <1>3, Sizes, FS_Product, FS_Subset
<1>5. IsFiniteSet(Open' \X (1 .. MAXOPBLOCKS))
  BY <1>2, <1>4, FS_Product
<1>6. Reserved' \subseteq Open' \X (1 .. MAXOPBLOCKS)
  BY DEF Reserved
<1>7. IsFiniteSet(Reserved')
  BY <1>5, <1>6, FS_Subset
<1> QED  BY <1>7, FS_CardinalityType

\* A step that opens no transaction, adds nothing to the log, and lets no
\* transaction add more than it could.
LEMMA FitsFrame ==
    ASSUME TypeOK, TypeOK', LogFits, boot = "up", Len(lh') <= Len(lh),
           \A q \in Proc : \A k \in 1 .. 2 :
              k <= nest'[q] =>
                 k <= nest[q] /\ MayAdd(<<q, k>>)' <= MayAdd(<<q, k>>)
    PROVE  LogFits'
<1>1. \A o \in Open' : o \in Open /\ MayAdd(o)' <= MayAdd(o)
  <2>1. ASSUME NEW o, o \in Open' PROVE o \in Open /\ MayAdd(o)' <= MayAdd(o)
    <3>1. /\ o \in Proc \X (1 .. 2) /\ o[2] <= nest'[o[1]]
          /\ o = <<o[1], o[2]>>
      BY <2>1 DEF Open
    <3>2. PICK q \in Proc, k \in 1 .. 2 : o = <<q, k>>
      BY <3>1
    <3>3. k <= nest'[q]
      BY <3>1, <3>2
    <3>4. k <= nest[q] /\ MayAdd(<<q, k>>)' <= MayAdd(<<q, k>>)
      BY <3>3
    <3> QED  BY <3>1, <3>2, <3>4 DEF Open
  <2> QED  BY <2>1
<1>2. Reserved' \subseteq Reserved
  <2>1. ASSUME NEW s \in Reserved' PROVE s \in Reserved
    <3>1. /\ s \in Open' \X (1 .. MAXOPBLOCKS)
          /\ s[1] \in Open' /\ s[2] \in 1 .. MAXOPBLOCKS
          /\ s[2] <= MayAdd(s[1])'
      BY DEF Reserved
    <3>2. PICK o \in Open' : o = s[1]
      BY <3>1
    <3>3. o \in Open /\ MayAdd(o)' <= MayAdd(o) /\ MayAdd(o) \in Int
      BY <1>1, MayAddInt
    <3>4. MayAdd(o)' \in Int
      <4>1. PICK q \in Proc : o = <<q, 1>> \/ o = <<q, 2>>
        BY <3>3, Pairs DEF Open
      <4>2. MayAdd(<<q, 1>>)' \in Int /\ MayAdd(<<q, 2>>)' \in Int
        BY MayAddPrimed
      <4> QED  BY <4>1, <4>2
    <3>5. s[2] <= MayAdd(o)
      BY <3>1, <3>2, <3>3, <3>4, Sizes
    <3>6. s \in Open \X (1 .. MAXOPBLOCKS) /\ s[2] <= MayAdd(s[1])
      BY <3>1, <3>2, <3>3, <3>5
    <3> QED  BY <3>6 DEF Reserved
  <2> QED  BY <2>1
<1>3. Cardinality(Reserved') <= Cardinality(Reserved)
  BY <1>2, ReservedFinite, FS_Subset
<1>4. /\ Cardinality(Reserved) \in Nat /\ Cardinality(Reserved') \in Nat
      /\ Len(lh) \in Nat /\ Len(lh') \in Nat
  <2>1. IsFiniteSet(Reserved')
    BY <1>2, ReservedFinite, FS_Subset
  <2> QED  BY <2>1, ReservedFinite, FS_CardinalityType DEF TypeOK
<1>5. Len(lh) + Cardinality(Reserved) <= LOGSIZE
  BY DEF LogFits
<1>6. Len(lh') + Cardinality(Reserved') <= LOGSIZE
  BY <1>3, <1>4, <1>5, Sizes
<1> QED  BY <1>6 DEF LogFits

\* With no transaction open nothing is reserved.
LEMMA FitsNothing ==
    ASSUME TypeOK', \A q \in Proc : nest'[q] = 0, Len(lh') <= LOGSIZE
    PROVE  LogFits'
<1>1. \A o \in Proc \X (1 .. 2) : ~(o[2] <= nest'[o[1]])
  <2>1. \A o \in Proc \X (1 .. 2) : nest'[o[1]] = 0 /\ o[2] \in 1 .. 2
    OBVIOUS
  <2> QED  BY <2>1
<1>2. Open' = {}
  BY <1>1 DEF Open
<1>3. Reserved' = {}
  BY <1>2 DEF Reserved
<1>4. Cardinality(Reserved') = 0
  BY <1>3, FS_EmptySet, Zenon
<1> QED  BY <1>4, SMT DEF LogFits, TypeOK

\* Steps that leave the transactions and their places in log_write() alone.
LEMMA FitsSame ==
    ASSUME TypeOK, TypeOK', LogFits, UNCHANGED <<nest, wrote, lh>>,
           boot' = "up" => boot = "up",
           \A q \in Proc :
              /\ pc'[q] = "append" <=> pc[q] = "append"
              /\ pc'[q] = "panic" <=> pc[q] = "panic"
              /\ pc'[q] = "zero" <=> pc[q] = "zero"
              /\ pc[q] \in {"append", "panic", "zero"} => hold'[q] = hold[q]
    PROVE  LogFits'
<1>1. CASE boot # "up"
  BY <1>1 DEF LogFits
<1>2. CASE boot = "up"
  <2>1. ASSUME NEW q \in Proc
        PROVE  /\ MayAdd(<<q, 1>>)' = MayAdd(<<q, 1>>)
               /\ MayAdd(<<q, 2>>)' = MayAdd(<<q, 2>>)
    <3>1. ToAppend(q)' = ToAppend(q)
      BY DEF ToAppend
    <3> QED  BY <3>1 DEF MayAdd
  <2>2. ASSUME NEW q \in Proc, NEW k \in 1 .. 2
        PROVE  MayAdd(<<q, k>>)' <= MayAdd(<<q, k>>)
    <3>1. CASE k = 1
      <4>1. MayAdd(<<q, 1>>) \in Int /\ MayAdd(<<q, 1>>)' = MayAdd(<<q, 1>>)
        BY <2>1, MayAddAt
      <4>2. MayAdd(<<q, 1>>)' <= MayAdd(<<q, 1>>)
        BY <4>1
      <4> QED  BY <3>1, <4>2
    <3>2. CASE k = 2
      <4>0. MayAdd(<<q, 2>>) \in 0 .. 2
        BY MayAddAt
      <4>1. MayAdd(<<q, 2>>)' = MayAdd(<<q, 2>>)
        BY <2>1
      <4>2. MayAdd(<<q, 2>>)' <= MayAdd(<<q, 2>>)
        BY <4>0, <4>1
      <4> QED  BY <3>2, <4>2
    <3> QED  BY <3>1, <3>2
  <2>3. \A q \in Proc : \A k \in 1 .. 2 :
           MayAdd(<<q, k>>)' <= MayAdd(<<q, k>>)
    BY <2>2
  <2>4. Len(lh') <= Len(lh)
    BY DEF TypeOK
  <2> QED  BY <1>2, <2>3, <2>4, FitsFrame
<1> QED  BY <1>1, <1>2

\* A process that does not move adds no more than before.
LEMMA OthersAdd ==
    ASSUME TypeOK, TypeOK', NEW q \in Proc,
           \A b : Contains(lh, b) => Contains(lh', b),
           nest'[q] = nest[q], wrote'[q] = wrote[q], hold'[q] = hold[q],
           pc'[q] = pc[q] \/ (pc[q] = "sleep" /\ pc'[q] = "begin"),
           NEW k \in 1 .. 2
    PROVE  MayAdd(<<q, k>>)' <= MayAdd(<<q, k>>)
<1>1. ToAppend(q)' <= ToAppend(q) /\ ToAppend(q) \in 0 .. 1 /\ ToAppend(q)' \in 0 .. 1
  BY DEF ToAppend
<1>2. /\ MayAdd(<<q, 1>>)' = MAXOPBLOCKS - Cardinality(wrote'[q])
                                 + (IF nest'[q] = 1 THEN ToAppend(q)' ELSE 0)
      /\ MayAdd(<<q, 2>>)' =
            (IF pc'[q] = "zero" THEN 1 ELSE ToAppend(q)')
              + (IF pc'[q] \in {"zero", "append", "panic"} /\ hold'[q] = Bitmap
                 THEN 1 ELSE 0)
  BY MayAddPrimed
<1>3. /\ MayAdd(<<q, 1>>) = MAXOPBLOCKS - Cardinality(wrote[q])
                                + (IF nest[q] = 1 THEN ToAppend(q) ELSE 0)
      /\ MayAdd(<<q, 2>>) =
            (IF pc[q] = "zero" THEN 1 ELSE ToAppend(q))
              + (IF pc[q] \in {"zero", "append", "panic"} /\ hold[q] = Bitmap
                 THEN 1 ELSE 0)
  BY MayAddAt
<1>4. Cardinality(wrote[q]) \in Nat
  BY WroteFinite
<1>5. MayAdd(<<q, 1>>)' <= MayAdd(<<q, 1>>)
  BY <1>1, <1>2, <1>3, <1>4, Sizes
<1>6. MayAdd(<<q, 2>>)' <= MayAdd(<<q, 2>>)
  <2>1. /\ pc'[q] = "zero" <=> pc[q] = "zero"
        /\ pc'[q] = "append" <=> pc[q] = "append"
    OBVIOUS
  <2> QED  BY <1>1, <1>2, <1>3, <2>1
<1> QED  BY <1>5, <1>6

\* A step of p that adds nothing to the log.
LEMMA FitsOne ==
    ASSUME TypeOK, TypeOK', LogFits, boot = "up", NEW p \in Proc, lh' = lh,
           \A q \in Proc : q # p =>
              /\ nest'[q] = nest[q] /\ wrote'[q] = wrote[q] /\ hold'[q] = hold[q]
              /\ pc'[q] = pc[q] \/ (pc[q] = "sleep" /\ pc'[q] = "begin"),
           \A k \in 1 .. 2 : k <= nest'[p] =>
              k <= nest[p] /\ MayAdd(<<p, k>>)' <= MayAdd(<<p, k>>)
    PROVE  LogFits'
<1>1. ASSUME NEW q \in Proc, NEW k \in 1 .. 2, k <= nest'[q]
      PROVE  k <= nest[q] /\ MayAdd(<<q, k>>)' <= MayAdd(<<q, k>>)
  <2>1. CASE q = p
    BY <1>1, <2>1
  <2>2. CASE q # p
    <3>1. /\ nest'[q] = nest[q] /\ wrote'[q] = wrote[q] /\ hold'[q] = hold[q]
          /\ pc'[q] = pc[q] \/ (pc[q] = "sleep" /\ pc'[q] = "begin")
          /\ \A b : Contains(lh, b) => Contains(lh', b)
      BY <2>2
    <3>2. MayAdd(<<q, k>>)' <= MayAdd(<<q, k>>)
      BY <3>1, OthersAdd
    <3> QED  BY <1>1, <3>1, <3>2
  <2> QED  BY <2>1, <2>2
<1>2. Len(lh') <= Len(lh)
  BY SMT DEF TypeOK
<1> QED  BY <1>1, <1>2, FitsFrame

\* One more block in a set of blocks.
LEMMA OneMore ==
    ASSUME TypeOK, NEW p \in Proc, NEW b
    PROVE  /\ Cardinality(wrote[p] \cup {b}) =
                 Cardinality(wrote[p]) + (IF b \in wrote[p] THEN 0 ELSE 1)
           /\ b \in wrote[p] => Cardinality(wrote[p]) >= 1
<1>1. IsFiniteSet(wrote[p]) /\ Cardinality(wrote[p]) \in Nat
  BY WroteFinite
<1>2. Cardinality(wrote[p] \cup {b}) = IF b \in wrote[p] THEN Cardinality(wrote[p])
                                        ELSE Cardinality(wrote[p]) + 1
  BY <1>1, FS_AddElement
<1>3. b \in wrote[p] => Cardinality(wrote[p]) # 0
  BY <1>1, FS_EmptySet
<1> QED  BY <1>1, <1>2, <1>3

LEMMA WriteFits ==
    ASSUME TypeOK, TypeOK', CallInv, CommitInv, WroteInv, LogFits,
           NEW p \in Proc, Write(p)
    PROVE  LogFits'
<1>1. PICK b \in Block :
         /\ Modify(p, b) /\ wrote' = [wrote EXCEPT ![p] = @ \cup {b}]
  BY DEF Write
<1>2. /\ pc[p] = "body" /\ nest[p] = 1 /\ UNCHANGED <<nest, lh>>
  BY DEF Write, CallInv, logvars
<1>3. boot = "up"
  BY <1>2, Running
<1>4. /\ \A q \in Proc : q # p => /\ pc'[q] = pc[q] /\ hold'[q] = hold[q]
                                  /\ wrote'[q] = wrote[q]
      /\ pc'[p] \in {"append", "panic"} /\ hold'[p] = b
      /\ wrote'[p] = wrote[p] \cup {b}
  BY <1>1, <1>2, Modified DEF TypeOK
<1>5. b \in wrote[p] => Contains(lh, b)
  BY <1>2 DEF WroteInv, Logged
<1>6. /\ ToAppend(p)' \in 0 .. 1
      /\ b \in wrote[p] => ToAppend(p)' = 0
      /\ ToAppend(p) = 0
  BY <1>2, <1>4, <1>5 DEF ToAppend
<1>7. Cardinality(wrote'[p]) = Cardinality(wrote[p])
                                 + (IF b \in wrote[p] THEN 0 ELSE 1)
  BY <1>4, OneMore
<1>8. MayAdd(<<p, 1>>)' = MAXOPBLOCKS - Cardinality(wrote'[p])
                            + (IF nest'[p] = 1 THEN ToAppend(p)' ELSE 0)
  BY MayAddPrimed
<1>9. MayAdd(<<p, 1>>) = MAXOPBLOCKS - Cardinality(wrote[p])
                           + (IF nest[p] = 1 THEN ToAppend(p) ELSE 0)
  BY MayAddAt
<1>10. Cardinality(wrote[p]) \in Nat
  BY WroteFinite
<1>11. MayAdd(<<p, 1>>)' <= MayAdd(<<p, 1>>)
  BY <1>2, <1>6, <1>7, <1>8, <1>9, <1>10, Sizes
<1>12. \A k \in 1 .. 2 : k <= nest'[p] =>
          k <= nest[p] /\ MayAdd(<<p, k>>)' <= MayAdd(<<p, k>>)
  <2>1. \A k \in 1 .. 2 : k <= nest'[p] => k = 1
    BY <1>2
  <2> QED  BY <1>2, <1>11, <2>1
<1> QED  BY <1>2, <1>3, <1>4, <1>12, FitsOne

LEMMA balloc_writeFits ==
    ASSUME TypeOK, TypeOK', CallInv, CommitInv, WroteInv, LogFits,
           NEW p \in Proc, balloc_write(p)
    PROVE  LogFits'
<1>1. PICK b \in Block :
         /\ \/ hold[p] = Bitmap /\ b = Bitmap
            \/ hold[p] = NoBlock /\ b # Bitmap /\ Unlocked(b)
         /\ Modify(p, b)
         /\ wrote' = [wrote EXCEPT ![p] = IF nest[p] > 1 THEN @
                                          ELSE @ \cup {b}]
  BY DEF balloc_write
<1>2. /\ pc[p] = "zero" /\ nest[p] \in 1 .. 2 /\ UNCHANGED <<nest, lh>>
  BY DEF balloc_write, CallInv, logvars
<1>3. boot = "up"
  BY <1>2, Running
<1>4. /\ \A q \in Proc : q # p => /\ pc'[q] = pc[q] /\ hold'[q] = hold[q]
                                  /\ wrote'[q] = wrote[q]
      /\ pc'[p] \in {"append", "panic"} /\ hold'[p] = b
      /\ wrote'[p] = IF nest[p] > 1 THEN wrote[p] ELSE wrote[p] \cup {b}
  BY <1>1, <1>2, Modified DEF TypeOK
<1>5. nest[p] = 1 => b \notin wrote[p]
  BY <1>1, <1>2, Sizes DEF WroteInv, Logged
<1>6. ToAppend(p)' \in 0 .. 1 /\ ToAppend(p) = 0
  BY <1>2 DEF ToAppend
<1>7. /\ MayAdd(<<p, 1>>)' = MAXOPBLOCKS - Cardinality(wrote'[p])
                                + (IF nest'[p] = 1 THEN ToAppend(p)' ELSE 0)
      /\ MayAdd(<<p, 2>>)' =
            (IF pc'[p] = "zero" THEN 1 ELSE ToAppend(p)')
              + (IF pc'[p] \in {"zero", "append", "panic"} /\ hold'[p] = Bitmap
                 THEN 1 ELSE 0)
  BY MayAddPrimed
<1>8. /\ MayAdd(<<p, 1>>) = MAXOPBLOCKS - Cardinality(wrote[p])
                               + (IF nest[p] = 1 THEN ToAppend(p) ELSE 0)
      /\ MayAdd(<<p, 2>>) =
            (IF pc[p] = "zero" THEN 1 ELSE ToAppend(p))
              + (IF pc[p] \in {"zero", "append", "panic"} /\ hold[p] = Bitmap
                 THEN 1 ELSE 0)
  BY MayAddAt
<1>9. Cardinality(wrote[p]) \in Nat
  BY WroteFinite
<1>10. MayAdd(<<p, 1>>)' <= MayAdd(<<p, 1>>)
  <2>1. CASE nest[p] = 1
    <3>1. Cardinality(wrote'[p]) = Cardinality(wrote[p]) + 1
      BY <1>4, <1>5, <2>1, OneMore
    <3> QED  BY <1>2, <1>6, <1>7, <1>8, <1>9, <2>1, <3>1, Sizes
  <2>2. CASE nest[p] = 2
    <3>1. wrote'[p] = wrote[p] /\ nest'[p] = 2
      BY <1>2, <1>4, <2>2
    <3> QED  BY <1>7, <1>8, <1>9, <2>2, <3>1, Sizes
  <2> QED  BY <1>2, <2>1, <2>2
<1>11. MayAdd(<<p, 2>>)' <= MayAdd(<<p, 2>>)
  <2>1. MayAdd(<<p, 2>>)' <= 1 + (IF b = Bitmap THEN 1 ELSE 0)
    BY <1>4, <1>6, <1>7
  <2>2. MayAdd(<<p, 2>>) = 1 + (IF b = Bitmap THEN 1 ELSE 0)
    BY <1>1, <1>2, <1>8, Sizes
  <2> QED  BY <2>1, <2>2
<1>12. \A k \in 1 .. 2 : k <= nest'[p] =>
          k <= nest[p] /\ MayAdd(<<p, k>>)' <= MayAdd(<<p, k>>)
  <2>1. \A k \in 1 .. 2 : k = 1 \/ k = 2
    OBVIOUS
  <2> QED  BY <1>2, <1>10, <1>11, <2>1
<1> QED  BY <1>2, <1>3, <1>4, <1>12, FitsOne

LEMMA log_writeFits ==
    ASSUME TypeOK, TypeOK', CallInv, CommitInv, WroteInv, LogFits,
           NEW p \in Proc, log_write(p)
    PROVE  LogFits'
<1> DEFINE b == hold[p]
           k == nest[p]
<1>1. /\ pc[p] = "append"
      /\ lh' = (IF Contains(lh, b) THEN lh ELSE Append(lh, b))
      /\ hold' = [hold EXCEPT ![p] = NoBlock]
      /\ \/ pc' = [pc EXCEPT ![p] = "body"] /\ ~alloc[p]
         \/ pc' = [pc EXCEPT ![p] = "zero"] /\ b = Bitmap
         \/ pc' = [pc EXCEPT ![p] = "end"] /\ b # Bitmap
      /\ UNCHANGED <<nest, wrote, alloc>>
  BY DEF log_write, Release, goto
<1>2. /\ b \in Block /\ b # NoBlock /\ (k = 1 \/ (k = 2 /\ alloc[p]))
  BY <1>1, Sizes DEF TypeOK, CallInv
<1>3. boot = "up"
  BY <1>1, Running
<1>4. /\ \A q \in Proc : q # p => pc'[q] = pc[q] /\ hold'[q] = hold[q]
      /\ pc'[p] \in {"body", "zero", "end"} /\ hold'[p] = NoBlock
      /\ k = 2 => IF b = Bitmap THEN pc'[p] = "zero" ELSE pc'[p] = "end"
  BY <1>1, <1>2 DEF TypeOK
<1>5. k = 1 => b \in wrote[p]
  BY <1>1 DEF WroteInv, Logged
<1>6. ToAppend(p)' = 0 /\ ToAppend(p) = IF Contains(lh, b) THEN 0 ELSE 1
  BY <1>1, <1>4 DEF ToAppend
<1>7. /\ MayAdd(<<p, 1>>)' = MAXOPBLOCKS - Cardinality(wrote'[p])
                                + (IF nest'[p] = 1 THEN ToAppend(p)' ELSE 0)
      /\ MayAdd(<<p, 2>>)' =
            (IF pc'[p] = "zero" THEN 1 ELSE ToAppend(p)')
              + (IF pc'[p] \in {"zero", "append", "panic"} /\ hold'[p] = Bitmap
                 THEN 1 ELSE 0)
  BY MayAddPrimed
<1>8. /\ MayAdd(<<p, 1>>) = MAXOPBLOCKS - Cardinality(wrote[p])
                               + (IF nest[p] = 1 THEN ToAppend(p) ELSE 0)
      /\ MayAdd(<<p, 2>>) =
            (IF pc[p] = "zero" THEN 1 ELSE ToAppend(p))
              + (IF pc[p] \in {"zero", "append", "panic"} /\ hold[p] = Bitmap
                 THEN 1 ELSE 0)
  BY MayAddAt
<1>9. Cardinality(wrote[p]) \in Nat
  BY WroteFinite
<1> HIDE DEF b, k
<1>10. k = nest[p] /\ b = hold[p]
  BY DEF b, k
<1>11. MayAdd(<<p, 1>>)' = MayAdd(<<p, 1>>) - (IF k = 1 THEN ToAppend(p) ELSE 0)
  BY <1>1, <1>6, <1>7, <1>8, <1>9, <1>10, Sizes
<1>12. k = 2 => MayAdd(<<p, 2>>)' = MayAdd(<<p, 2>>) - ToAppend(p)
  <2>1. CASE b = Bitmap /\ k = 2
    <3>1. pc'[p] = "zero" /\ hold'[p] # Bitmap
      BY <1>4, <2>1, Sizes
    <3>2. MayAdd(<<p, 2>>)' = 1
      BY <1>7, <3>1
    <3>3. MayAdd(<<p, 2>>) = ToAppend(p) + 1
      BY <1>1, <1>8, <1>10, <2>1
    <3> QED  BY <1>6, <3>2, <3>3
  <2>2. CASE b # Bitmap /\ k = 2
    <3>1. pc'[p] = "end"
      BY <1>4, <2>2
    <3>2. MayAdd(<<p, 2>>)' = 0
      BY <1>6, <1>7, <3>1
    <3>3. MayAdd(<<p, 2>>) = ToAppend(p)
      BY <1>1, <1>6, <1>8, <1>10, <2>2
    <3> QED  BY <1>6, <3>2, <3>3
  <2> QED  BY <2>1, <2>2
<1>13. CASE Contains(lh, b)
  <2>1. lh' = lh /\ ToAppend(p) = 0
    BY <1>1, <1>6, <1>10, <1>13
  <2>2. MayAdd(<<p, 1>>) \in Int /\ MayAdd(<<p, 2>>) \in 0 .. 2
    BY MayAddAt
  <2>3. MayAdd(<<p, 1>>)' <= MayAdd(<<p, 1>>)
    BY <1>11, <2>1, <2>2
  <2>4. k = 2 => MayAdd(<<p, 2>>)' <= MayAdd(<<p, 2>>)
    BY <1>12, <2>1, <2>2
  <2>5. \A j \in 1 .. 2 : j <= nest'[p] =>
           j <= nest[p] /\ MayAdd(<<p, j>>)' <= MayAdd(<<p, j>>)
    <3>1. \A j \in 1 .. 2 : j = 1 \/ j = 2
      OBVIOUS
    <3>2. nest'[p] = k /\ (2 <= k => k = 2)
      BY <1>1, <1>2, <1>10
    <3> QED  BY <1>10, <2>3, <2>4, <3>1, <3>2
  <2>6. \A q \in Proc : q # p => nest'[q] = nest[q] /\ wrote'[q] = wrote[q]
    BY <1>1
  <2> QED  BY <1>3, <1>4, <2>1, <2>5, <2>6, FitsOne
<1>14. CASE ~Contains(lh, b)
  <2>0. PICK h \in 1 .. 2 : h = k
    BY <1>2
  <2> DEFINE o == <<p, h>>
             m == MayAdd(o)
  <2>1. lh' = Append(lh, b) /\ ToAppend(p) = 1
    BY <1>1, <1>6, <1>10, <1>14
  <2>2. MayAdd(o)' = m - 1 /\ m \in 1 .. MAXOPBLOCKS
    <3>0. MAXOPBLOCKS \in Int /\ 2 <= MAXOPBLOCKS
      BY Sizes
    <3>1. CASE k = 1
      <4>1. Cardinality(wrote[p]) >= 1
        BY <1>5, <3>1, OneMore
      <4>2. MayAdd(<<p, 1>>)' = MayAdd(<<p, 1>>) - 1
        BY <1>11, <2>1, <3>1
      <4>3. MayAdd(<<p, 1>>) = MAXOPBLOCKS - Cardinality(wrote[p]) + 1
        BY <1>8, <1>10, <2>1, <3>1
      <4>4. Cardinality(wrote[p]) <= MAXOPBLOCKS
        BY DEF WroteInv, Logged
      <4>5. MayAdd(<<p, 1>>) \in 1 .. MAXOPBLOCKS
        BY <1>9, <3>0, <4>1, <4>3, <4>4, SMT
      <4> QED  BY <2>0, <3>1, <4>2, <4>5
    <3>2. CASE k = 2
      <4>1. MayAdd(<<p, 2>>)' = MayAdd(<<p, 2>>) - 1
        BY <1>12, <2>1, <3>2
      <4>2. MayAdd(<<p, 2>>) \in 1 .. 2
        BY <1>1, <1>8, <2>1
      <4>3. MayAdd(<<p, 2>>) \in 1 .. MAXOPBLOCKS
        BY <3>0, <4>2, SMT
      <4> QED  BY <2>0, <3>2, <4>1, <4>3
    <3> QED  BY <1>2, <3>1, <3>2
  <2>3. o \in Open /\ Open' = Open
    <3>1. Open' = Open
      BY <1>1, OpenSame
    <3>2. h \in 1 .. 2 /\ h <= nest[p]
      BY <1>2, <1>10, <2>0
    <3> QED  BY <3>1, <3>2 DEF Open
  <2>4. ASSUME NEW x \in Open, x # o
        PROVE  MayAdd(x)' <= MayAdd(x) /\ MayAdd(x) \in Int /\ MayAdd(x)' \in Int
    <3>1. PICK q \in Proc, j \in 1 .. 2 : x = <<q, j>> /\ j <= nest[q]
      BY Pairs DEF Open
    <3>2. MayAdd(x) \in Int
      BY <2>4, MayAddInt
    <3>3. MayAdd(x)' \in Int
      <4>1. MayAdd(<<q, 1>>)' \in Int /\ MayAdd(<<q, 2>>)' \in Int
        BY MayAddPrimed
      <4>2. j = 1 \/ j = 2
        OBVIOUS
      <4> QED  BY <3>1, <4>1, <4>2
    <3>4. CASE q = p
      <4>1. j = 1 /\ k = 2
        BY <1>2, <1>10, <2>0, <2>4, <3>1, <3>4
      <4>2. x = <<p, 1>> /\ MayAdd(<<p, 1>>) \in Int
        BY <3>1, <3>2, <3>4, <4>1
      <4>3. MayAdd(<<p, 1>>)' <= MayAdd(<<p, 1>>)
        BY <1>11, <4>1, <4>2
      <4> QED  BY <3>2, <3>3, <4>2, <4>3
    <3>5. CASE q # p
      <4>1. \A c : Contains(lh, c) => Contains(lh', c)
        BY <1>2, <2>1, AppendContains DEF TypeOK
      <4>2. nest'[q] = nest[q] /\ wrote'[q] = wrote[q] /\ pc'[q] = pc[q]
            /\ hold'[q] = hold[q]
        BY <1>1, <1>4, <3>5
      <4>3. MayAdd(<<q, j>>)' <= MayAdd(<<q, j>>)
        BY <4>1, <4>2, OthersAdd
      <4> QED  BY <3>1, <3>2, <3>3, <4>3
    <3> QED  BY <3>4, <3>5
  <2> HIDE DEF o, m
  <2>5. Reserved' \subseteq Reserved \ {<<o, m>>}
    <3>1. ASSUME NEW s \in Reserved'
          PROVE  s \in Reserved /\ s # <<o, m>>
      <4>1. /\ s \in Open' \X (1 .. MAXOPBLOCKS) /\ s = <<s[1], s[2]>>
            /\ s[1] \in Open' /\ s[2] \in 1 .. MAXOPBLOCKS
            /\ s[2] <= MayAdd(s[1])'
        BY DEF Reserved
      <4>2. PICK x \in Open : x = s[1]
        BY <2>3, <4>1
      <4>3. CASE x = o
        <5>0. MayAdd(s[1])' = m - 1
          BY <2>2, <4>2, <4>3
        <5>1. s[2] <= m - 1 /\ s[2] \in Nat /\ m \in Nat
          BY <2>2, <4>1, <5>0, Sizes
        <5>2. s[2] <= m /\ s[2] # m
          BY <5>1
        <5>3. s[2] <= MayAdd(s[1])
          BY <4>2, <4>3, <5>2 DEF m
        <5>4. s # <<o, m>>
          BY <4>1, <5>2
        <5> QED  BY <2>3, <4>1, <5>3, <5>4 DEF Reserved
      <4>4. CASE x # o
        <5>1. s[2] <= MayAdd(x)
          BY <2>4, <4>1, <4>2, <4>4, Sizes
        <5>2. s # <<o, m>>
          BY <4>1, <4>2, <4>4
        <5> QED  BY <2>3, <4>1, <4>2, <5>1, <5>2 DEF Reserved
      <4> QED  BY <4>3, <4>4
    <3> QED  BY <3>1
  <2>6. <<o, m>> \in Reserved
    <3>1. m <= MayAdd(<<o, m>>[1]) /\ <<o, m>>[1] = o /\ <<o, m>>[2] = m
      BY <2>2, Sizes DEF m
    <3>2. <<o, m>> \in Open \X (1 .. MAXOPBLOCKS)
      BY <2>2, <2>3
    <3> QED  BY <3>1, <3>2 DEF Reserved
  <2>7. /\ Cardinality(Reserved \ {<<o, m>>}) = Cardinality(Reserved) - 1
        /\ IsFiniteSet(Reserved \ {<<o, m>>})
    BY <2>6, ReservedFinite, FS_RemoveElement
  <2>8. /\ Cardinality(Reserved') <= Cardinality(Reserved) - 1
        /\ Cardinality(Reserved') \in Nat
    <3>1. IsFiniteSet(Reserved') /\ Cardinality(Reserved') <= Cardinality(Reserved) - 1
      BY <2>5, <2>7, FS_Subset
    <3> QED  BY <3>1, FS_CardinalityType
  <2>9. Len(lh') = Len(lh) + 1 /\ Len(lh) \in Nat
    BY <1>2, <2>1 DEF TypeOK
  <2>10. Len(lh) + Cardinality(Reserved) <= LOGSIZE /\ Cardinality(Reserved) \in Nat
    BY <1>3, ReservedFinite DEF LogFits
  <2>11. Len(lh') + Cardinality(Reserved') <= LOGSIZE
    BY <2>8, <2>9, <2>10, Sizes
  <2> QED  BY <2>11 DEF LogFits
<1> QED  BY <1>13, <1>14

LEMMA begin_opFits ==
    ASSUME TypeOK, TypeOK', CallInv, NestInv, NestInv', CommitInv, LogFits,
           NEW p \in Proc, begin_op(p)
    PROVE  LogFits'
<1>1. pc[p] = "begin" /\ UNCHANGED <<lh, hold, wrote, boot>> /\ boot = "up"
  BY Running DEF begin_op
<1>2. CASE committing \/ ~Room
  <2>1. pc' = [pc EXCEPT ![p] = "sleep"] /\ UNCHANGED nest
    BY <1>2 DEF begin_op, goto
  <2>2. \A q \in Proc : pc'[q] = IF q = p THEN "sleep" ELSE pc[q]
    BY <2>1 DEF TypeOK
  <2> QED  BY <1>1, <2>1, <2>2, FitsSame
<1>3. CASE ~(committing \/ ~Room)
  <2> DEFINE n == outstanding + 1
             M == MAXOPBLOCKS
  <2>1. outstanding' = n /\ Len(lh) + n * M <= LOGSIZE
    BY <1>3 DEF begin_op, Room
  <2>2. M \in Int /\ 1 \in Int /\ 1 <= M
    BY Sizes
  <2>3. IsFiniteSet(1 .. M) /\ Cardinality(1 .. M) = M
    <3>1. /\ IsFiniteSet(1 .. M)
          /\ Cardinality(1 .. M) = IF 1 > M THEN 0 ELSE M - 1 + 1
      BY <2>2, FS_Interval, Zenon
    <3> QED  BY <2>2, <3>1
  <2>4. IsFiniteSet(Open') /\ Cardinality(Open') = n
    <3>1. Cardinality(Open') = n
      BY <2>1 DEF NestInv
    <3>2. IsFiniteSet(Proc \X (1 .. 2))
      <4>1. 1 \in Int /\ 2 \in Int
        OBVIOUS
      <4>2. IsFiniteSet(1 .. 2)
        BY <4>1, FS_Interval, Zenon
      <4> QED  BY <4>2, Sizes, FS_Product
    <3>3. Open' \subseteq Proc \X (1 .. 2)
      BY DEF Open
    <3> QED  BY <3>1, <3>2, <3>3, FS_Subset
  <2>5. /\ IsFiniteSet(Open' \X (1 .. M))
        /\ Cardinality(Open' \X (1 .. M)) = n * M
    BY <2>3, <2>4, FS_Product
  <2>6. Reserved' \subseteq Open' \X (1 .. M)
    BY DEF Reserved
  <2>7. IsFiniteSet(Reserved') /\ Cardinality(Reserved') <= n * M
    BY <2>5, <2>6, FS_Subset
  <2>8. Cardinality(Reserved') \in Nat
    BY <2>7, FS_CardinalityType
  <2>9. Len(lh') = Len(lh) /\ Len(lh) \in Nat
    BY <1>1 DEF TypeOK
  <2>10. n * M \in Nat
    <3>1. n \in Nat /\ M \in Nat
      BY Sizes DEF TypeOK
    <3> QED  BY <3>1
  <2> HIDE DEF n, M
  <2>11. Len(lh') + Cardinality(Reserved') <= LOGSIZE
    BY <2>1, <2>7, <2>8, <2>9, <2>10, Sizes
  <2> QED  BY <2>11 DEF LogFits
<1> QED  BY <1>2, <1>3

LEMMA end_opFits ==
    ASSUME TypeOK, TypeOK', CallInv, NestInv, CommitInv, LogFits,
           NEW p \in Proc, end_op(p)
    PROVE  LogFits'
<1>0. /\ nest' = [nest EXCEPT ![p] = @ - 1] /\ nest[p] \in 1 .. 2
      /\ wrote' = [wrote EXCEPT ![p] = IF nest[p] > 1 THEN @ ELSE {}]
      /\ \A q \in Proc : q # p => pc'[q] = pc[q]
                                   \/ (pc[q] = "sleep" /\ pc'[q] = "begin")
      /\ UNCHANGED <<hold, lh>>
      /\ pc[p] \in {"body", "end"}
      /\ pc'[p] = "body" \/ nest[p] = 1
  BY Ends
<1>1. boot = "up"
  BY <1>0, Running
<1>2. /\ \A q \in Proc : q # p => nest'[q] = nest[q] /\ wrote'[q] = wrote[q]
      /\ nest'[p] = nest[p] - 1
      /\ nest[p] = 2 => wrote'[p] = wrote[p]
  BY <1>0 DEF TypeOK
<1>3. ASSUME NEW k \in 1 .. 2, k <= nest'[p]
      PROVE  k <= nest[p] /\ MayAdd(<<p, k>>)' <= MayAdd(<<p, k>>)
  <2>1. k = 1 /\ nest[p] = 2 /\ nest'[p] = 1
    BY <1>0, <1>2, <1>3
  <2>2. ToAppend(p)' = 0
    BY <1>0, <2>1 DEF ToAppend
  <2>3. MayAdd(<<p, 1>>)' = MAXOPBLOCKS - Cardinality(wrote'[p])
                              + (IF nest'[p] = 1 THEN ToAppend(p)' ELSE 0)
    BY MayAddPrimed
  <2>4. /\ MayAdd(<<p, 1>>) = MAXOPBLOCKS - Cardinality(wrote[p])
                              + (IF nest[p] = 1 THEN ToAppend(p) ELSE 0)
        /\ MayAdd(<<p, 1>>) \in Int
    BY MayAddAt
  <2>5. wrote'[p] = wrote[p] /\ Cardinality(wrote[p]) \in Nat
    BY <1>2, <2>1, WroteFinite
  <2>6. MayAdd(<<p, 1>>)' <= MayAdd(<<p, 1>>)
    BY <2>1, <2>2, <2>3, <2>4, <2>5, Sizes
  <2> QED  BY <2>1, <2>6
<1> QED  BY <1>0, <1>1, <1>2, <1>3, FitsOne

LEMMA FitsStep ==
    ASSUME TypeOK, TypeOK', CallInv, NestInv, NestInv', CommitInv, HeaderInv,
           WroteInv, LogFits, Next
    PROVE  LogFits'
<1>1. ASSUME NEW p \in Proc,
             \/ SystemCall(p) \/ BallocCall(p) \/ balloc(p)
      PROVE  LogFits'
  <2>1. /\ pc[p] \in {"idle", "body", "bread"}
        /\ UNCHANGED <<wrote, nest, lh, boot>>
        /\ \E l \in {"begin", "bread"} : pc' = [pc EXCEPT ![p] = l]
        /\ \A q \in Proc : q # p => hold'[q] = hold[q]
    BY <1>1 DEF SystemCall, BallocCall, balloc, goto, logvars, TypeOK
  <2>2. /\ \A q \in Proc : q # p => pc'[q] = pc[q]
        /\ pc'[p] \in {"begin", "bread"}
    BY <2>1 DEF TypeOK
  <2> QED  BY <2>1, <2>2, FitsSame
<1>2. ASSUME NEW p \in Proc,
             write_log(p) \/ write_head(p) \/ install_trans(p)
      PROVE  LogFits'
  <2>1. /\ pc[p] \in Committing
        /\ UNCHANGED <<wrote, nest, lh, hold, boot>>
        /\ UNCHANGED pc
              \/ \E l \in Committing : pc' = [pc EXCEPT ![p] = l]
    BY <1>2 DEF write_log, write_head, install_trans, goto, logvars, Committing
  <2>2. /\ \A q \in Proc : q # p => pc'[q] = pc[q]
        /\ pc'[p] \in Committing
    BY <2>1 DEF TypeOK
  <2> QED  BY <2>1, <2>2, FitsSame DEF Committing
<1>3. ASSUME NEW p \in Proc, clear_log(p) \/ commit_done(p) PROVE LogFits'
  <2>1. pc[p] \in Committing /\ UNCHANGED nest /\ lh' \in {lh, <<>>}
    BY <1>3 DEF clear_log, commit_done, Committing
  <2>2. \A q \in Proc : nest'[q] = 0
    BY <2>1, Counted DEF CommitInv
  <2>3. Len(lh') <= LOGSIZE
    BY <2>1, Sizes DEF HeaderInv
  <2> QED  BY <2>2, <2>3, FitsNothing
<1>4. ASSUME NEW p \in Proc, bfree(p) PROVE LogFits'
  BY <1>4, FitsSame DEF bfree, procvars, logvars
<1>5. ASSUME NEW b \in Block, Evict(b) PROVE LogFits'
  BY <1>5, FitsSame DEF Evict, procvars, logvars
<1>6. ASSUME read_head \/ recover_install \/ recover_clear PROVE LogFits'
  <2>1. boot # "up" /\ UNCHANGED nest /\ lh' \in {lh, <<>>, header}
    BY <1>6 DEF read_head, recover_install, recover_clear, procvars, logvars
  <2>2. \A q \in Proc : nest'[q] = 0
    BY <2>1, Counted DEF CommitInv
  <2>3. Len(lh') <= LOGSIZE
    BY <2>1, Sizes DEF HeaderInv
  <2> QED  BY <2>2, <2>3, FitsNothing
<1>7. ASSUME Crash PROVE LogFits'
  BY <1>7 DEF Crash, LogFits
<1>8. ASSUME UNCHANGED vars PROVE LogFits'
  BY <1>8, FitsSame DEF vars, procvars, logvars
<1> QED  BY <1>1, <1>2, <1>3, <1>4, <1>5, <1>6, <1>7, <1>8, NextCases,
            WriteFits, balloc_writeFits, log_writeFits, begin_opFits,
            end_opFits

-----------------------------------------------------------------------------
(* The log in memory, the header on disk, and how far a commit has come.   *)

LEMMA HeaderFrame ==
    ASSUME HeaderInv, UNCHANGED <<lh, header, tail, boot>>,
           \A q \in Proc : pc'[q] \in Committing \/ pc[q] \in Committing =>
                             pc'[q] = pc[q]
    PROVE  HeaderInv'
<1>1. \A q \in Proc :
         /\ \A l \in Committing : (pc'[q] = l) <=> (pc[q] = l)
         /\ (pc'[q] \in {"install", "clear"}) <=> (pc[q] \in {"install", "clear"})
  BY DEF Committing
<1>2. UNCHANGED <<Distinct(lh), Distinct(header)>>
  BY DEF Distinct
<1> QED  BY <1>1, <1>2 DEF HeaderInv, Committing

LEMMA AppendDistinct ==
    ASSUME NEW s \in Seq(Block), NEW b \in Block, Distinct(s), ~Contains(s, b)
    PROVE  Distinct(Append(s, b))
<1>1. /\ Len(Append(s, b)) = Len(s) + 1 /\ Len(s) \in Nat
      /\ Append(s, b)[Len(s) + 1] = b
      /\ \A i \in 1 .. Len(s) : Append(s, b)[i] = s[i]
  OBVIOUS
<1>2. \A i \in 1 .. Len(s) + 1 : i \in 1 .. Len(s) \/ i = Len(s) + 1
  BY <1>1, SMT
<1>3. \A i \in 1 .. Len(s) : s[i] # b
  BY DEF Contains
<1>4. SUFFICES ASSUME NEW i \in 1 .. Len(s) + 1, NEW j \in 1 .. Len(s) + 1,
                      Append(s, b)[i] = Append(s, b)[j]
               PROVE  i = j
  BY <1>1 DEF Distinct
<1> QED  BY <1>1, <1>2, <1>3, <1>4 DEF Distinct

\* While a transaction is open nobody commits.
LEMMA NobodyCommits ==
    ASSUME TypeOK, NestInv, CommitInv, NEW p \in Proc, nest[p] > 0
    PROVE  ~committing /\ \A q \in Proc : pc[q] \notin Committing
  BY Counted DEF CommitInv

LEMMA log_writeHeader ==
    ASSUME TypeOK, CallInv, NestInv, CommitInv, HeaderInv, LogFits',
           TypeOK', NEW p \in Proc, log_write(p)
    PROVE  HeaderInv'
<1> DEFINE b == hold[p]
<1>1. /\ pc[p] = "append"
      /\ lh' = (IF Contains(lh, b) THEN lh ELSE Append(lh, b))
      /\ \/ pc' = [pc EXCEPT ![p] = "body"]
         \/ pc' = [pc EXCEPT ![p] = "zero"]
         \/ pc' = [pc EXCEPT ![p] = "end"]
      /\ UNCHANGED <<header, tail, boot>>
  BY DEF log_write, goto, diskvars
<1>2. b \in Block /\ nest[p] > 0
  BY <1>1 DEF TypeOK, CallInv
<1>3. boot = "up" /\ boot' = "up"
  BY <1>1, Running
<1>4. \A q \in Proc : pc[q] \notin Committing
  BY <1>2, NobodyCommits
<1>5. \A q \in Proc : pc'[q] \notin Committing
  BY <1>1, <1>4 DEF TypeOK, Committing
<1> HIDE DEF b
<1>6. Distinct(lh')
  <2>1. CASE Contains(lh, b)
    BY <1>1, <2>1 DEF HeaderInv
  <2>2. CASE ~Contains(lh, b)
    <3>1. Distinct(Append(lh, b))
      BY <1>2, <2>2, AppendDistinct DEF HeaderInv, TypeOK
    <3> QED  BY <1>1, <2>2, <3>1
  <2> QED  BY <2>1, <2>2
<1>7. Len(lh') <= LOGSIZE
  <2>1. /\ Len(lh') + Cardinality(Reserved') <= LOGSIZE
        /\ Len(lh') \in Nat
    BY <1>3 DEF LogFits, TypeOK
  <2>2. Cardinality(Reserved') \in Nat
    BY ReservedPrimed
  <2> QED  BY <2>1, <2>2, Sizes
<1>8. header' = header /\ header = <<>>
  BY <1>1, <1>3, <1>4 DEF HeaderInv, Committing
<1>9. Distinct(header') /\ Len(header') <= LOGSIZE
  BY <1>8 DEF HeaderInv
<1> QED  BY <1>3, <1>5, <1>6, <1>7, <1>8, <1>9 DEF HeaderInv, Committing

\* A round of commit() by p.
LEMMA CommitHeader ==
    ASSUME TypeOK, CommitInv, HeaderInv, NEW p \in Proc,
           \/ write_log(p) \/ write_head(p) \/ install_trans(p)
           \/ clear_log(p) \/ commit_done(p)
    PROVE  HeaderInv'
<1>1. /\ pc[p] \in Committing /\ boot' = boot
      /\ lh' \in {lh, <<>>}
  BY DEF write_log, write_head, install_trans, clear_log, commit_done, logvars,
         Committing
<1>2. boot = "up" /\ boot' = "up"
  BY <1>1, Running DEF Committing
<1>3. \A q \in Proc : q # p => pc[q] \notin Committing
  BY <1>1 DEF CommitInv
<1>4. Len(lh) \in Nat /\ Len(<<>>) = 0
  BY DEF TypeOK
<1>5. Distinct(<<>>) /\ Len(<<>>) <= LOGSIZE
  BY Sizes DEF Distinct
<1>6. CASE write_log(p)
  <2>1. /\ pc[p] = "wlog" /\ UNCHANGED <<lh, header>>
        /\ \/ tail = Len(lh) /\ pc' = [pc EXCEPT ![p] = "whead"] /\ tail' = 1
           \/ tail # Len(lh) /\ tail' = tail + 1 /\ UNCHANGED pc
    BY <1>6 DEF write_log, goto, logvars
  <2>2. tail \in 1 .. Len(lh)
    BY <2>1 DEF HeaderInv
  <2>3. tail' \in 1 .. Len(lh)
    BY <1>4, <2>1, <2>2
  <2>4. /\ \A q \in Proc : q # p => pc'[q] \notin Committing
        /\ pc'[p] = "wlog" \/ (pc'[p] = "whead" /\ tail' = 1)
    BY <1>3, <2>1 DEF TypeOK
  <2>5. \A q \in Proc : pc[q] \notin {"install", "clear"}
    BY <1>3, <2>1 DEF Committing
  <2>6. UNCHANGED <<Distinct(lh), Distinct(header)>>
    BY <2>1 DEF Distinct
  <2> QED  BY <1>2, <2>1, <2>3, <2>4, <2>5, <2>6 DEF HeaderInv, Committing
<1>7. CASE write_head(p)
  <2>1. /\ pc[p] = "whead" /\ UNCHANGED <<lh, tail>> /\ header' = lh
        /\ pc' = [pc EXCEPT ![p] = "install"]
    BY <1>7 DEF write_head, goto, logvars
  <2>2. /\ \A q \in Proc : q # p => pc'[q] \notin Committing
        /\ pc'[p] = "install"
    BY <1>3, <2>1 DEF TypeOK
  <2>3. tail' \in 1 .. Len(lh')
    BY <2>1 DEF HeaderInv
  <2>4. Distinct(lh') /\ Distinct(header') /\ Len(lh') <= LOGSIZE
        /\ Len(header') <= LOGSIZE
    BY <2>1 DEF HeaderInv
  <2> QED  BY <1>2, <2>1, <2>2, <2>3, <2>4 DEF HeaderInv, Committing
<1>8. CASE install_trans(p)
  <2>1. /\ pc[p] = "install" /\ UNCHANGED <<lh, header>>
        /\ \/ tail = Len(lh) /\ pc' = [pc EXCEPT ![p] = "clear"] /\ tail' = 1
           \/ tail # Len(lh) /\ tail' = tail + 1 /\ UNCHANGED pc
    BY <1>8 DEF install_trans, goto, logvars
  <2>2. tail \in 1 .. Len(lh) /\ header = lh
    BY <2>1 DEF HeaderInv
  <2>3. tail' \in 1 .. Len(lh)
    BY <1>4, <2>1, <2>2
  <2>4. /\ \A q \in Proc : q # p => pc'[q] \notin Committing
        /\ pc'[p] \in {"install", "clear"}
    BY <1>3, <2>1 DEF TypeOK
  <2>5. UNCHANGED <<Distinct(lh), Distinct(header)>>
    BY <2>1 DEF Distinct
  <2> QED  BY <1>2, <2>1, <2>2, <2>3, <2>4, <2>5 DEF HeaderInv, Committing
<1>9. CASE clear_log(p)
  <2>1. lh' = <<>> /\ header' = <<>> /\ pc' = [pc EXCEPT ![p] = "done"]
    BY <1>9 DEF clear_log, goto
  <2>2. /\ \A q \in Proc : q # p => pc'[q] \notin Committing
        /\ pc'[p] = "done"
    BY <1>1, <1>3, <2>1 DEF TypeOK
  <2>3. Distinct(lh') /\ Distinct(header') /\ Len(lh') <= LOGSIZE
        /\ Len(header') <= LOGSIZE
    BY <1>5, <2>1
  <2> QED  BY <1>2, <2>1, <2>2, <2>3 DEF HeaderInv, Committing
<1>10. CASE commit_done(p)
  <2> DEFINE f == [pc EXCEPT ![p] = "idle"]
  <2>1. pc[p] = "done" /\ pc' = Awake(f) /\ UNCHANGED <<lh, header, tail, boot>>
    BY <1>10 DEF commit_done, diskvars
  <2>2. /\ f \in [Proc -> PC]
        /\ \A q \in Proc : f[q] = IF q = p THEN "idle" ELSE pc[q]
    BY DEF TypeOK, PC
  <2>3. \A q \in Proc : pc'[q] = IF f[q] = "sleep" THEN "begin" ELSE f[q]
    BY <2>1, <2>2, AwakeAt
  <2> HIDE DEF f
  <2>4. \A q \in Proc : pc'[q] \notin Committing
    BY <1>3, <2>2, <2>3 DEF Committing
  <2>5. \A q \in Proc : pc[q] \notin {"install", "clear"}
    BY <1>3, <2>1 DEF Committing
  <2>6. UNCHANGED <<Distinct(lh), Distinct(header)>>
    BY <2>1 DEF Distinct
  <2> QED  BY <1>2, <2>1, <2>4, <2>5, <2>6 DEF HeaderInv, Committing
<1> QED  BY <1>6, <1>7, <1>8, <1>9, <1>10

LEMMA RecoverHeader ==
    ASSUME TypeOK, CommitInv, HeaderInv,
           read_head \/ recover_install \/ recover_clear
    PROVE  HeaderInv'
<1>1. boot # "up" /\ UNCHANGED pc /\ \A q \in Proc : pc'[q] = "idle"
  BY DEF read_head, recover_install, recover_clear, procvars, CommitInv
<1>2. Distinct(<<>>) /\ Len(<<>>) = 0
  BY DEF Distinct
<1>3. CASE read_head
  <2>1. /\ boot = "read" /\ lh' = header /\ UNCHANGED <<header, tail>>
        /\ boot' = IF header = <<>> THEN "clear" ELSE "install"
    BY <1>3 DEF read_head, diskvars
  <2>2. /\ Distinct(lh') /\ Distinct(header') /\ Len(lh') <= LOGSIZE
        /\ Len(header') <= LOGSIZE /\ tail' = 1
    BY <2>1 DEF HeaderInv
  <2>3. header # <<>> => 1 \in 1 .. Len(header)
    BY EmptySeq, SMT DEF TypeOK
  <2> QED  BY <1>1, <2>1, <2>2, <2>3 DEF HeaderInv
<1>4. CASE recover_install
  <2>1. /\ boot = "install" /\ UNCHANGED <<lh, header>>
        /\ \/ tail = Len(lh) /\ boot' = "clear" /\ tail' = 1
           \/ tail # Len(lh) /\ tail' = tail + 1 /\ UNCHANGED boot
    BY <1>4 DEF recover_install, logvars
  <2>2. tail \in 1 .. Len(lh) /\ header = lh /\ Len(lh) \in Nat
    BY <2>1 DEF HeaderInv, TypeOK
  <2>3. tail' \in 1 .. Len(lh)
    BY <2>1, <2>2
  <2>4. UNCHANGED <<Distinct(lh), Distinct(header)>>
    BY <2>1 DEF Distinct
  <2> QED  BY <1>1, <2>1, <2>2, <2>3, <2>4 DEF HeaderInv
<1>5. CASE recover_clear
  BY <1>1, <1>2, <1>5, Sizes DEF recover_clear, HeaderInv
<1> QED  BY <1>3, <1>4, <1>5

LEMMA end_opHeader ==
    ASSUME TypeOK, CallInv, NestInv, CommitInv, HeaderInv,
           NEW p \in Proc, end_op(p)
    PROVE  HeaderInv'
<1>1. /\ nest[p] \in 1 .. 2 /\ pc[p] \in {"body", "end"}
      /\ UNCHANGED <<lh, header, boot>>
      /\ \/ pc'[p] \in {"body", "idle"}
         \/ pc'[p] = "wlog" /\ lh # <<>> /\ tail' = 1
         \/ pc'[p] = "done" /\ lh = <<>>
      /\ \A q \in Proc : q # p => pc'[q] = pc[q]
                                   \/ (pc[q] = "sleep" /\ pc'[q] = "begin")
  BY Ends DEF diskvars
<1>2. boot = "up" /\ boot' = "up"
  BY <1>1, Running
<1>3. \A q \in Proc : pc[q] \notin Committing
  <2>1. nest[p] > 0
    BY <1>1
  <2> QED  BY <2>1, NobodyCommits
<1>4. \A q \in Proc : q # p => pc'[q] \notin Committing
  BY <1>1, <1>3 DEF Committing
<1>5. header = <<>>
  BY <1>2, <1>3 DEF HeaderInv, Committing
<1>6. lh # <<>> => 1 \in 1 .. Len(lh)
  BY EmptySeq, SMT DEF TypeOK
<1>7. UNCHANGED <<Distinct(lh), Distinct(header)>>
  BY <1>1 DEF Distinct
<1> QED  BY <1>1, <1>2, <1>4, <1>5, <1>6, <1>7 DEF HeaderInv, Committing

LEMMA HeaderStep ==
    ASSUME TypeOK, TypeOK', CallInv, NestInv, CommitInv, HeaderInv, LogFits',
           Next
    PROVE  HeaderInv'
<1>1. ASSUME NEW p \in Proc,
             \/ SystemCall(p) \/ begin_op(p) \/ Write(p) \/ balloc_write(p)
             \/ BallocCall(p) \/ balloc(p)
      PROVE  HeaderInv'
  <2>1. /\ UNCHANGED <<lh, header, tail, boot>>
        /\ pc[p] \in {"idle", "begin", "body", "zero", "bread"}
    BY <1>1 DEF SystemCall, begin_op, Write, balloc_write, BallocCall, balloc,
                diskvars, logvars
  <2>2. \E l \in {"begin", "sleep", "zero", "body", "panic", "append", "bread"} :
           pc' = [pc EXCEPT ![p] = l]
    BY <1>1 DEF SystemCall, begin_op, Write, balloc_write, BallocCall, balloc,
                Modify, goto
  <2>3. \A q \in Proc : pc'[q] \in Committing \/ pc[q] \in Committing =>
                         pc'[q] = pc[q]
    BY <2>1, <2>2 DEF TypeOK, Committing
  <2> QED  BY <2>1, <2>3, HeaderFrame
<1>2. ASSUME NEW p \in Proc, bfree(p) PROVE HeaderInv'
  BY <1>2, HeaderFrame DEF bfree, procvars, logvars
<1>3. ASSUME NEW b \in Block, Evict(b) PROVE HeaderInv'
  BY <1>3, HeaderFrame DEF Evict, diskvars, procvars, logvars
<1>4. ASSUME Crash PROVE HeaderInv'
  <2>1. /\ boot' = "read" /\ lh' = <<>> /\ tail' = 1 /\ header' = header
        /\ pc' = [p \in Proc |-> "idle"]
    BY <1>4 DEF Crash, diskvars
  <2>2. Distinct(lh') /\ Len(lh') = 0 /\ Distinct(header')
        /\ Len(header') <= LOGSIZE
    BY <2>1 DEF Distinct, HeaderInv
  <2> QED  BY <2>1, <2>2, Sizes DEF HeaderInv
<1>5. ASSUME UNCHANGED vars PROVE HeaderInv'
  BY <1>5, HeaderFrame DEF vars, diskvars, procvars, logvars
<1> QED  BY <1>1, <1>2, <1>3, <1>4, <1>5, NextCases, log_writeHeader,
            CommitHeader, RecoverHeader, end_opHeader

-----------------------------------------------------------------------------
(* Pinned buffers.                                                         *)

\* Steps that touch no buffer.
LEMMA PinFrame ==
    ASSUME PinInv, UNCHANGED <<home, cache, dirty, lh, boot>>,
           \A q \in Proc :
              /\ pc[q] \in {"append", "panic"} =>
                    pc'[q] \in {"append", "panic"} /\ hold'[q] = hold[q]
              /\ pc'[q] \in {"install", "clear"} => pc'[q] = pc[q] /\ tail' = tail
    PROVE  PinInv'
<1>1. \A b : Synced(b)' <=> Synced(b)
  BY DEF Synced
<1> QED  BY <1>1 DEF PinInv

\* Steps of a running system, while nobody commits, on one buffer.
LEMMA PinBuffer ==
    ASSUME PinInv, NEW c,
           \A b \in Block : b # c => /\ home'[b] = home[b] /\ cache'[b] = cache[b]
                                     /\ dirty'[b] = dirty[b],
           \A b : Contains(lh, b) => Contains(lh', b),
           \/ Synced(c)'
           \/ dirty'[c] /\ Contains(lh', c)
           \/ \E p \in Proc : pc'[p] \in {"append", "panic"} /\ hold'[p] = c,
           \A q \in Proc :
              /\ pc[q] \in {"append", "panic"} /\ hold[q] # c =>
                    pc'[q] \in {"append", "panic"} /\ hold'[q] = hold[q]
              /\ pc'[q] \notin {"install", "clear"},
           boot' = "up"
    PROVE  PinInv'
<1>1. ASSUME NEW b \in Block
      PROVE  \/ Synced(b)'
             \/ dirty'[b] /\ Contains(lh', b)
             \/ \E p \in Proc : pc'[p] \in {"append", "panic"} /\ hold'[p] = b
  <2>1. CASE b = c
    BY <2>1
  <2>2. CASE b # c
    BY <2>2 DEF PinInv, Synced
  <2> QED  BY <2>1, <2>2
<1> QED  BY <1>1 DEF PinInv

LEMMA WritePin ==
    ASSUME TypeOK, CallInv, NestInv, CommitInv, PinInv,
           NEW p \in Proc, Write(p) \/ balloc_write(p)
    PROVE  PinInv'
<1>1. PICK b \in Block : Modify(p, b)
  BY DEF Write, balloc_write
<1>2. /\ pc[p] \in {"body", "zero"} /\ nest[p] > 0
      /\ UNCHANGED <<home, dirty, lh, boot>>
  BY DEF Write, balloc_write, CallInv, diskvars, logvars
<1>3. boot = "up" /\ \A q \in Proc : pc[q] \notin Committing
  BY <1>2, Running, NobodyCommits
<1>4. /\ \A c \in Block : c # b => cache'[c] = cache[c]
      /\ \A q \in Proc : q # p => pc'[q] = pc[q] /\ hold'[q] = hold[q]
      /\ pc'[p] \in {"append", "panic"} /\ hold'[p] = b
  BY <1>1, Modified DEF TypeOK
<1>5. \A q \in Proc : pc'[q] \notin {"install", "clear"}
  BY <1>3, <1>4 DEF Committing
<1>6. \A q \in Proc : pc[q] \in {"append", "panic"} =>
                        pc'[q] \in {"append", "panic"} /\ hold'[q] = hold[q]
  BY <1>2, <1>4
<1> QED  BY <1>2, <1>3, <1>4, <1>5, <1>6, PinBuffer

LEMMA log_writePin ==
    ASSUME TypeOK, CallInv, NestInv, CommitInv, PinInv,
           NEW p \in Proc, log_write(p)
    PROVE  PinInv'
<1>1. PICK b \in Block : b = hold[p] /\ pc[p] = "append" /\ nest[p] > 0
  BY DEF log_write, CallInv, TypeOK
<1>2. /\ lh' = (IF Contains(lh, b) THEN lh ELSE Append(lh, b))
      /\ dirty' = [dirty EXCEPT ![b] = TRUE]
      /\ hold' = [hold EXCEPT ![p] = NoBlock]
      /\ \/ pc' = [pc EXCEPT ![p] = "body"]
         \/ pc' = [pc EXCEPT ![p] = "zero"]
         \/ pc' = [pc EXCEPT ![p] = "end"]
      /\ UNCHANGED <<home, cache, boot>>
  BY <1>1 DEF log_write, Pin, Release, goto, diskvars
<1>3. boot = "up" /\ \A q \in Proc : pc[q] \notin Committing
  BY <1>1, Running, NobodyCommits
<1>4. /\ \A q \in Proc : q # p => pc'[q] = pc[q] /\ hold'[q] = hold[q]
      /\ pc'[p] \in {"body", "zero", "end"}
      /\ \A c \in Block : c # b => dirty'[c] = dirty[c]
      /\ dirty'[b]
  BY <1>2 DEF TypeOK
<1>5. /\ \A c : Contains(lh, c) => Contains(lh', c)
      /\ Contains(lh', b)
  BY <1>2, AppendContains DEF TypeOK
<1>6. \A q \in Proc : pc'[q] \notin {"install", "clear"}
  BY <1>3, <1>4 DEF Committing
<1>7. \A q \in Proc : pc[q] \in {"append", "panic"} /\ hold[q] # b =>
                        pc'[q] \in {"append", "panic"} /\ hold'[q] = hold[q]
  BY <1>1, <1>4
<1>8. \A c \in Block : c # b => /\ home'[c] = home[c] /\ cache'[c] = cache[c]
                               /\ dirty'[c] = dirty[c]
  BY <1>2, <1>4
<1>9. boot' = "up" /\ dirty'[b] /\ Contains(lh', b)
  BY <1>2, <1>3, <1>4, <1>5
<1> QED  BY <1>5, <1>6, <1>7, <1>8, <1>9, PinBuffer

\* Steps that leave every synced buffer synced, and pin what was pinned.
LEMMA PinKept ==
    ASSUME PinInv, UNCHANGED <<lh, boot>>,
           \A b \in Block : (Synced(b) => Synced(b)') /\
                            (~Synced(b)' => dirty'[b] = dirty[b]),
           \A q \in Proc :
              /\ pc[q] \in {"append", "panic"} =>
                    pc'[q] \in {"append", "panic"} /\ hold'[q] = hold[q]
              /\ pc'[q] = "install" =>
                    \A i \in 1 .. tail' - 1 : Synced(lh[i])'
              /\ pc'[q] = "clear" => \A i \in 1 .. Len(lh) : Synced(lh[i])'
    PROVE  PinInv'
<1>1. ASSUME NEW b \in Block
      PROVE  \/ Synced(b)'
             \/ dirty'[b] /\ Contains(lh', b)
             \/ \E p \in Proc : pc'[p] \in {"append", "panic"} /\ hold'[p] = b
  BY DEF PinInv
<1>2. boot' # "up" => \A b \in Block : Synced(b)'
  BY DEF PinInv
<1> QED  BY <1>1, <1>2 DEF PinInv

LEMMA CommitPin ==
    ASSUME TypeOK, CommitInv, HeaderInv, PinInv, NEW p \in Proc,
           \/ write_log(p) \/ write_head(p) \/ install_trans(p)
           \/ clear_log(p) \/ commit_done(p)
    PROVE  PinInv'
<1>1. pc[p] \in Committing /\ UNCHANGED <<boot, hold>>
  BY DEF write_log, write_head, install_trans, clear_log, commit_done, logvars,
         Committing
<1>2. boot = "up" /\ boot' = "up"
  BY <1>1, Running DEF Committing
<1>3. \A q \in Proc : q # p => pc[q] \notin Committing
  BY <1>1 DEF CommitInv
<1>4. \A q \in Proc : q # p => pc[q] \notin {"install", "clear"}
  BY <1>3 DEF Committing
<1>5. CASE write_log(p)
  <2>1. /\ pc[p] = "wlog" /\ UNCHANGED <<home, cache, dirty, lh>>
        /\ pc' = [pc EXCEPT ![p] = "whead"] \/ UNCHANGED pc
    BY <1>5 DEF write_log, goto, logvars
  <2>2. /\ \A q \in Proc : q # p => pc'[q] = pc[q]
        /\ pc'[p] \in {"wlog", "whead"}
    BY <2>1 DEF TypeOK
  <2>3. \A q \in Proc : pc'[q] \notin {"install", "clear"}
    BY <1>4, <2>2
  <2>4. \A q \in Proc : pc[q] \in {"append", "panic"} =>
                         pc'[q] \in {"append", "panic"} /\ hold'[q] = hold[q]
    BY <1>1, <2>1, <2>2
  <2> QED  BY <1>1, <2>1, <2>3, <2>4, PinFrame
<1>6. CASE write_head(p)
  <2>1. /\ pc[p] = "whead" /\ UNCHANGED <<home, cache, dirty, lh, tail>>
        /\ pc' = [pc EXCEPT ![p] = "install"]
    BY <1>6 DEF write_head, goto, logvars
  <2>2. /\ \A q \in Proc : q # p => pc'[q] = pc[q]
        /\ pc'[p] = "install"
    BY <2>1 DEF TypeOK
  <2>3. tail' = 1
    BY <2>1 DEF HeaderInv
  <2>4. \A i \in 1 .. tail' - 1 : FALSE
    BY <2>3
  <2>5. \A b \in Block : (Synced(b) => Synced(b)') /\
                         (~Synced(b)' => dirty'[b] = dirty[b])
    BY <2>1 DEF Synced
  <2>6. \A q \in Proc :
           /\ pc[q] \in {"append", "panic"} =>
                 pc'[q] \in {"append", "panic"} /\ hold'[q] = hold[q]
           /\ pc'[q] = "install" => q = p
           /\ pc'[q] # "clear"
    BY <1>1, <1>4, <2>1, <2>2
  <2> QED  BY <1>1, <2>1, <2>4, <2>5, <2>6, PinKept
<1>7. CASE install_trans(p)
  <2>1. /\ pc[p] = "install" /\ Install /\ UNCHANGED <<lh, header>>
        /\ \/ tail = Len(lh) /\ pc' = [pc EXCEPT ![p] = "clear"]
           \/ tail' = tail + 1 /\ UNCHANGED pc
    BY <1>7 DEF install_trans, goto, logvars
  <2>2. tail \in 1 .. Len(lh) /\ Len(lh) \in Nat
    BY <2>1 DEF HeaderInv, TypeOK
  <2>3. PICK b \in Block : b = lh[tail]
    BY <2>1, <2>2, Installed
  <2>4. /\ home' = [home EXCEPT ![b] = logblk[tail]]
        /\ cache' = [cache EXCEPT ![b] = logblk[tail]]
        /\ dirty' = [dirty EXCEPT ![b] = FALSE]
    BY <2>1, <2>2, <2>3, Installed
  <2>5. /\ Synced(b)'
        /\ \A c \in Block : c # b => /\ Synced(c)' <=> Synced(c)
                                     /\ dirty'[c] = dirty[c]
    BY <2>4 DEF TypeOK, Synced
  <2>6. \A c \in Block : (Synced(c) => Synced(c)') /\
                         (~Synced(c)' => dirty'[c] = dirty[c])
    BY <2>5
  <2>7. \A i \in 1 .. Len(lh) : i \in 1 .. tail - 1 \/ i = tail => Synced(lh[i])'
    <3>1. \A i \in 1 .. Len(lh) : lh[i] \in Block
      BY DEF TypeOK
    <3>2. \A i \in 1 .. tail - 1 : Synced(lh[i])
      BY <2>1 DEF PinInv
    <3>3. \A c \in Block : Synced(c) \/ c = b => Synced(c)'
      BY <2>5, <2>6
    <3>4. ASSUME NEW i \in 1 .. Len(lh), i \in 1 .. tail - 1 \/ i = tail
          PROVE  Synced(lh[i])'
      <4>1. PICK c \in Block : c = lh[i]
        BY <3>1
      <4>2. Synced(c) \/ c = b
        BY <2>3, <3>2, <3>4, <4>1
      <4>3. Synced(c)' /\ lh' = lh
        BY <2>1, <3>3, <4>2
      <4> QED  BY <4>1, <4>3
    <3> QED  BY <3>4
  <2>8. /\ \A q \in Proc : q # p => pc'[q] = pc[q]
        /\ \/ pc'[p] = "install" /\ tail' = tail + 1
           \/ pc'[p] = "clear" /\ tail = Len(lh)
    BY <2>1 DEF TypeOK
  <2>9. pc'[p] = "install" => \A i \in 1 .. tail' - 1 : Synced(lh[i])'
    <3>1. ASSUME pc'[p] = "install", NEW i \in 1 .. tail' - 1
          PROVE  Synced(lh[i])'
      <4>1. i \in 1 .. Len(lh) /\ (i \in 1 .. tail - 1 \/ i = tail)
        BY <2>2, <2>8, <3>1
      <4> QED  BY <2>7, <4>1
    <3> QED  BY <3>1
  <2>10. pc'[p] = "clear" => \A i \in 1 .. Len(lh) : Synced(lh[i])'
    <3>1. ASSUME pc'[p] = "clear", NEW i \in 1 .. Len(lh)
          PROVE  Synced(lh[i])'
      <4>1. i \in 1 .. tail - 1 \/ i = tail
        BY <2>2, <2>8, <3>1
      <4> QED  BY <2>7, <4>1
    <3> QED  BY <3>1
  <2>11. \A q \in Proc :
            /\ pc[q] \in {"append", "panic"} =>
                  pc'[q] \in {"append", "panic"} /\ hold'[q] = hold[q]
            /\ pc'[q] \in {"install", "clear"} => q = p
    BY <1>1, <1>4, <2>1, <2>8
  <2> QED  BY <1>1, <2>1, <2>6, <2>9, <2>10, <2>11, PinKept
<1>8. CASE clear_log(p)
  <2>1. /\ pc[p] = "clear" /\ UNCHANGED <<home, cache, dirty>>
        /\ lh' = <<>> /\ pc' = [pc EXCEPT ![p] = "done"]
    BY <1>8 DEF clear_log, goto
  <2>2. /\ \A q \in Proc : q # p => pc'[q] = pc[q]
        /\ pc'[p] = "done"
    BY <2>1 DEF TypeOK
  <2>3. \A b : Synced(b)' <=> Synced(b)
    BY <2>1 DEF Synced
  <2>4. \A b : Contains(lh, b) => Synced(b)
    BY <2>1 DEF Contains, PinInv
  <2>5. \A q \in Proc : pc'[q] \notin {"install", "clear"}
    BY <1>4, <2>2
  <2>6. \A b \in Block : Synced(b)' \/ \E q \in Proc :
           pc[q] \in {"append", "panic"} /\ hold[q] = b
    BY <2>3, <2>4 DEF PinInv
  <2>7. \A q \in Proc : pc[q] \in {"append", "panic"} =>
                         pc'[q] \in {"append", "panic"} /\ hold'[q] = hold[q]
    BY <1>1, <2>1, <2>2
  <2>8. \A b \in Block : Synced(b)' \/ \E q \in Proc :
           pc'[q] \in {"append", "panic"} /\ hold'[q] = b
    BY <2>6, <2>7
  <2> QED  BY <1>2, <2>5, <2>8 DEF PinInv
<1>9. CASE commit_done(p)
  <2> DEFINE f == [pc EXCEPT ![p] = "idle"]
  <2>1. /\ pc[p] = "done" /\ pc' = Awake(f)
        /\ UNCHANGED <<home, cache, dirty, lh, tail>>
    BY <1>9 DEF commit_done, diskvars
  <2>2. /\ f \in [Proc -> PC]
        /\ \A q \in Proc : f[q] = IF q = p THEN "idle" ELSE pc[q]
    BY DEF TypeOK, PC
  <2>3. \A q \in Proc : pc'[q] = IF f[q] = "sleep" THEN "begin" ELSE f[q]
    BY <2>1, <2>2, AwakeAt
  <2> HIDE DEF f
  <2>4. \A q \in Proc : pc'[q] \notin {"install", "clear"}
    BY <1>4, <2>2, <2>3
  <2>5. \A q \in Proc : pc[q] \in {"append", "panic"} =>
                         pc'[q] \in {"append", "panic"} /\ hold'[q] = hold[q]
    BY <1>1, <2>1, <2>2, <2>3
  <2> QED  BY <1>1, <2>1, <2>4, <2>5, PinFrame
<1> QED  BY <1>5, <1>6, <1>7, <1>8, <1>9

LEMMA RecoverPin ==
    ASSUME TypeOK, CommitInv, HeaderInv, PinInv,
           read_head \/ recover_install \/ recover_clear
    PROVE  PinInv'
<1>1. /\ boot # "up" /\ UNCHANGED pc /\ \A q \in Proc : pc'[q] = "idle"
      /\ \A b \in Block : Synced(b)
  BY DEF read_head, recover_install, recover_clear, procvars, CommitInv, PinInv
<1>2. ASSUME read_head \/ recover_clear PROVE \A b \in Block : Synced(b)'
  BY <1>1, <1>2 DEF read_head, recover_clear, diskvars, Synced
<1>3. ASSUME recover_install PROVE \A b \in Block : Synced(b)'
  <2>1. boot = "install" /\ Install
    BY <1>3 DEF recover_install
  <2>2. tail \in 1 .. Len(lh)
    BY <2>1 DEF HeaderInv
  <2>3. PICK b \in Block : b = lh[tail]
    BY <2>1, <2>2, Installed
  <2>4. /\ home' = [home EXCEPT ![b] = logblk[tail]]
        /\ cache' = [cache EXCEPT ![b] = logblk[tail]]
    BY <2>1, <2>2, <2>3, Installed
  <2> QED  BY <1>1, <2>4 DEF TypeOK, Synced
<1>4. \A b \in Block : Synced(b)'
  BY <1>2, <1>3
<1> QED  BY <1>1, <1>4 DEF PinInv

LEMMA PinStep ==
    ASSUME TypeOK, CallInv, NestInv, CommitInv, HeaderInv, PinInv, Next
    PROVE  PinInv'
<1>1. ASSUME NEW p \in Proc, SystemCall(p) \/ BallocCall(p) \/ begin_op(p)
      PROVE  PinInv'
  <2>1. /\ UNCHANGED <<home, cache, dirty, lh, boot, hold, tail>>
        /\ pc[p] \in {"idle", "body", "begin"}
        /\ \E l \in {"begin", "bread", "sleep", "zero", "body"} :
              pc' = [pc EXCEPT ![p] = l]
    BY <1>1 DEF SystemCall, BallocCall, begin_op, goto, diskvars, logvars
  <2>2. /\ \A q \in Proc : q # p => pc'[q] = pc[q]
        /\ pc'[p] \in {"begin", "bread", "sleep", "zero", "body"}
    BY <2>1 DEF TypeOK
  <2> QED  BY <2>1, <2>2, PinFrame
<1>2. ASSUME NEW p \in Proc, end_op(p) PROVE PinInv'
  <2>1. /\ UNCHANGED <<home, cache, dirty, lh, boot, hold>>
        /\ pc[p] \in {"body", "end"} /\ nest[p] \in 1 .. 2
        /\ pc'[p] \in {"idle", "body", "wlog", "done"}
        /\ \A q \in Proc : q # p => pc'[q] = pc[q]
                                     \/ (pc[q] = "sleep" /\ pc'[q] = "begin")
    BY <1>2, Ends DEF diskvars
  <2>2. nest[p] > 0
    BY <2>1
  <2>3. \A q \in Proc : pc[q] \notin {"install", "clear"}
    BY <2>2, NobodyCommits DEF Committing
  <2>4. \A q \in Proc :
           /\ pc[q] \in {"append", "panic"} =>
                 pc'[q] \in {"append", "panic"} /\ hold'[q] = hold[q]
           /\ pc'[q] \notin {"install", "clear"}
    BY <2>1, <2>3
  <2> QED  BY <2>1, <2>4, PinFrame
<1>3. ASSUME NEW p \in Proc, balloc(p) PROVE PinInv'
  <2>1. /\ UNCHANGED <<home, dirty, lh, boot, tail>> /\ pc[p] = "bread"
        /\ hold' = [hold EXCEPT ![p] = Bitmap]
        /\ pc' = [pc EXCEPT ![p] = "begin"]
        /\ cache' = [cache EXCEPT ![Bitmap] = Content(Bitmap)]
    BY <1>3 DEF balloc, goto, diskvars, logvars
  <2>2. \A b \in Block : Synced(b)' <=> Synced(b)
    BY <2>1, Sizes DEF TypeOK, Synced, Content
  <2>3. /\ \A q \in Proc : q # p => pc'[q] = pc[q] /\ hold'[q] = hold[q]
        /\ pc'[p] = "begin"
    BY <2>1 DEF TypeOK
  <2>4. \A i \in 1 .. Len(lh) : lh[i] \in Block
    BY DEF TypeOK
  <2>5. \A q \in Proc :
           /\ pc'[q] = "install" => \A i \in 1 .. tail' - 1 : Synced(lh[i])'
           /\ pc'[q] = "clear" => \A i \in 1 .. Len(lh) : Synced(lh[i])'
    <3>1. ASSUME NEW q \in Proc, pc'[q] \in {"install", "clear"}
          PROVE  pc[q] = pc'[q]
      BY <2>3, <3>1
    <3>2. ASSUME NEW q \in Proc, pc[q] = "install"
          PROVE  \A i \in 1 .. tail - 1 : i \in 1 .. Len(lh) /\ Synced(lh[i])
      <4>1. tail \in 1 .. Len(lh) /\ \A i \in 1 .. tail - 1 : Synced(lh[i])
        BY <3>2 DEF HeaderInv, PinInv
      <4>2. Len(lh) \in Nat
        BY DEF TypeOK
      <4> QED  BY <4>1, <4>2
    <3>3. ASSUME NEW q \in Proc, pc[q] = "clear"
          PROVE  \A i \in 1 .. Len(lh) : Synced(lh[i])
      BY <3>3 DEF PinInv
    <3> QED  BY <2>1, <2>2, <2>4, <3>1, <3>2, <3>3
  <2>6. \A q \in Proc : pc[q] \in {"append", "panic"} =>
                         pc'[q] \in {"append", "panic"} /\ hold'[q] = hold[q]
    BY <2>1, <2>3
  <2> QED  BY <2>1, <2>2, <2>5, <2>6, PinKept
<1>4. ASSUME NEW b \in Block,
             /\ home'[b] = cache'[b] \/ cache'[b] = NoData
             /\ \A c \in Block : c # b => /\ home'[c] = home[c]
                                          /\ cache'[c] = cache[c]
                                          /\ dirty'[c] = dirty[c]
             /\ UNCHANGED <<lh, boot, pc, hold, tail>>
      PROVE  PinInv'
  <2>1. \A c \in Block : /\ Synced(c) => Synced(c)'
                         /\ ~Synced(c)' => dirty'[c] = dirty[c]
    <3>1. Synced(b)'
      BY <1>4 DEF Synced
    <3>2. \A c \in Block : c # b => (Synced(c)' <=> Synced(c))
      BY <1>4 DEF Synced
    <3> QED  BY <1>4, <3>1, <3>2
  <2>2. \A i \in 1 .. Len(lh) : lh[i] \in Block
    BY DEF TypeOK
  <2>3. ASSUME NEW q \in Proc, pc[q] = "install"
        PROVE  \A i \in 1 .. tail - 1 : i \in 1 .. Len(lh) /\ Synced(lh[i])
    <3>1. tail \in 1 .. Len(lh) /\ \A i \in 1 .. tail - 1 : Synced(lh[i])
      BY <2>3 DEF HeaderInv, PinInv
    <3>2. Len(lh) \in Nat
      BY DEF TypeOK
    <3> QED  BY <3>1, <3>2
  <2>4. ASSUME NEW q \in Proc, pc[q] = "clear"
        PROVE  \A i \in 1 .. Len(lh) : Synced(lh[i])
    BY <2>4 DEF PinInv
  <2>5. \A q \in Proc :
           /\ pc'[q] = "install" => \A i \in 1 .. tail' - 1 : Synced(lh[i])'
           /\ pc'[q] = "clear" => \A i \in 1 .. Len(lh) : Synced(lh[i])'
    BY <1>4, <2>1, <2>2, <2>3, <2>4
  <2> QED  BY <1>4, <2>1, <2>5, PinKept
<1>5. ASSUME NEW p \in Proc, bfree(p) PROVE PinInv'
  <2>1. /\ home'[Bitmap] = cache'[Bitmap]
        /\ \A c \in Block : c # Bitmap => /\ home'[c] = home[c]
                                          /\ cache'[c] = cache[c]
                                          /\ dirty'[c] = dirty[c]
        /\ UNCHANGED <<lh, boot, pc, hold, tail>>
    BY <1>5, Sizes DEF bfree, TypeOK, logvars, procvars
  <2> QED  BY <1>4, <2>1, Sizes
<1>6. ASSUME NEW b \in Block, Evict(b) PROVE PinInv'
  <2>1. /\ cache'[b] = NoData
        /\ \A c \in Block : c # b => /\ home'[c] = home[c]
                                     /\ cache'[c] = cache[c]
                                     /\ dirty'[c] = dirty[c]
        /\ UNCHANGED <<lh, boot, pc, hold, tail>>
    BY <1>6 DEF Evict, TypeOK, diskvars, logvars, procvars
  <2> QED  BY <1>4, <2>1
<1>7. ASSUME Crash PROVE PinInv'
  BY <1>7 DEF Crash, PinInv, Synced
<1>8. ASSUME UNCHANGED vars PROVE PinInv'
  BY <1>8, PinFrame DEF vars, diskvars, logvars, procvars
<1> QED  BY <1>1, <1>2, <1>3, <1>5, <1>6, <1>7, <1>8, NextCases, WritePin,
            log_writePin, CommitPin, RecoverPin

-----------------------------------------------------------------------------
(* The inductive invariant.                                                *)

LEMMA InitInv == Init => LogInv
<1> SUFFICES ASSUME Init PROVE LogInv
  OBVIOUS
<1>1. TypeOK /\ CallInv
  BY InitType
<1>2. /\ pc = [p \in Proc |-> "idle"] /\ nest = [p \in Proc |-> 0]
      /\ hold = [p \in Proc |-> NoBlock] /\ wrote = [p \in Proc |-> {}]
      /\ cache = [b \in Block |-> NoData] /\ lh = <<>> /\ header = <<>>
      /\ outstanding = 0 /\ committing = FALSE /\ boot = "read" /\ tail = 1
  BY DEF Init, Idle
<1>3. WroteInv
  BY <1>2, FS_EmptySet, Sizes DEF WroteInv, Logged
<1>4. HoldInv
  BY <1>2 DEF HoldInv
<1>5. NestInv
  <2>1. Open = {}
    BY <1>2, SMT DEF Open
  <2> QED  BY <1>2, <2>1, FS_EmptySet DEF NestInv
<1>6. CommitInv
  BY <1>2 DEF CommitInv, Committing
<1>7. LogFits
  BY <1>2 DEF LogFits
<1>8. HeaderInv
  <2>1. Distinct(<<>>) /\ Len(<<>>) = 0
    BY DEF Distinct
  <2> QED  BY <1>2, <2>1, Sizes DEF HeaderInv
<1>9. PinInv
  BY <1>2 DEF PinInv, Synced
<1> QED  BY <1>1, <1>3, <1>4, <1>5, <1>6, <1>7, <1>8, <1>9 DEF LogInv

LEMMA TypeStep ==
    ASSUME TypeOK, CallInv, NestInv, HeaderInv, Next
    PROVE  TypeOK' /\ CallInv'
<1>1. ASSUME UNCHANGED vars PROVE TypeOK' /\ CallInv'
  <2>1. TypeOK'
    BY <1>1 DEF vars, diskvars, logvars, procvars, TypeOK
  <2>2. CallInv'
    BY <1>1 DEF vars, diskvars, logvars, procvars, CallInv
  <2> QED  BY <2>1, <2>2
<1> QED  BY <1>1, NextCases, SystemCallType, begin_opType, WriteType,
            balloc_writeType, log_writeType, end_opType, write_logType,
            write_headType, install_transType, clear_logType, commit_doneType,
            BallocCallType, ballocType, bfreeType, EvictType, RecoverType,
            CrashType

LEMMA NextInv == LogInv /\ [Next]_vars => LogInv'
<1> SUFFICES ASSUME LogInv, [Next]_vars PROVE LogInv'
  OBVIOUS
<1>1. CASE Next
  <2>1. /\ TypeOK /\ CallInv /\ WroteInv /\ HoldInv /\ NestInv /\ CommitInv
        /\ LogFits /\ HeaderInv /\ PinInv
    BY DEF LogInv
  <2>2. TypeOK' /\ CallInv'
    BY <1>1, <2>1, TypeStep
  <2>3. HoldInv'
    BY <1>1, <2>1, HoldStep
  <2>4. NestInv' /\ CommitInv'
    BY <1>1, <2>1, CommitStep
  <2>5. WroteInv'
    BY <1>1, <2>1, WroteStep
  <2>6. LogFits'
    BY <1>1, <2>1, <2>2, <2>4, FitsStep
  <2>7. HeaderInv'
    BY <1>1, <2>1, <2>2, <2>6, HeaderStep
  <2>8. PinInv'
    BY <1>1, <2>1, PinStep
  <2> QED  BY <2>2, <2>3, <2>4, <2>5, <2>6, <2>7, <2>8 DEF LogInv
<1>2. CASE UNCHANGED vars
  BY <1>2 DEF vars, diskvars, logvars, procvars, LogInv, TypeOK, CallInv,
     WroteInv, Logged, HoldInv, NestInv, Open, CommitInv, LogFits, Reserved,
     MayAdd, ToAppend, HeaderInv, Distinct, PinInv, Synced
<1> QED  BY <1>1, <1>2

\* begin_op(), end_op(), log_write(), commit() and recovery keep the log's
\* bookkeeping together, whatever calls are made and wherever the machine
\* crashes: the reservation covers what the open calls may still write, one
\* process commits, and a modified buffer is in the log.
THEOREM Invariant == Spec => []LogInv
<1> QED  BY InitInv, NextInv, PTL DEF Spec

LEMMA Pinned == LogInv => PinnedUntilInstalled
<1> SUFFICES ASSUME LogInv, NEW b \in Block,
                    cache[b] # home[b], cache[b] # NoData, Unlocked(b)
             PROVE  dirty[b] /\ Contains(lh, b)
  BY DEF PinnedUntilInstalled
<1> QED  BY DEF LogInv, PinInv, Synced, Unlocked

\* log_write() pins each block until install_trans() has copied it to its
\* home, so bget() never recycles the only copy.
THEOREM PinnedTheorem == Spec => []PinnedUntilInstalled
<1> QED  BY Invariant, Pinned, PTL

-----------------------------------------------------------------------------
(* What a panic of log_write() is about.                                   *)

\* A call that has panicked over a block that is not in the log still has the
\* room for it that begin_op() reserved.
LEMMA RoomLeft ==
    ASSUME LogInv, NEW p \in Proc, pc[p] = "panic", ~Contains(lh, hold[p])
    PROVE  Len(lh) < LOGSIZE
<1> DEFINE k == nest[p]
           o == <<p, k>>
<1>0. TypeOK /\ CallInv /\ WroteInv /\ CommitInv /\ LogFits
  BY DEF LogInv
<1>1. boot = "up"
  BY <1>0, Running
<1>2. k = 1 \/ k = 2
  BY <1>0 DEF CallInv
<1>3. o \in Open
  BY <1>2, SMT DEF Open
<1>4. ToAppend(p) = 1
  BY DEF ToAppend
<1>5. MayAdd(o) \in Int /\ 1 <= MayAdd(o)
  <2>1. CASE k = 1
    <3>1. MayAdd(<<p, 1>>) = MAXOPBLOCKS - Cardinality(wrote[p])
                               + (IF nest[p] = 1 THEN ToAppend(p) ELSE 0)
      BY <1>0, MayAddAt
    <3>2. Cardinality(wrote[p]) \in Nat /\ Cardinality(wrote[p]) <= MAXOPBLOCKS
      BY <1>0, WroteFinite DEF WroteInv, Logged
    <3>3. MayAdd(<<p, 1>>) \in Int /\ 1 <= MayAdd(<<p, 1>>)
      BY <1>4, <2>1, <3>1, <3>2, Sizes
    <3> QED  BY <2>1, <3>3
  <2>2. CASE k = 2
    <3>1. /\ MayAdd(<<p, 2>>) =
                (IF pc[p] = "zero" THEN 1 ELSE ToAppend(p))
                  + (IF pc[p] \in {"zero", "append", "panic"} /\ hold[p] = Bitmap
                     THEN 1 ELSE 0)
          /\ MayAdd(<<p, 2>>) \in 0 .. 2
      BY <1>0, MayAddAt
    <3>2. MayAdd(<<p, 2>>) \in Int /\ 1 <= MayAdd(<<p, 2>>)
      BY <1>4, <3>1
    <3> QED  BY <2>2, <3>2
  <2> QED  BY <1>2, <2>1, <2>2
<1>6. <<o, 1>> \in Reserved
  <2>1. 1 \in 1 .. MAXOPBLOCKS
    BY Sizes
  <2> HIDE DEF o
  <2>2. <<o, 1>>[1] = o /\ <<o, 1>>[2] = 1 /\ <<o, 1>> \in Open \X (1 .. MAXOPBLOCKS)
    BY <1>3, <2>1
  <2>3. <<o, 1>>[2] <= MayAdd(<<o, 1>>[1])
    BY <1>5, <2>2
  <2> QED  BY <2>2, <2>3 DEF Reserved
<1>7. Cardinality(Reserved) \in Nat /\ Cardinality(Reserved) # 0
  BY <1>0, <1>6, ReservedFinite, FS_EmptySet
<1>8. Len(lh) \in Nat /\ Len(lh) + Cardinality(Reserved) <= LOGSIZE
  BY <1>0, <1>1 DEF LogFits, TypeOK
<1> QED  BY <1>7, <1>8, Sizes

\* A step that takes nothing out of the log and leads nobody to the panic.
LEMMA PanicFrame ==
    ASSUME TypeOK, PanicInv, Len(lh') \in Nat, Len(lh') >= Len(lh),
           \A q \in Proc : pc'[q] = "panic" => pc[q] = "panic"
    PROVE  PanicInv'
<1>1. Len(lh) \in Nat /\ nlog \in Nat
  BY LogAssumption DEF TypeOK
<1>2. ASSUME NEW q \in Proc, pc'[q] = "panic"
      PROVE  Len(lh') >= LOGSIZE \/ Len(lh') >= nlog - 1
  <2>1. Len(lh) >= LOGSIZE \/ Len(lh) >= nlog - 1
    BY <1>2 DEF PanicInv
  <2> QED  BY <1>1, <2>1, Sizes
<1> QED  BY <1>2 DEF PanicInv

\* With no call in progress nobody has panicked in one.
LEMMA PanicNone ==
    ASSUME TypeOK, CallInv, NestInv, outstanding = 0,
           \A q \in Proc : pc'[q] = "panic" => pc[q] = "panic"
    PROVE  PanicInv'
<1>1. ASSUME NEW q \in Proc, pc[q] = "panic" PROVE FALSE
  <2>1. nest[q] = 1 \/ nest[q] = 2
    BY <1>1 DEF CallInv
  <2>2. <<q, 1>> \in Open
    BY <2>1, SMT DEF Open
  <2>3. Open # {} /\ IsFiniteSet(Open) /\ Cardinality(Open) = 0
    BY <2>2, OpenFinite DEF NestInv
  <2> QED  BY <2>3, FS_EmptySet
<1> QED  BY <1>1 DEF PanicInv

LEMMA PanicStep ==
    ASSUME LogInv, PanicInv, Next, TypeOK'
    PROVE  PanicInv'
<1>0. TypeOK /\ CallInv /\ NestInv /\ CommitInv
  BY DEF LogInv
<1>1. Len(lh) \in Nat /\ Len(lh') \in Nat
  BY <1>0 DEF TypeOK
<1>2. ASSUME NEW p \in Proc, Write(p) \/ balloc_write(p) PROVE PanicInv'
  <2>1. PICK b \in Block : Modify(p, b)
    BY <1>2 DEF Write, balloc_write
  <2>2. lh' = lh
    BY <1>2 DEF Write, balloc_write, logvars
  <2>3. \A q \in Proc : q # p => pc'[q] = pc[q]
    <3>1. \/ pc' = [pc EXCEPT ![p] = "panic"]
          \/ pc' = [pc EXCEPT ![p] = "append"]
      BY <1>0, <2>1, Modified, Zenon
    <3> QED  BY <1>0, <3>1 DEF TypeOK
  <2>4. pc'[p] = "panic" => Len(lh) >= LOGSIZE \/ Len(lh) >= nlog - 1
    <3>1. pc' = [pc EXCEPT ![p] = IF Len(lh) >= LOGSIZE \/ Len(lh) >= nlog - 1
                                  THEN "panic" ELSE "append"]
      BY <2>1 DEF Modify, goto
    <3>2. pc'[p] = IF Len(lh) >= LOGSIZE \/ Len(lh) >= nlog - 1
                   THEN "panic" ELSE "append"
      BY <1>0, <3>1, Zenon DEF TypeOK
    <3> QED  BY <3>2, Zenon
  <2> QED  BY <2>2, <2>3, <2>4 DEF PanicInv
<1>3. ASSUME NEW p \in Proc,
             SystemCall(p) \/ begin_op(p) \/ write_log(p) \/ write_head(p)
               \/ install_trans(p) \/ BallocCall(p) \/ balloc(p)
      PROVE  PanicInv'
  <2>1. UNCHANGED lh
    BY <1>3 DEF SystemCall, begin_op, write_log, write_head, install_trans,
       BallocCall, balloc, logvars
  <2>2. \/ UNCHANGED pc
        \/ \E l \in PC \ {"panic"} : pc' = [pc EXCEPT ![p] = l]
    BY <1>3 DEF SystemCall, begin_op, write_log, write_head, install_trans,
       BallocCall, balloc, goto, PC
  <2>3. \A q \in Proc : pc'[q] = "panic" => pc[q] = "panic"
    BY <1>0, <2>2 DEF TypeOK
  <2> QED  BY <1>0, <1>1, <2>1, <2>3, PanicFrame
<1>4. ASSUME NEW p \in Proc, log_write(p) PROVE PanicInv'
  <2>1. \/ lh' = lh
        \/ \E b : lh' = Append(lh, b)
    BY <1>4 DEF log_write
  <2>2. Len(lh') >= Len(lh)
    BY <1>0, <1>1, <2>1, SMT DEF TypeOK
  <2>3. \A q \in Proc : pc'[q] = "panic" => pc[q] = "panic"
    BY <1>0, <1>4 DEF log_write, goto, TypeOK
  <2> QED  BY <1>0, <1>1, <2>2, <2>3, PanicFrame
<1>5. ASSUME NEW p \in Proc, end_op(p) PROVE PanicInv'
  <2>1. UNCHANGED lh
    BY <1>5 DEF end_op
  <2>2. /\ pc'[p] \in {"body", "idle", "done", "wlog"}
        /\ \A q \in Proc : q # p => pc'[q] = pc[q]
                                     \/ (pc[q] = "sleep" /\ pc'[q] = "begin")
    BY <1>0, <1>5, Ends
  <2> QED  BY <1>0, <1>1, <2>1, <2>2, PanicFrame
<1>6. ASSUME NEW p \in Proc, clear_log(p) \/ commit_done(p) PROVE PanicInv'
  <2>1. pc[p] \in Committing
    BY <1>6 DEF clear_log, commit_done, Committing
  <2>2. outstanding = 0
    BY <1>0, <2>1 DEF CommitInv
  <2>3. ASSUME NEW q \in Proc, pc'[q] = "panic" PROVE pc[q] = "panic"
    <3>1. CASE clear_log(p)
      BY <1>0, <2>3, <3>1 DEF clear_log, goto, TypeOK
    <3>2. CASE commit_done(p)
      <4>1. [pc EXCEPT ![p] = "idle"] \in [Proc -> PC]
        BY <1>0 DEF TypeOK, PC
      <4>2. pc'[q] = IF [pc EXCEPT ![p] = "idle"][q] = "sleep" THEN "begin"
                     ELSE [pc EXCEPT ![p] = "idle"][q]
        BY <3>2, <4>1, AwakeAt DEF commit_done
      <4> QED  BY <1>0, <2>3, <4>2 DEF TypeOK
    <3> QED  BY <1>6, <3>1, <3>2
  <2> QED  BY <1>0, <2>2, <2>3, PanicNone
<1>7. ASSUME NEW p \in Proc, bfree(p) PROVE PanicInv'
  BY <1>7 DEF bfree, logvars, procvars, PanicInv
<1>8. ASSUME NEW b \in Block, Evict(b) PROVE PanicInv'
  BY <1>8 DEF Evict, logvars, procvars, PanicInv
<1>9. ASSUME read_head \/ recover_install \/ recover_clear PROVE PanicInv'
  <2>1. boot # "up" /\ UNCHANGED pc
    BY <1>9 DEF read_head, recover_install, recover_clear, procvars
  <2>2. \A q \in Proc : pc'[q] = "idle"
    BY <1>0, <2>1 DEF CommitInv
  <2> QED  BY <2>2 DEF PanicInv
<1>10. ASSUME Crash PROVE PanicInv'
  BY <1>10 DEF Crash, PanicInv
<1>11. ASSUME UNCHANGED vars PROVE PanicInv'
  BY <1>11 DEF vars, logvars, procvars, PanicInv
<1> QED  BY <1>2, <1>3, <1>4, <1>5, <1>6, <1>7, <1>8, <1>9, <1>10, <1>11,
            NextCases

LEMMA PanicNext == LogInv /\ PanicInv /\ [Next]_vars => (LogInv /\ PanicInv)'
<1> SUFFICES ASSUME LogInv, PanicInv, [Next]_vars PROVE LogInv' /\ PanicInv'
  OBVIOUS
<1>1. LogInv'
  BY NextInv
<1>2. CASE Next
  BY <1>1, <1>2, PanicStep DEF LogInv
<1>3. CASE UNCHANGED vars
  BY <1>1, <1>3 DEF vars, logvars, procvars, PanicInv
<1> QED  BY <1>2, <1>3

LEMMA PanicSpec == Spec => [](LogInv /\ PanicInv)
<1>1. Init => LogInv /\ PanicInv
  BY InitInv DEF Init, Idle, PanicInv
<1> QED  BY <1>1, PanicNext, PTL DEF Spec

LEMMA Panics == LogInv /\ PanicInv => LogPanics
<1> SUFFICES ASSUME LogInv, PanicInv, NEW p \in Proc, pc[p] = "panic",
                    ~Contains(lh, hold[p])
             PROVE  nlog - 1 <= Len(lh) /\ Len(lh) < LOGSIZE
  BY DEF LogPanics
<1>1. Len(lh) < LOGSIZE
  BY RoomLeft
<1>2. Len(lh) \in Nat
  BY DEF LogInv, TypeOK
<1> QED  BY <1>1, <1>2, Sizes DEF PanicInv

\* For all calls, also the transaction that balloc() opens inside another and
\* bfree()'s write past the log: the reservation of begin_op() is enough for the
\* header in memory, and where a call panics in log_write() over a block that is
\* not in the log yet, the log on disk is to blame, which is shorter.
THEOREM KeepsTheorem == Spec => []LogKeeps
<1>1. LogInv /\ PanicInv => LogKeeps
  BY Pinned, Panics DEF LogInv, LogKeeps
<1> QED  BY <1>1, PanicSpec, PTL

\* With a log on disk that has a block for each entry of the header, which is
\* one more than mkfs makes, the reservation is enough for the log on disk too:
\* what is logged stays inside it, and log_write() panics only over a block
\* that is in the log already and needs no room.
THEOREM OnDiskTheorem ==
    ASSUME LOGSIZE < nlog
    PROVE  Spec => []( /\ LogOnDisk
                       /\ \A p \in Proc :
                             pc[p] = "panic" => Contains(lh, hold[p]))
<1> DEFINE Claim == /\ LogOnDisk
                    /\ \A p \in Proc : pc[p] = "panic" => Contains(lh, hold[p])
<1>1. LogInv /\ PanicInv => Claim
  <2> SUFFICES ASSUME LogInv, PanicInv PROVE Claim
    OBVIOUS
  <2>1. /\ Len(lh) \in Nat /\ Len(lh) <= LOGSIZE
    BY DEF LogInv, TypeOK, HeaderInv
  <2>2. LogOnDisk
    <3>1. nlog \in Nat
      BY LogAssumption
    <3> QED  BY <2>1, <3>1, Sizes DEF LogOnDisk
  <2>3. ASSUME NEW p \in Proc, pc[p] = "panic", ~Contains(lh, hold[p])
        PROVE  FALSE
    <3>1. nlog - 1 <= Len(lh) /\ Len(lh) < LOGSIZE
      BY <2>3, Panics DEF LogPanics
    <3>2. nlog \in Nat
      BY LogAssumption
    <3> QED  BY <2>1, <3>1, <3>2, Sizes
  <2> QED  BY <2>2, <2>3
<1> QED  BY <1>1, PanicSpec, PTL

-----------------------------------------------------------------------------
(* What a commit copies.  bfree() writes a block in the middle of it.      *)

LEMMA CopyFrame ==
    ASSUME TypeOK, HeaderInv, CopyInv,
           UNCHANGED <<home, logblk, lh, tail, boot>>,
           \A b \in Block : Content(b)' = Content(b),
           \A q \in Proc : pc'[q] \in {"wlog", "whead", "install", "clear"} =>
                             pc'[q] = pc[q]
    PROVE  CopyInv'
<1>1. \A i \in 1 .. Len(lh) : lh[i] \in Block
  BY DEF TypeOK
<1>2. \A i \in 1 .. Len(lh) : Content(lh[i])' = Content(lh[i])
  <2>1. ASSUME NEW i \in 1 .. Len(lh) PROVE Content(lh[i])' = Content(lh[i])
    <3>1. PICK b \in Block : b = lh[i]
      BY <1>1
    <3>2. lh'[i] = b
      BY <3>1
    <3> QED  BY <3>1, <3>2
  <2> QED  BY <2>1
<1>3. ASSUME NEW q \in Proc, pc[q] = "wlog"
      PROVE  \A i \in 1 .. tail - 1 : i \in 1 .. Len(lh)
  <2>1. tail \in 1 .. Len(lh)
    BY <1>3 DEF HeaderInv
  <2> QED  BY <2>1
<1>4. ASSUME NEW q \in Proc
      PROVE  /\ pc'[q] = "wlog" =>
                   \A i \in 1 .. tail' - 1 : logblk'[i] = Content(lh[i])'
             /\ pc'[q] \in {"whead", "install", "clear"} =>
                   \A i \in 1 .. Len(lh') : logblk'[i] = Content(lh[i])'
  BY <1>2, <1>3 DEF CopyInv
<1> QED  BY <1>4 DEF CopyInv

LEMMA NoCopy ==
    ASSUME \A q \in Proc : pc'[q] \notin {"whead", "install", "clear"},
           \A q \in Proc : pc'[q] = "wlog" => tail' = 1,
           boot' \notin {"install", "clear"}
    PROVE  CopyInv'
<1>1. tail' = 1 => \A i \in 1 .. tail' - 1 : FALSE
  OBVIOUS
<1> QED  BY <1>1 DEF CopyInv

\* What a process that commits copies.
LEMMA CommitCopy ==
    ASSUME LogInv, CopyInv, NEW p \in Proc,
           \/ write_log(p) \/ write_head(p) \/ install_trans(p)
           \/ clear_log(p) \/ commit_done(p)
    PROVE  CopyInv'
<1>0. TypeOK /\ CommitInv /\ HeaderInv
  BY DEF LogInv
<1>1. /\ pc[p] \in Committing /\ boot' = boot
  BY DEF write_log, write_head, install_trans, clear_log, commit_done,
         Committing
<1>2. boot' = "up"
  BY <1>0, <1>1, Running DEF Committing
<1>3. \A q \in Proc : q # p => pc[q] \notin Committing
  BY <1>0, <1>1 DEF CommitInv
<1>4. /\ Len(lh) \in Nat /\ Len(lh) <= LOGSIZE
      /\ \A i \in 1 .. Len(lh) : lh[i] \in Block
  BY <1>0 DEF TypeOK, HeaderInv
<1>5. CASE write_log(p)
  <2>1. /\ pc[p] = "wlog" /\ UNCHANGED <<home, cache, lh>>
        /\ logblk' = [logblk EXCEPT ![tail] = Content(lh[tail])]
        /\ \/ tail = Len(lh) /\ pc' = [pc EXCEPT ![p] = "whead"] /\ tail' = 1
           \/ tail # Len(lh) /\ tail' = tail + 1 /\ UNCHANGED pc
    BY <1>5 DEF write_log, goto, logvars
  <2>2. tail \in 1 .. Len(lh)
    BY <1>0, <2>1 DEF HeaderInv
  <2>3. \A i : Content(lh[i])' = Content(lh[i])
    BY <2>1 DEF Content
  <2>4. \A i \in 1 .. tail : logblk'[i] = Content(lh[i])'
    <3>1. ASSUME NEW i \in 1 .. tail PROVE logblk'[i] = Content(lh[i])'
      <4>1. i \in 1 .. LOGSIZE /\ (i \in 1 .. tail - 1 \/ i = tail)
        BY <1>4, <2>2, Sizes
      <4>2. logblk \in [1 .. LOGSIZE -> Val]
        BY <1>0 DEF TypeOK
      <4>3. CASE i = tail
        BY <2>1, <2>3, <4>1, <4>2, <4>3
      <4>4. CASE i # tail
        <5>1. logblk'[i] = logblk[i]
          BY <2>1, <4>1, <4>2, <4>4
        <5>2. logblk[i] = Content(lh[i])
          BY <2>1, <4>1, <4>4 DEF CopyInv
        <5> QED  BY <2>3, <5>1, <5>2
      <4> QED  BY <4>3, <4>4
    <3> QED  BY <3>1
  <2>5. /\ \A q \in Proc : q # p => pc'[q] \notin Committing
        /\ \/ pc'[p] = "wlog" /\ tail' = tail + 1
           \/ pc'[p] = "whead" /\ tail = Len(lh')
    BY <1>0, <1>3, <2>1 DEF TypeOK
  <2>6. pc'[p] = "wlog" => \A i \in 1 .. tail' - 1 : logblk'[i] = Content(lh[i])'
    <3>1. ASSUME pc'[p] = "wlog", NEW i \in 1 .. tail' - 1
          PROVE  logblk'[i] = Content(lh[i])'
      <4>1. i \in 1 .. tail
        BY <2>2, <2>5, <3>1
      <4> QED  BY <2>4, <4>1
    <3> QED  BY <3>1
  <2> QED  BY <1>2, <2>4, <2>5, <2>6 DEF CopyInv, Committing
<1>6. CASE write_head(p)
  <2>1. /\ pc[p] = "whead" /\ UNCHANGED <<home, logblk, cache, lh, tail>>
        /\ pc' = [pc EXCEPT ![p] = "install"]
    BY <1>6 DEF write_head, goto, logvars
  <2>2. /\ \A q \in Proc : q # p => pc'[q] \notin Committing
        /\ pc'[p] = "install"
    BY <1>0, <1>3, <2>1 DEF TypeOK
  <2>3. tail' = 1
    BY <1>0, <2>1 DEF HeaderInv
  <2>4. \A i \in 1 .. tail' - 1 : FALSE
    BY <2>3
  <2>5. \A i \in 1 .. Len(lh') : logblk'[i] = Content(lh[i])'
    BY <2>1 DEF CopyInv, Content
  <2> QED  BY <1>2, <2>2, <2>4, <2>5 DEF CopyInv, Committing
<1>7. CASE install_trans(p)
  <2>1. /\ pc[p] = "install" /\ Install /\ UNCHANGED <<logblk, lh>>
        /\ \/ tail = Len(lh) /\ pc' = [pc EXCEPT ![p] = "clear"]
           \/ tail' = tail + 1 /\ UNCHANGED pc
    BY <1>7 DEF install_trans, goto, logvars
  <2>2. tail \in 1 .. Len(lh)
    BY <1>0, <2>1 DEF HeaderInv
  <2>3. PICK b \in Block : b = lh[tail]
    BY <1>4, <2>2
  <2>4. /\ home' = [home EXCEPT ![b] = logblk[tail]]
        /\ cache' = [cache EXCEPT ![b] = logblk[tail]]
        /\ logblk[tail] \in Val
    BY <1>0, <2>1, <2>2, <2>3, Installed
  <2>5. /\ home'[b] = logblk[tail] /\ Content(b)' = logblk[tail]
        /\ \A c \in Block : c # b => /\ home'[c] = home[c]
                                     /\ Content(c)' = Content(c)
    BY <1>0, <2>4 DEF TypeOK, Content
  <2>6. ASSUME NEW i \in 1 .. Len(lh)
        PROVE  /\ logblk'[i] = Content(lh[i])'
               /\ i \in 1 .. tail - 1 \/ i = tail => home'[lh'[i]] = logblk'[i]
    <3>1. PICK c \in Block : c = lh[i] /\ c = lh'[i]
      BY <1>4, <2>1
    <3>2. logblk'[i] = logblk[i]
      BY <2>1
    <3>3. CASE i = tail
      <4>1. c = b
        BY <2>3, <3>1, <3>3
      <4> QED  BY <2>5, <3>1, <3>2, <3>3, <4>1
    <3>4. CASE i # tail
      <4>1. c # b
        BY <1>0, <2>2, <2>3, <3>1, <3>4 DEF HeaderInv, Distinct
      <4>2. home'[c] = home[c] /\ Content(c)' = Content(c)
        BY <2>5, <4>1
      <4>3. logblk[i] = Content(lh[i])
        BY <2>1 DEF CopyInv
      <4>4. i \in 1 .. tail - 1 => home[lh[i]] = logblk[i]
        BY <2>1 DEF CopyInv
      <4> QED  BY <3>1, <3>2, <3>4, <4>2, <4>3, <4>4
    <3> QED  BY <3>3, <3>4
  <2>7. /\ \A q \in Proc : q # p => pc'[q] \notin Committing
        /\ \/ pc'[p] = "install" /\ tail' = tail + 1
           \/ pc'[p] = "clear" /\ tail = Len(lh)
    BY <1>0, <1>3, <2>1 DEF TypeOK
  <2>8. \A i \in 1 .. Len(lh') : logblk'[i] = Content(lh[i])'
    BY <2>1, <2>6
  <2>9. pc'[p] = "install" => \A i \in 1 .. tail' - 1 : home'[lh'[i]] = logblk'[i]
    <3>1. ASSUME pc'[p] = "install", NEW i \in 1 .. tail' - 1
          PROVE  home'[lh'[i]] = logblk'[i]
      <4>1. i \in 1 .. Len(lh) /\ (i \in 1 .. tail - 1 \/ i = tail)
        BY <1>4, <2>2, <2>7, <3>1
      <4> QED  BY <2>6, <4>1
    <3> QED  BY <3>1
  <2>10. pc'[p] = "clear" => \A i \in 1 .. Len(lh') : home'[lh'[i]] = logblk'[i]
    <3>1. ASSUME pc'[p] = "clear", NEW i \in 1 .. Len(lh)
          PROVE  home'[lh'[i]] = logblk'[i]
      <4>1. i \in 1 .. tail - 1 \/ i = tail
        BY <1>4, <2>2, <2>7, <3>1
      <4> QED  BY <2>6, <4>1
    <3> QED  BY <2>1, <3>1
  <2> QED  BY <1>2, <2>7, <2>8, <2>9, <2>10 DEF CopyInv, Committing
<1>8. CASE clear_log(p)
  <2>1. pc[p] = "clear" /\ pc' = [pc EXCEPT ![p] = "done"]
    BY <1>8 DEF clear_log, goto
  <2>2. \A q \in Proc : pc'[q] \notin {"wlog", "whead", "install", "clear"}
    BY <1>0, <1>3, <2>1 DEF TypeOK, Committing
  <2> QED  BY <1>2, <2>2, NoCopy
<1>9. CASE commit_done(p)
  <2> DEFINE f == [pc EXCEPT ![p] = "idle"]
  <2>1. pc[p] = "done" /\ pc' = Awake(f)
    BY <1>9 DEF commit_done
  <2>2. /\ f \in [Proc -> PC]
        /\ \A q \in Proc : f[q] = IF q = p THEN "idle" ELSE pc[q]
    BY <1>0 DEF TypeOK, PC
  <2>3. \A q \in Proc : pc'[q] = IF f[q] = "sleep" THEN "begin" ELSE f[q]
    BY <2>1, <2>2, AwakeAt
  <2> HIDE DEF f
  <2>4. \A q \in Proc : pc'[q] \notin {"wlog", "whead", "install", "clear"}
    BY <1>3, <2>2, <2>3 DEF Committing
  <2> QED  BY <1>2, <2>4, NoCopy
<1> QED  BY <1>5, <1>6, <1>7, <1>8, <1>9

LEMMA RecoverCopy ==
    ASSUME LogInv, CopyInv, read_head \/ recover_install \/ recover_clear
    PROVE  CopyInv'
<1>0. TypeOK /\ CommitInv /\ HeaderInv
  BY DEF LogInv
<1>1. /\ boot # "up" /\ UNCHANGED pc /\ \A q \in Proc : pc'[q] = "idle"
  BY <1>0 DEF read_head, recover_install, recover_clear, procvars, CommitInv
<1>2. CASE read_head
  <2>1. /\ boot = "read" /\ lh' = header /\ tail' = tail
        /\ boot' = IF header = <<>> THEN "clear" ELSE "install"
    BY <1>2 DEF read_head
  <2>2. tail' = 1
    BY <1>0, <2>1 DEF HeaderInv
  <2>3. /\ \A i \in 1 .. tail' - 1 : FALSE
        /\ boot' = "clear" => \A i \in 1 .. Len(lh') : FALSE
    BY <2>1, <2>2
  <2> QED  BY <1>1, <2>3 DEF CopyInv
<1>3. CASE recover_install
  <2>1. /\ boot = "install" /\ Install /\ UNCHANGED <<lh, logblk>>
        /\ \/ tail = Len(lh) /\ boot' = "clear"
           \/ tail' = tail + 1 /\ UNCHANGED boot
    BY <1>3 DEF recover_install, logvars
  <2>2. /\ tail \in 1 .. Len(lh) /\ Len(lh) \in Nat
        /\ \A i \in 1 .. Len(lh) : lh[i] \in Block
    BY <1>0, <2>1 DEF HeaderInv, TypeOK
  <2>3. PICK b \in Block : b = lh[tail]
    BY <2>2
  <2>4. home' = [home EXCEPT ![b] = logblk[tail]]
    BY <1>0, <2>1, <2>2, <2>3, Installed
  <2>5. /\ home'[b] = logblk[tail]
        /\ \A c \in Block : c # b => home'[c] = home[c]
    BY <1>0, <2>4 DEF TypeOK
  <2>6. ASSUME NEW i \in 1 .. Len(lh), i \in 1 .. tail - 1 \/ i = tail
        PROVE  home'[lh'[i]] = logblk'[i]
    <3>1. PICK c \in Block : c = lh[i] /\ c = lh'[i]
      BY <2>1, <2>2
    <3>2. CASE i = tail
      BY <2>1, <2>3, <2>5, <3>1, <3>2
    <3>3. CASE i # tail
      <4>1. c # b
        BY <1>0, <2>2, <2>3, <3>1, <3>3 DEF HeaderInv, Distinct
      <4>2. home[lh[i]] = logblk[i]
        BY <2>1, <2>6, <3>3 DEF CopyInv
      <4> QED  BY <2>1, <2>5, <3>1, <4>1, <4>2
    <3> QED  BY <3>2, <3>3
  <2>7. boot' = "install" => \A i \in 1 .. tail' - 1 : home'[lh'[i]] = logblk'[i]
    <3>1. ASSUME boot' = "install", NEW i \in 1 .. tail' - 1
          PROVE  home'[lh'[i]] = logblk'[i]
      <4>1. i \in 1 .. Len(lh) /\ (i \in 1 .. tail - 1 \/ i = tail)
        BY <2>1, <2>2, <3>1
      <4> QED  BY <2>6, <4>1
    <3> QED  BY <3>1
  <2>8. boot' = "clear" => \A i \in 1 .. Len(lh') : home'[lh'[i]] = logblk'[i]
    <3>1. ASSUME boot' = "clear", NEW i \in 1 .. Len(lh)
          PROVE  home'[lh'[i]] = logblk'[i]
      <4>1. i \in 1 .. tail - 1 \/ i = tail
        BY <2>1, <2>2, <3>1
      <4> QED  BY <2>6, <4>1
    <3> QED  BY <2>1, <3>1
  <2> QED  BY <1>1, <2>7, <2>8 DEF CopyInv
<1>4. CASE recover_clear
  BY <1>1, <1>4, NoCopy DEF recover_clear
<1> QED  BY <1>2, <1>3, <1>4

\* A buffer that bget() recycles holds what its home block holds.
LEMMA EvictContent ==
    ASSUME LogInv, NEW b \in Block, Evict(b)
    PROVE  /\ \A c \in Block : Content(c)' = Content(c)
           /\ UNCHANGED <<home, logblk, header, lh, tail, boot, pc, nest>>
<1>1. /\ ~dirty[b] /\ Unlocked(b) /\ cache' = [cache EXCEPT ![b] = NoData]
      /\ UNCHANGED <<home, logblk, header, lh, tail, boot, pc, nest>>
  BY DEF Evict, diskvars, logvars, procvars
<1>2. Synced(b)
  BY <1>1 DEF LogInv, PinInv, Unlocked
<1>3. TypeOK
  BY DEF LogInv
<1>4. \A c \in Block : Content(c)' = Content(c)
  BY <1>1, <1>2, <1>3 DEF TypeOK, Content, Synced
<1> QED  BY <1>1, <1>4

LEMMA ballocContent ==
    ASSUME TypeOK, NEW p \in Proc, balloc(p)
    PROVE  /\ \A c \in Block : Content(c)' = Content(c)
           /\ UNCHANGED <<home, logblk, header, lh, tail, boot, nest>>
           /\ pc' = [pc EXCEPT ![p] = "begin"]
<1>1. /\ cache' = [cache EXCEPT ![Bitmap] = Content(Bitmap)]
      /\ pc' = [pc EXCEPT ![p] = "begin"]
      /\ UNCHANGED <<home, logblk, header, lh, tail, boot, nest>>
  BY DEF balloc, goto, diskvars, logvars
<1>2. \A c \in Block : Content(c)' = Content(c)
  BY <1>1, Sizes DEF TypeOK, Content
<1> QED  BY <1>1, <1>2

LEMMA CopyStep ==
    ASSUME "bfree" \notin Kinds, LogInv, CopyInv, Next
    PROVE  CopyInv'
<1>0. TypeOK /\ CallInv /\ NestInv /\ CommitInv /\ HeaderInv
  BY DEF LogInv
<1>1. ASSUME NEW p \in Proc, SystemCall(p) \/ BallocCall(p) \/ begin_op(p)
      PROVE  CopyInv'
  <2>1. /\ UNCHANGED <<home, logblk, cache, lh, tail, boot>>
        /\ \E l \in {"begin", "bread", "sleep", "zero", "body"} :
              pc' = [pc EXCEPT ![p] = l]
    BY <1>1 DEF SystemCall, BallocCall, begin_op, goto, diskvars, logvars
  <2>2. /\ \A q \in Proc : q # p => pc'[q] = pc[q]
        /\ pc'[p] \in {"begin", "bread", "sleep", "zero", "body"}
    BY <1>0, <2>1 DEF TypeOK
  <2>3. \A b \in Block : Content(b)' = Content(b)
    BY <2>1 DEF Content
  <2> QED  BY <1>0, <2>1, <2>2, <2>3, CopyFrame
<1>2. ASSUME NEW p \in Proc, Write(p) \/ balloc_write(p) \/ log_write(p)
      PROVE  CopyInv'
  <2>1. pc[p] \in {"body", "zero", "append"} /\ boot' = boot
    BY <1>2 DEF Write, balloc_write, log_write
  <2>2. nest[p] > 0
    BY <1>0, <2>1 DEF CallInv
  <2>3. boot' = "up" /\ \A q \in Proc : pc[q] \notin Committing
    BY <1>0, <2>1, <2>2, Running, NobodyCommits
  <2>4. \E l \in {"append", "panic", "body", "zero", "end"} :
           pc' = [pc EXCEPT ![p] = l]
    BY <1>2 DEF Write, balloc_write, log_write, Modify, goto
  <2>5. \A q \in Proc : pc'[q] \notin {"wlog", "whead", "install", "clear"}
    BY <1>0, <2>3, <2>4 DEF TypeOK, Committing
  <2> QED  BY <2>3, <2>5, NoCopy
<1>3. ASSUME NEW p \in Proc, end_op(p) PROVE CopyInv'
  <2>1. /\ pc[p] \in {"body", "end"} /\ nest[p] \in 1 .. 2 /\ UNCHANGED boot
        /\ pc'[p] \in {"body", "idle", "done"} \/ (pc'[p] = "wlog" /\ tail' = 1)
        /\ \A q \in Proc : q # p => pc'[q] = pc[q]
                                     \/ (pc[q] = "sleep" /\ pc'[q] = "begin")
    BY <1>0, <1>3, Ends
  <2>2. nest[p] > 0
    BY <2>1
  <2>3. boot' = "up" /\ \A q \in Proc : pc[q] \notin Committing
    BY <1>0, <2>1, <2>2, Running, NobodyCommits
  <2>4. \A q \in Proc : pc'[q] \notin {"whead", "install", "clear"}
    BY <2>1, <2>3 DEF Committing
  <2>5. \A q \in Proc : pc'[q] = "wlog" => tail' = 1
    BY <2>1, <2>3 DEF Committing
  <2>6. boot' \notin {"install", "clear"}
    BY <2>3
  <2> QED  BY <2>4, <2>5, <2>6, NoCopy
<1>4. ASSUME NEW p \in Proc, balloc(p) PROVE CopyInv'
  <2>1. \A q \in Proc : pc'[q] = IF q = p THEN "begin" ELSE pc[q]
    BY <1>0, <1>4, ballocContent DEF TypeOK
  <2> QED  BY <1>0, <1>4, <2>1, ballocContent, CopyFrame
<1>5. ASSUME NEW b \in Block, Evict(b) PROVE CopyInv'
  <2>1. /\ \A c \in Block : Content(c)' = Content(c)
        /\ UNCHANGED <<home, logblk, lh, tail, boot, pc>>
    BY <1>5, EvictContent
  <2> QED  BY <1>0, <2>1, CopyFrame
<1>6. ASSUME Crash PROVE CopyInv'
  BY <1>6, NoCopy DEF Crash
<1>7. ASSUME UNCHANGED vars PROVE CopyInv'
  BY <1>0, <1>7, CopyFrame DEF vars, diskvars, logvars, procvars, Content
<1>8. ASSUME NEW p \in Proc, bfree(p) PROVE CopyInv'
  BY <1>8 DEF bfree
<1> QED  BY <1>1, <1>2, <1>3, <1>4, <1>5, <1>6, <1>7, <1>8, NextCases,
            CommitCopy, RecoverCopy

LEMMA Quiet == LogInv /\ CopyInv => CommitIsQuiet
<1> SUFFICES ASSUME LogInv, CopyInv PROVE CommitIsQuiet
  OBVIOUS
<1>1. committing => outstanding = 0
  BY DEF LogInv, CommitInv
<1>2. ASSUME boot = "up", header # <<>>
      PROVE  /\ committing /\ header = lh
             /\ \A i \in 1 .. Len(lh) : logblk[i] = Content(lh[i])
  <2>1. PICK p \in Proc : pc[p] \in {"install", "clear"}
    BY <1>2 DEF LogInv, HeaderInv
  <2>2. committing
    BY <2>1 DEF LogInv, CommitInv, Committing
  <2>3. header = lh
    BY <2>1 DEF LogInv, HeaderInv
  <2>4. \A i \in 1 .. Len(lh) : logblk[i] = Content(lh[i])
    BY <2>1 DEF CopyInv
  <2> QED  BY <2>2, <2>3, <2>4
<1> QED  BY <1>1, <1>2 DEF CommitIsQuiet

LEMMA InitCopy == Init => CopyInv
  BY DEF Init, Idle, CopyInv

LEMMA CopyNext ==
    ASSUME "bfree" \notin Kinds
    PROVE  LogInv /\ CopyInv /\ [Next]_vars => (LogInv /\ CopyInv)'
<1> SUFFICES ASSUME LogInv, CopyInv, [Next]_vars PROVE LogInv' /\ CopyInv'
  OBVIOUS
<1>1. LogInv'
  BY NextInv
<1>2. CASE Next
  BY <1>1, <1>2, CopyStep
<1>3. CASE UNCHANGED vars
  BY <1>1, <1>3, CopyFrame DEF LogInv, vars, diskvars, logvars, procvars,
     Content
<1> QED  BY <1>2, <1>3

\* While nobody frees a block, a commit runs with no call in progress, and
\* once the header is on disk the log blocks hold what the cache holds.
THEOREM QuietTheorem ==
    ASSUME "bfree" \notin Kinds
    PROVE  Spec => []CommitIsQuiet
<1>1. Init => LogInv /\ CopyInv
  BY InitInv, InitCopy
<1>2. LogInv /\ CopyInv /\ [Next]_vars => (LogInv /\ CopyInv)'
  BY CopyNext
<1> QED  BY <1>1, <1>2, Quiet, PTL DEF Spec

-----------------------------------------------------------------------------
(* The log implements the atomic disk.                                     *)

Mem    == IF boot = "up" THEN [b \in Block |-> Content(b)] ELSE Durable
Active == {p \in Proc : nest[p] > 0}

\* What recovery makes of the disk with the header s.
Recovered(s) ==
    [b \in Block |->
       IF \E i \in 1 .. Len(s) : s[i] = b
       THEN logblk[CHOOSE i \in 1 .. Len(s) : s[i] = b]
       ELSE home[b]]

LEMMA RecoveredAt ==
    ASSUME NEW s, Distinct(s)
    PROVE  /\ \A i \in 1 .. Len(s) :
                 s[i] \in Block => Recovered(s)[s[i]] = logblk[i]
           /\ \A b \in Block : ~Contains(s, b) => Recovered(s)[b] = home[b]
<1>1. ASSUME NEW i \in 1 .. Len(s), s[i] \in Block
      PROVE  Recovered(s)[s[i]] = logblk[i]
  <2>1. (CHOOSE j \in 1 .. Len(s) : s[j] = s[i]) = i
    BY DEF Distinct
  <2> QED  BY <1>1, <2>1 DEF Recovered
<1>2. ASSUME NEW b \in Block, ~Contains(s, b)
      PROVE  Recovered(s)[b] = home[b]
  BY <1>2 DEF Recovered, Contains
<1> QED  BY <1>1, <1>2

\* The disk a crash falls back to, while no commit is past its header.
LEMMA DurableHome == header = <<>> => Durable = [b \in Block |-> home[b]]
<1> SUFFICES ASSUME header = <<>>
             PROVE  Durable = [b \in Block |-> home[b]]
  OBVIOUS
<1>1. ~\E i \in 1 .. Len(header) : TRUE
  OBVIOUS
<1> QED  BY <1>1 DEF Durable

LEMMA DurableSame == UNCHANGED <<home, logblk, header>> => Durable' = Durable
  BY DEF Durable

\* A step that changes no block and opens and closes no call.
LEMMA Stutters ==
    ASSUME Durable' = Durable, nest' = nest, boot' = boot,
           \A b \in Block : Content(b)' = Content(b)
    PROVE  UNCHANGED <<Mem, Durable, Active>>
<1>1. Active' = Active
  BY DEF Active
<1>2. Mem' = Mem
  BY DEF Mem
<1> QED  BY <1>1, <1>2

\* What every block is, by whether the header names it.
LEMMA RecoveredIs ==
    ASSUME NEW s \in Seq(Block), Distinct(s), NEW f,
           \A i \in 1 .. Len(s) : f[s[i]] = logblk[i],
           \A b \in Block : ~Contains(s, b) => f[b] = home[b],
           f = [b \in Block |-> f[b]]
    PROVE  Recovered(s) = f
<1>1. ASSUME NEW b \in Block PROVE Recovered(s)[b] = f[b]
  <2>1. CASE Contains(s, b)
    <3>1. PICK i \in 1 .. Len(s) : s[i] = b
      BY <2>1 DEF Contains
    <3>2. Recovered(s)[s[i]] = logblk[i]
      BY <3>1, RecoveredAt
    <3> QED  BY <3>1, <3>2
  <2>2. CASE ~Contains(s, b)
    BY <2>2, RecoveredAt
  <2> QED  BY <2>1, <2>2
<1>2. Recovered(s) = [b \in Block |-> Recovered(s)[b]]
  BY DEF Recovered
<1> HIDE DEF Recovered
<1> QED  BY <1>1, <1>2

LEMMA write_headMap ==
    ASSUME LogInv, CopyInv, NEW p \in Proc, write_head(p)
    PROVE  /\ Active = {} /\ Durable' = Mem
           /\ Mem' = Mem /\ Active' = Active
<1>0. TypeOK /\ CallInv /\ NestInv /\ CommitInv /\ HeaderInv /\ PinInv
  BY DEF LogInv
<1>1. /\ pc[p] = "whead" /\ header' = lh
      /\ UNCHANGED <<home, logblk, cache, nest, boot>>
  BY DEF write_head
<1>2. boot = "up" /\ committing
  BY <1>0, <1>1, Running DEF CommitInv, Committing
<1>3. \A q \in Proc : nest[q] = 0
  BY <1>0, <1>2, Counted DEF CommitInv
<1>4. Active = {}
  <2>1. \A q \in Proc : ~(nest[q] > 0)
    BY <1>3
  <2> QED  BY <2>1 DEF Active
<1>5. \A q \in Proc : pc[q] \notin {"append", "panic"}
  BY <1>0, <1>3 DEF CallInv
<1>6. \A b \in Block : ~Contains(lh, b) => Content(b) = home[b]
  BY <1>0, <1>5 DEF PinInv, Synced, Content
<1>7. \A i \in 1 .. Len(lh) : logblk[i] = Content(lh[i]) /\ lh[i] \in Block
  BY <1>0, <1>1 DEF CopyInv, TypeOK
<1>8. Mem = [b \in Block |-> Content(b)]
  BY <1>2 DEF Mem
<1>9. /\ \A i \in 1 .. Len(lh) : Mem[lh[i]] = logblk[i]
      /\ \A b \in Block : ~Contains(lh, b) => Mem[b] = home[b]
      /\ Mem = [b \in Block |-> Mem[b]]
  BY <1>6, <1>7, <1>8
<1>10. Recovered(lh) = Mem
  BY <1>0, <1>9, RecoveredIs DEF TypeOK, HeaderInv
<1>11. Durable' = Recovered(lh)
  BY <1>1 DEF Durable, Recovered
<1>12. Mem' = Mem
  BY <1>1, <1>2 DEF Mem, Content
<1>13. Active' = Active
  BY <1>1 DEF Active
<1> QED  BY <1>4, <1>10, <1>11, <1>12, <1>13

\* Copying a block of the log to its home changes nothing that counts.
LEMMA InstallMap ==
    ASSUME LogInv, CopyInv, Install, UNCHANGED <<logblk, header, nest>>,
           header = lh, tail \in 1 .. Len(lh),
           \/ boot' = "up" /\ boot = "up" /\ \E p \in Proc : pc[p] = "install"
           \/ boot' # "up" /\ boot # "up"
    PROVE  UNCHANGED <<Mem, Durable, Active>>
<1>0. TypeOK /\ HeaderInv
  BY DEF LogInv
<1>1. PICK b \in Block : b = lh[tail]
  BY <1>0, Installed
<1>2. /\ home' = [home EXCEPT ![b] = logblk[tail]]
      /\ cache' = [cache EXCEPT ![b] = logblk[tail]]
      /\ logblk[tail] \in Val
  BY <1>0, <1>1, Installed
<1>3. \A c \in Block : c # b => home'[c] = home[c]
  BY <1>0, <1>2 DEF TypeOK
<1>4. \E i \in 1 .. Len(header) : header[i] = b
  BY <1>1
<1>5. Durable' = Durable
  BY <1>3, <1>4 DEF Durable
<1>6. Active' = Active
  BY DEF Active
<1>7. CASE boot' = "up" /\ boot = "up" /\ \E p \in Proc : pc[p] = "install"
  <2>1. Content(b) = logblk[tail]
    BY <1>1, <1>7 DEF CopyInv
  <2>2. \A c \in Block : Content(c)' = Content(c)
    BY <1>0, <1>2, <2>1 DEF Content, TypeOK, Val, NoData
  <2> QED  BY <1>5, <1>6, <1>7, <2>2 DEF Mem
<1>8. CASE boot' # "up" /\ boot # "up"
  BY <1>5, <1>6, <1>8 DEF Mem
<1> QED  BY <1>7, <1>8

\* The log is cleared when all its blocks are in their homes.
LEMMA ClearMap ==
    ASSUME HeaderInv, TypeOK, header = lh, header' = <<>>, home' = home,
           \A i \in 1 .. Len(lh) : home[lh[i]] = logblk[i]
    PROVE  Durable' = Durable /\ Durable = [b \in Block |-> home[b]]
<1> DEFINE f == [b \in Block |-> home[b]]
<1>1. Durable = Recovered(lh)
  BY DEF Durable, Recovered
<1>2. \A i \in 1 .. Len(lh) : lh[i] \in Block
  BY DEF TypeOK
<1>3. /\ \A i \in 1 .. Len(lh) : f[lh[i]] = logblk[i]
      /\ \A b \in Block : ~Contains(lh, b) => f[b] = home[b]
      /\ f = [b \in Block |-> f[b]]
  BY <1>2
<1> HIDE DEF f
<1>4. Recovered(lh) = f
  BY <1>3, RecoveredIs DEF TypeOK, HeaderInv
<1>5. Durable' = f
  <2>1. ~\E i \in 1 .. Len(<<>>) : TRUE
    OBVIOUS
  <2> QED  BY <2>1 DEF Durable, f
<1> QED  BY <1>1, <1>4, <1>5 DEF f

\* The steps of a process that the atomic disk does not see.
LEMMA MovesMap ==
    ASSUME LogInv, CopyInv, NEW p \in Proc,
           \/ SystemCall(p) \/ BallocCall(p) \/ balloc(p) \/ log_write(p)
           \/ commit_done(p) \/ write_log(p)
    PROVE  UNCHANGED <<Mem, Durable, Active>>
<1>0. TypeOK /\ CommitInv /\ HeaderInv
  BY DEF LogInv
<1>1. CASE SystemCall(p) \/ BallocCall(p) \/ log_write(p) \/ commit_done(p)
  <2>1. UNCHANGED <<home, logblk, header, cache, nest, boot>>
    BY <1>1 DEF SystemCall, BallocCall, log_write, commit_done, diskvars
  <2>2. \A b \in Block : Content(b)' = Content(b)
    BY <2>1 DEF Content
  <2> QED  BY <2>1, <2>2, DurableSame, Stutters
<1>2. CASE balloc(p)
  BY <1>0, <1>2, ballocContent, DurableSame, Stutters
<1>3. CASE write_log(p)
  <2>1. /\ pc[p] = "wlog" /\ UNCHANGED <<home, header, cache, nest, boot>>
    BY <1>3 DEF write_log
  <2>2. boot = "up" /\ \A q \in Proc : pc[q] \notin {"install", "clear"}
    BY <1>0, <2>1, Running DEF CommitInv, Committing
  <2>3. header = <<>> /\ header' = <<>>
    BY <1>0, <2>1, <2>2 DEF HeaderInv
  <2>4. Durable = [b \in Block |-> home[b]]
    BY <2>3, DurableHome
  <2>5. Durable' = [b \in Block |-> home[b]]
    <3>1. ~\E i \in 1 .. Len(<<>>) : TRUE
      OBVIOUS
    <3> QED  BY <2>1, <2>3, <3>1 DEF Durable
  <2>6. \A b \in Block : Content(b)' = Content(b)
    BY <2>1 DEF Content
  <2> QED  BY <2>1, <2>4, <2>5, <2>6, Stutters
<1> QED  BY <1>1, <1>2, <1>3

LEMMA CommitMap ==
    ASSUME LogInv, CopyInv, NEW p \in Proc, install_trans(p) \/ clear_log(p)
    PROVE  UNCHANGED <<Mem, Durable, Active>>
<1>0. TypeOK /\ CommitInv /\ HeaderInv
  BY DEF LogInv
<1>1. /\ pc[p] \in {"install", "clear"} /\ UNCHANGED <<logblk, nest, boot>>
  BY DEF install_trans, clear_log
<1>2. boot = "up" /\ boot' = "up" /\ header = lh
  BY <1>0, <1>1, Running DEF HeaderInv
<1>3. CASE install_trans(p)
  <2>1. Install /\ pc[p] = "install" /\ UNCHANGED header
    BY <1>3 DEF install_trans
  <2>2. tail \in 1 .. Len(lh)
    BY <1>0, <2>1 DEF HeaderInv
  <2> QED  BY <1>1, <1>2, <2>1, <2>2, InstallMap
<1>4. CASE clear_log(p)
  <2>1. pc[p] = "clear" /\ header' = <<>> /\ UNCHANGED <<home, cache>>
    BY <1>4 DEF clear_log
  <2>2. \A i \in 1 .. Len(lh) : home[lh[i]] = logblk[i]
    BY <2>1 DEF CopyInv
  <2>3. Durable' = Durable
    BY <1>0, <1>2, <2>1, <2>2, ClearMap
  <2>4. \A b \in Block : Content(b)' = Content(b)
    BY <2>1 DEF Content
  <2> QED  BY <1>1, <2>3, <2>4, Stutters
<1> QED  BY <1>3, <1>4

LEMMA RecoverMap ==
    ASSUME LogInv, CopyInv, read_head \/ recover_install \/ recover_clear
    PROVE  UNCHANGED <<Mem, Durable, Active>>
<1>0. TypeOK /\ HeaderInv
  BY DEF LogInv
<1>1. CASE read_head
  <2>1. /\ UNCHANGED <<home, logblk, header, nest>>
        /\ boot = "read" /\ boot' # "up"
    BY <1>1 DEF read_head, diskvars, procvars
  <2>2. Durable' = Durable
    BY <2>1, DurableSame
  <2> QED  BY <2>1, <2>2 DEF Mem, Active
<1>2. CASE recover_install
  <2>1. /\ boot = "install" /\ Install /\ UNCHANGED <<logblk, header, nest>>
        /\ boot' # "up"
    BY <1>2 DEF recover_install, procvars
  <2>2. header = lh /\ tail \in 1 .. Len(lh)
    BY <1>0, <2>1 DEF HeaderInv
  <2> QED  BY <2>1, <2>2, InstallMap
<1>3. CASE recover_clear
  <2>1. /\ boot = "clear" /\ boot' = "up" /\ header' = <<>>
        /\ UNCHANGED <<home, cache, nest>>
    BY <1>3 DEF recover_clear, procvars
  <2>2. header = lh /\ \A i \in 1 .. Len(lh) : home[lh[i]] = logblk[i]
    BY <1>0, <2>1 DEF HeaderInv, CopyInv
  <2>3. Durable' = Durable /\ Durable = [b \in Block |-> home[b]]
    BY <1>0, <2>1, <2>2, ClearMap
  <2>4. \A b \in Block : Content(b)' = home[b]
    BY <2>1 DEF LogInv, PinInv, Synced, Content
  <2>5. Mem' = Mem
    BY <2>1, <2>3, <2>4 DEF Mem
  <2> QED  BY <2>1, <2>3, <2>5 DEF Active
<1> QED  BY <1>1, <1>2, <1>3

LEMMA begin_opMap ==
    ASSUME LogInv, NEW p \in Proc, begin_op(p)
    PROVE  \/ UNCHANGED <<Mem, Durable, Active>>
           \/ /\ p \notin Active /\ Active' = Active \cup {p}
              /\ UNCHANGED <<Mem, Durable>>
<1>0. TypeOK /\ CallInv
  BY DEF LogInv
<1>1. pc[p] = "begin" /\ UNCHANGED <<home, logblk, header, cache, boot>>
  BY DEF begin_op, diskvars
<1>2. UNCHANGED <<Mem, Durable>>
  BY <1>1, DurableSame DEF Mem, Content
<1>3. CASE nest' = nest
  BY <1>2, <1>3 DEF Active
<1>4. CASE nest' = [nest EXCEPT ![p] = @ + 1]
  <2>1. nest[p] \in 0 .. 1
    BY <1>0, <1>1 DEF CallInv
  <2>2. \A q \in Proc : nest'[q] = IF q = p THEN nest[p] + 1 ELSE nest[q]
    BY <1>0, <1>4 DEF TypeOK
  <2>3. CASE nest[p] = 0
    <3>1. \A q \in Proc : nest'[q] > 0 <=> (nest[q] > 0 \/ q = p)
      BY <2>2, <2>3
    <3>2. ~(nest[p] > 0)
      BY <2>3
    <3> QED  BY <1>2, <3>1, <3>2 DEF Active
  <2>4. CASE nest[p] = 1
    <3>1. \A q \in Proc : nest'[q] > 0 <=> nest[q] > 0
      BY <2>2, <2>4
    <3> QED  BY <1>2, <3>1 DEF Active
  <2> QED  BY <2>1, <2>3, <2>4
<1>5. nest' = nest \/ nest' = [nest EXCEPT ![p] = @ + 1]
  BY DEF begin_op
<1> QED  BY <1>3, <1>4, <1>5

LEMMA end_opMap ==
    ASSUME LogInv, NEW p \in Proc, end_op(p)
    PROVE  \/ UNCHANGED <<Mem, Durable, Active>>
           \/ /\ p \in Active /\ Active' = Active \ {p}
              /\ UNCHANGED <<Mem, Durable>>
<1>0. TypeOK /\ CallInv /\ NestInv
  BY DEF LogInv
<1>1. /\ nest' = [nest EXCEPT ![p] = @ - 1] /\ nest[p] \in 1 .. 2
      /\ UNCHANGED <<home, logblk, header, cache, boot>>
  BY <1>0, Ends DEF diskvars
<1>2. UNCHANGED <<Mem, Durable>>
  BY <1>1, DurableSame DEF Mem, Content
<1>3. \A q \in Proc : nest'[q] = IF q = p THEN nest[p] - 1 ELSE nest[q]
  BY <1>0, <1>1 DEF TypeOK
<1>4. CASE nest[p] = 1
  <2>1. \A q \in Proc : nest'[q] > 0 <=> (nest[q] > 0 /\ q # p)
    BY <1>3, <1>4
  <2>2. nest[p] > 0
    BY <1>4
  <2> QED  BY <1>2, <2>1, <2>2 DEF Active
<1>5. CASE nest[p] = 2
  <2>1. \A q \in Proc : nest'[q] > 0 <=> nest[q] > 0
    BY <1>3, <1>5
  <2> QED  BY <1>2, <2>1 DEF Active
<1> QED  BY <1>1, <1>4, <1>5

LEMMA WriteMap ==
    ASSUME LogInv, NEW p \in Proc, Write(p) \/ balloc_write(p)
    PROVE  /\ p \in Active /\ UNCHANGED <<Durable, Active>>
           /\ \E b \in Block : \E v \in Val : Mem' = [Mem EXCEPT ![b] = v]
<1>0. TypeOK /\ CallInv /\ CommitInv
  BY DEF LogInv
<1>1. /\ pc[p] \in {"body", "zero"}
      /\ UNCHANGED <<home, logblk, header, nest, boot>>
  BY DEF Write, balloc_write, diskvars
<1>2. boot = "up" /\ boot' = "up"
  BY <1>0, <1>1, Running
<1>3. PICK b \in Block : Modify(p, b)
  BY DEF Write, balloc_write
<1>4. /\ cache' = [cache EXCEPT ![b] = 1 - Content(b)]
      /\ 1 - Content(b) \in Val
  BY <1>0, <1>3, Modified, Contents
<1>5. PICK v \in Val : v = 1 - Content(b)
  BY <1>4
<1>6. \A c \in Block : Content(c)' = IF c = b THEN v ELSE Content(c)
  BY <1>0, <1>1, <1>4, <1>5 DEF Content, TypeOK, Val, NoData
<1>7. Mem = [c \in Block |-> Content(c)] /\ Mem' = [c \in Block |-> Content(c)']
  BY <1>2 DEF Mem
<1>8. Mem' = [Mem EXCEPT ![b] = v]
  BY <1>6, <1>7
<1>9. nest[p] > 0
  BY <1>0, <1>1 DEF CallInv
<1> QED  BY <1>1, <1>8, <1>9, DurableSame DEF Active

LEMMA CrashMap ==
    ASSUME Crash
    PROVE  /\ Mem' = Durable /\ Durable' = Durable /\ Active' = {}
<1>1. /\ UNCHANGED <<home, logblk, header>> /\ boot' = "read"
      /\ nest' = [q \in Proc |-> 0]
  BY DEF Crash, diskvars
<1>2. Durable' = Durable
  BY <1>1, DurableSame
<1>3. \A q \in Proc : ~(nest'[q] > 0)
  BY <1>1
<1> QED  BY <1>1, <1>2, <1>3 DEF Mem, Active

LEMMA InitMap == Init => A!AInit
<1> SUFFICES ASSUME Init PROVE A!AInit
  OBVIOUS
<1>1. /\ header = <<>> /\ boot = "read" /\ home = [b \in Block |-> 0]
      /\ nest = [p \in Proc |-> 0]
  BY DEF Init, Idle
<1>2. Durable = [b \in Block |-> home[b]]
  BY <1>1, DurableHome
<1>3. Durable \in [Block -> Val]
  BY <1>1, <1>2 DEF Val
<1>4. \A p \in Proc : ~(nest[p] > 0)
  BY <1>1
<1> QED  BY <1>1, <1>3, <1>4 DEF A!AInit

LEMMA StepMap ==
    ASSUME "bfree" \notin Kinds, LogInv, CopyInv, [Next]_vars
    PROVE  [A!ANext]_(A!avars)
<1>1. ASSUME UNCHANGED <<Mem, Durable, Active>>
      PROVE  [A!ANext]_(A!avars)
  BY <1>1 DEF A!avars, Mem, Active
<1>2. ASSUME NEW p \in Proc, p \notin Active, Active' = Active \cup {p},
             UNCHANGED <<Mem, Durable>>
      PROVE  A!ANext
  BY <1>2 DEF A!ANext, A!Begin, Mem, Active
<1>3. ASSUME NEW p \in Proc, p \in Active, Active' = Active \ {p},
             UNCHANGED <<Mem, Durable>>
      PROVE  A!ANext
  BY <1>3 DEF A!ANext, A!End, Mem, Active
<1>4. ASSUME NEW p \in Proc, Write(p) \/ balloc_write(p) PROVE A!ANext
  BY <1>4, WriteMap DEF A!ANext, A!Update, Mem, Active
<1>5. ASSUME NEW p \in Proc, write_head(p) PROVE A!ANext
  BY <1>5, write_headMap DEF A!ANext, A!Sync, Mem, Active
<1>6. ASSUME Crash PROVE A!ANext
  BY <1>6, CrashMap DEF A!ANext, A!Crash, Mem, Active
<1>7. ASSUME NEW b \in Block, Evict(b)
      PROVE  UNCHANGED <<Mem, Durable, Active>>
  BY <1>7, EvictContent, DurableSame, Stutters
<1>8. ASSUME UNCHANGED vars PROVE UNCHANGED <<Mem, Durable, Active>>
  <2>1. UNCHANGED <<home, logblk, header, cache, nest, boot>>
    BY <1>8 DEF vars, diskvars, procvars
  <2>2. \A b \in Block : Content(b)' = Content(b)
    BY <2>1 DEF Content
  <2> QED  BY <2>1, <2>2, DurableSame, Stutters
<1>9. ASSUME NEW p \in Proc, bfree(p) PROVE FALSE
  BY <1>9 DEF bfree
<1>10. ASSUME NEW p \in Proc, begin_op(p) PROVE [A!ANext]_(A!avars)
  BY <1>1, <1>2, <1>10, begin_opMap
<1>11. ASSUME NEW p \in Proc, end_op(p) PROVE [A!ANext]_(A!avars)
  BY <1>1, <1>3, <1>11, end_opMap
<1> QED  BY <1>1, <1>4, <1>5, <1>6, <1>7, <1>8, <1>9, <1>10, <1>11, NextCases,
            MovesMap, CommitMap, RecoverMap

\* The calls between begin_op() and end_op() reach the disk in groups of whole
\* calls, and a crash at any moment, during commit() and during recovery too,
\* falls back to the last group, while nobody frees a block.
THEOREM AtomicTheorem ==
    ASSUME "bfree" \notin Kinds
    PROVE  Spec => ImplementsAtomicDisk
<1>1. Init => LogInv /\ CopyInv /\ A!AInit
  BY InitInv, InitCopy, InitMap
<1>2. LogInv /\ CopyInv /\ [Next]_vars => (LogInv /\ CopyInv)'
  BY CopyNext
<1>3. LogInv /\ CopyInv /\ [Next]_vars => [A!ANext]_(A!avars)
  BY StepMap
<1> QED  BY <1>1, <1>2, <1>3, PTL DEF Spec, ImplementsAtomicDisk, A!ASpec
=============================================================================
