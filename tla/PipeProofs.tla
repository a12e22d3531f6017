----------------------------- MODULE PipeProofs -----------------------------
(***************************************************************************)
(* What is proved of the pipe of Part_B/pipe.c for any number of           *)
(* processes, any PIPESIZE, and counters of any width that PIPESIZE        *)
(* divides.  PipeInv is the inductive invariant; SleepInv adds what holds  *)
(* of sleepers as long as nobody has been killed.                          *)
(***************************************************************************)
EXTENDS Pipe, SequenceTheorems, TLAPS

-----------------------------------------------------------------------------
(* Arithmetic of counters that wrap.                                       *)

\* The difference of two counters.
LEMMA Difference ==
    ASSUME NEW W \in Nat, NEW x \in 0 .. W - 1, NEW y \in 0 .. W - 1
    PROVE  /\ (y - x) % W = IF y >= x THEN y - x ELSE (y - x) + W
           /\ (y - x) % W \in 0 .. W - 1
<1>1. CASE y >= x  BY <1>1, SMT
<1>2. CASE y < x  BY <1>2, SMT
<1> QED  BY <1>1, <1>2

\* A counter that goes forward by less than a round.
LEMMA Advance ==
    ASSUME NEW W \in Nat, NEW x \in 0 .. W - 1, NEW k \in 0 .. W - 1
    PROVE  /\ (x + k) % W = IF x + k < W THEN x + k ELSE (x + k) - W
           /\ (x + k) % W \in 0 .. W - 1
<1>1. CASE x + k < W  BY <1>1, SMT
<1>2. CASE x + k >= W  BY <1>2, SMT
<1> QED  BY <1>1, <1>2

\* The reader's counter advances by n of the d elements between the two.
LEMMA Consume ==
    ASSUME NEW W \in Nat, NEW x \in 0 .. W - 1, NEW y \in 0 .. W - 1,
           NEW n \in 0 .. (y - x) % W
    PROVE  (y - ((x + n) % W)) % W = ((y - x) % W) - n
<1>1. PICK d \in 0 .. W - 1 :
         /\ d = (y - x) % W
         /\ d = IF y >= x THEN y - x ELSE (y - x) + W
  BY Difference
<1>2. n \in 0 .. d /\ n \in 0 .. W - 1
  BY <1>1, SMT
<1>3. PICK z \in 0 .. W - 1 :
         /\ z = (x + n) % W
         /\ z = IF x + n < W THEN x + n ELSE (x + n) - W
  BY <1>2, Advance
<1>4. (y - z) % W = IF y >= z THEN y - z ELSE (y - z) + W
  BY Difference
<1>5. (IF y >= z THEN y - z ELSE (y - z) + W) = d - n
  <2>1. d = IF y >= x THEN y - x ELSE (y - x) + W
    BY <1>1
  <2>2. z = IF x + n < W THEN x + n ELSE (x + n) - W
    BY <1>3
  <2> QED  BY <2>1, <2>2, <1>2, SMT
<1> QED  BY <1>1, <1>3, <1>4, <1>5, Zenon

\* The writer's counter advances by one.
LEMMA Produce ==
    ASSUME NEW W \in Nat, NEW x \in 0 .. W - 1, NEW y \in 0 .. W - 1,
           (y - x) % W < W - 1
    PROVE  /\ (y + 1) % W \in 0 .. W - 1
           /\ (((y + 1) % W) - x) % W = ((y - x) % W) + 1
<1>1. PICK d \in 0 .. W - 1 :
         /\ d = (y - x) % W
         /\ d = IF y >= x THEN y - x ELSE (y - x) + W
  BY Difference
<1>2. d < W - 1 /\ 1 \in 0 .. W - 1
  BY <1>1, SMT
<1>3. PICK z \in 0 .. W - 1 :
         /\ z = (y + 1) % W
         /\ z = IF y + 1 < W THEN y + 1 ELSE (y + 1) - W
  BY <1>2, Advance
<1>4. (z - x) % W = IF z >= x THEN z - x ELSE (z - x) + W
  BY Difference
<1>5. (IF z >= x THEN z - x ELSE (z - x) + W) = d + 1
  <2>1. d = IF y >= x THEN y - x ELSE (y - x) + W
    BY <1>1
  <2>2. z = IF y + 1 < W THEN y + 1 ELSE (y + 1) - W
    BY <1>3
  <2> QED  BY <2>1, <2>2, <1>2, SMT
<1> QED  BY <1>1, <1>3, <1>4, <1>5, Zenon

LEMMA Quotient ==
    ASSUME NEW x \in Nat, NEW P \in Nat, P > 0
    PROVE  \E q \in Nat : x = (P * q) + (x % P)
  BY SMT

\* Two counters less than a buffer apart index different elements of it.
LEMMA Apart ==
    ASSUME NEW W \in Nat, NEW P \in Nat, P > 0, W % P = 0,
           NEW x \in 0 .. W - 1, NEW y \in 0 .. W - 1,
           (y - x) % W \in 1 .. P - 1
    PROVE  x % P # y % P
<1> DEFINE d == (y - x) % W
<1>1. PICK q \in Nat : W = P * q
  <2>1. PICK q \in Nat : W = (P * q) + (W % P)
    BY Quotient
  <2>2. W = P * q
    BY <2>1, SMT
  <2> QED  BY <2>2
<1>2. x \in Nat /\ y \in Nat
  OBVIOUS
<1>3. PICK a \in Nat : x = (P * a) + (x % P)
  BY <1>2, Quotient
<1>4. PICK b \in Nat : y = (P * b) + (y % P)
  BY <1>2, Quotient
<1>5. ASSUME NEW m \in Int
      PROVE  P * m # d
  <2>1. CASE m <= 0  BY <2>1, SMT
  <2>2. CASE m >= 1  BY <2>2, SMT
  <2> QED  BY <2>1, <2>2
<1>6. SUFFICES ASSUME x % P = y % P
               PROVE  FALSE
  OBVIOUS
<1>7. y - x = d \/ y - x = d - W
  BY Difference
<1>8. x % P \in Int
  BY <1>2, SMT
<1>9. y - x = (P * b) - (P * a)
  BY <1>3, <1>4, <1>6, <1>8, SMT
<1> HIDE DEF d
<1>10. d \in Int
  BY DEF d
<1>11. P * (b - a) # d /\ P * ((b - a) + q) # d
  <2>1. b - a \in Int /\ (b - a) + q \in Int
    OBVIOUS
  <2> QED  BY <1>5, <2>1, Zenon
<1>12. P * (b - a) = (P * b) - (P * a)
  BY SMT
<1>13. P * ((b - a) + q) = (P * (b - a)) + (P * q)
  BY SMT
<1> QED  BY <1>1, <1>2, <1>7, <1>9, <1>10, <1>11, <1>12, <1>13, SMT

-----------------------------------------------------------------------------
(* The inductive invariant.                                                *)

LEMMA Sizes ==
    /\ PIPESIZE \in Nat /\ PIPESIZE > 0 /\ MaxCall \in Nat /\ MaxCall >= 1
    /\ WIDTH \in Nat /\ WIDTH > PIPESIZE /\ WIDTH % PIPESIZE = 0
  BY PipeAssumption, SMT

\* EndsInv looks at pc only for the processes inside pipeclose().
LEMMA EndsFrame ==
    ASSUME EndsInv,
           UNCHANGED <<readopen, writeopen, freed, ref>>,
           \A q \in Proc : /\ pc'[q] = "rclose" <=> pc[q] = "rclose"
                           /\ pc'[q] = "wclose" <=> pc[q] = "wclose"
    PROVE  EndsInv'
<1>1. \A q \in Proc : /\ (pc'[q] = "rclose") = (pc[q] = "rclose")
                      /\ (pc'[q] = "wclose") = (pc[q] = "wclose")
  OBVIOUS
<1>2. ClosedBy("read", "rclose", readopen)'
  BY <1>1 DEF EndsInv, ClosedBy
<1>3. ClosedBy("write", "wclose", writeopen)'
  BY <1>1 DEF EndsInv, ClosedBy
<1> QED  BY <1>2, <1>3 DEF EndsInv

LEMMA InitPipe == Init => PipeInv
<1> SUFFICES ASSUME Init PROVE PipeInv
  OBVIOUS
<1>1. (CHOOSE b \in Byte : TRUE) \in Byte
  BY PipeAssumption
<1>2. 0 % WIDTH = 0
  BY Sizes, SMT
<1>3. TypeOK
  <2>1. data \in [0 .. PIPESIZE - 1 -> Byte]
    BY <1>1 DEF Init
  <2>2. /\ nread \in 0 .. WIDTH - 1 /\ nwrite \in 0 .. WIDTH - 1
        /\ (nwrite - nread) % WIDTH <= PIPESIZE
    BY <1>2, Sizes, SMT DEF Init
  <2>3. ref \in [Ends -> SUBSET Proc]
    BY PipeAssumption DEF Init
  <2>4. /\ pc \in [Proc -> PC] /\ left \in [Proc -> 0 .. MaxCall]
        /\ killed \in [Proc -> BOOLEAN]
    BY Sizes DEF Init, PC
  <2>5. /\ readopen \in BOOLEAN /\ writeopen \in BOOLEAN
        /\ lock \in Proc \cup {Free} /\ freed \in 0 .. 1
        /\ result \in [Proc -> Seq(Byte) \cup {None, Error}]
    BY DEF Init
  <2> QED  BY <2>1, <2>2, <2>3, <2>4, <2>5 DEF TypeOK
<1>4. CallInv
  BY DEF Init, CallInv, Reading, Writing
<1>5. EndsInv
  <2>1. ref["read"] # {} /\ ref["write"] # {}
    BY PipeAssumption DEF Init, Ends
  <2> QED  BY <2>1 DEF Init, EndsInv, ClosedBy
<1> QED  BY <1>3, <1>4, <1>5 DEF PipeInv

\* What the wakeups do to one process.
LEMMA WakeReadersAt ==
    ASSUME NEW f \in [Proc -> PC], NEW q \in Proc
    PROVE  /\ WakeReaders(f) \in [Proc -> PC]
           /\ WakeReaders(f)[q] = IF f[q] = "rasleep" THEN "read" ELSE f[q]
  BY DEF WakeReaders, PC

LEMMA WakeWritersAt ==
    ASSUME NEW f \in [Proc -> PC], NEW q \in Proc
    PROVE  /\ WakeWriters(f) \in [Proc -> PC]
           /\ WakeWriters(f)[q] = IF f[q] = "wasleep" THEN "write" ELSE f[q]
  BY DEF WakeWriters, PC

LEMMA BeginPipe ==
    ASSUME PipeInv, NEW p \in Proc, NEW n \in 1 .. MaxCall, NEW e \in Ends,
           Begin(p, e, n)
    PROVE  PipeInv'
<1>1. /\ p \in ref[e] /\ pc[p] = "user" /\ e \in {"read", "write"}
      /\ pc' = [pc EXCEPT ![p] = e] /\ left' = [left EXCEPT ![p] = n]
      /\ result' = [result EXCEPT ![p] = None]
      /\ UNCHANGED <<pipevars, lock, freed, ref, killed>>
  BY DEF Begin, Ends
<1>2. TypeOK'
  BY <1>1, Sizes, SMT DEF PipeInv, TypeOK, PC, pipevars
<1>3. CallInv'
  BY <1>1, Sizes, SMT DEF PipeInv, TypeOK, CallInv, Reading, Writing
<1>4. EndsInv'
  BY <1>1, EndsFrame DEF PipeInv, TypeOK, pipevars
<1> QED  BY <1>2, <1>3, <1>4 DEF PipeInv

LEMMA ReadEmptyPipe ==
    ASSUME PipeInv, NEW p \in Proc, ReadEmpty(p)
    PROVE  PipeInv'
<1>1. /\ pc[p] = "read"
      /\ \/ /\ pc' = [pc EXCEPT ![p] = "user"]
            /\ left' = [left EXCEPT ![p] = 0] /\ lock' = Free
            /\ result' = [result EXCEPT ![p] = Error]
         \/ /\ pc' = [pc EXCEPT ![p] = "rsleep"]
            /\ UNCHANGED <<left, result>> /\ lock' = p
      /\ UNCHANGED <<pipevars, freed, ref, killed>>
  BY DEF ReadEmpty, Return
<1>2. TypeOK'
  <2>1. pc' \in [Proc -> PC]
    BY <1>1 DEF PipeInv, TypeOK, PC
  <2>3. left' \in [Proc -> 0 .. MaxCall]
    <3>1. CASE left' = [left EXCEPT ![p] = 0]
      BY <3>1, Sizes, SMT DEF PipeInv, TypeOK
    <3>2. CASE UNCHANGED left
      BY <3>2 DEF PipeInv, TypeOK
    <3> QED  BY <1>1, <3>1, <3>2
  <2>2. /\ lock' \in Proc \cup {Free}
        /\ result' \in [Proc -> Seq(Byte) \cup {None, Error}]
    BY <1>1 DEF PipeInv, TypeOK
  <2> QED  BY <1>1, <2>1, <2>2, <2>3 DEF PipeInv, TypeOK, pipevars
<1>3. CallInv'
  BY <1>1, Sizes, SMT DEF PipeInv, TypeOK, CallInv, Reading, Writing
<1>4. EndsInv'
  BY <1>1, EndsFrame DEF PipeInv, TypeOK, pipevars
<1> QED  BY <1>2, <1>3, <1>4 DEF PipeInv

\* A read takes what it asked for, or all there is.
LEMMA Taken ==
    ASSUME TypeOK, NEW p \in Proc, NEW n,
           n = IF (nwrite - nread) % WIDTH < left[p]
               THEN (nwrite - nread) % WIDTH ELSE left[p],
           nread' = (nread + n) % WIDTH, UNCHANGED nwrite
    PROVE  /\ n \in 0 .. (nwrite - nread) % WIDTH /\ n \in 0 .. WIDTH - 1
           /\ nread' \in 0 .. WIDTH - 1
           /\ (nwrite' - nread') % WIDTH = ((nwrite - nread) % WIDTH) - n
<1>1. /\ nread \in 0 .. WIDTH - 1 /\ nwrite \in 0 .. WIDTH - 1
      /\ left[p] \in 0 .. MaxCall
  BY DEF TypeOK
<1>2. /\ (nwrite - nread) % WIDTH =
            IF nwrite >= nread THEN nwrite - nread ELSE (nwrite - nread) + WIDTH
      /\ (nwrite - nread) % WIDTH \in 0 .. WIDTH - 1
  BY <1>1, Sizes, Difference
<1>3. n \in 0 .. (nwrite - nread) % WIDTH /\ n \in 0 .. WIDTH - 1
  BY <1>1, <1>2, Sizes, SMT
<1>4. /\ (nread + n) % WIDTH =
            IF nread + n < WIDTH THEN nread + n ELSE (nread + n) - WIDTH
      /\ (nread + n) % WIDTH \in 0 .. WIDTH - 1
  BY <1>1, <1>3, Sizes, Advance
<1>5. nread' \in 0 .. WIDTH - 1 /\ nwrite' \in 0 .. WIDTH - 1
  BY <1>1, <1>4
<1>6. (nwrite' - nread') % WIDTH = ((nwrite - nread) % WIDTH) - n
  <2>1. WIDTH \in Nat
    BY Sizes
  <2>2. (nwrite - ((nread + n) % WIDTH)) % WIDTH
           = ((nwrite - nread) % WIDTH) - n
    BY <1>1, <1>3, <2>1, Consume, Zenon
  <2> QED  BY <2>2, Zenon
<1> QED  BY <1>3, <1>5, <1>6

\* A write into a pipe that is not full adds one byte.
LEMMA Added ==
    ASSUME TypeOK, ~Full, nwrite' = (nwrite + 1) % WIDTH, UNCHANGED nread
    PROVE  /\ nwrite' \in 0 .. WIDTH - 1
           /\ (nwrite' - nread') % WIDTH = ((nwrite - nread) % WIDTH) + 1
           /\ (nwrite' - nread') % WIDTH <= PIPESIZE
<1>1. nread \in 0 .. WIDTH - 1 /\ nwrite \in 0 .. WIDTH - 1 /\ WIDTH \in Nat
  BY Sizes DEF TypeOK
<1>2. PICK d \in 0 .. WIDTH - 1 :
         /\ d = (nwrite - nread) % WIDTH
         /\ d = IF nwrite >= nread THEN nwrite - nread
                                   ELSE (nwrite - nread) + WIDTH
  BY <1>1, Difference
<1>3. PICK z \in 0 .. WIDTH - 1 :
         /\ z = (nread + PIPESIZE) % WIDTH
         /\ z = IF nread + PIPESIZE < WIDTH THEN nread + PIPESIZE
                                            ELSE (nread + PIPESIZE) - WIDTH
  <2>1. PIPESIZE \in 0 .. WIDTH - 1
    BY Sizes, SMT
  <2> QED  BY <1>1, <2>1, Advance
<1>4. d < PIPESIZE
  <2>1. d <= PIPESIZE /\ nwrite # z
    BY <1>2, <1>3 DEF TypeOK, Full
  <2>2. d = IF nwrite >= nread THEN nwrite - nread
                               ELSE (nwrite - nread) + WIDTH
    BY <1>2
  <2>3. z = IF nread + PIPESIZE < WIDTH THEN nread + PIPESIZE
                                        ELSE (nread + PIPESIZE) - WIDTH
    BY <1>3
  <2> QED  BY <1>1, <2>1, <2>2, <2>3, Sizes, SMT
<1>5. (nwrite - nread) % WIDTH < WIDTH - 1
  BY <1>2, <1>4, Sizes, SMT
<1>6. /\ (nwrite + 1) % WIDTH \in 0 .. WIDTH - 1
      /\ (((nwrite + 1) % WIDTH) - nread) % WIDTH
           = ((nwrite - nread) % WIDTH) + 1
  BY <1>1, <1>5, Produce
<1>7. /\ nwrite' \in 0 .. WIDTH - 1
      /\ (nwrite' - nread') % WIDTH = ((nwrite - nread) % WIDTH) + 1
  BY <1>6, Zenon
<1>8. d + 1 <= PIPESIZE
  BY <1>4, Sizes, SMT
<1> QED  BY <1>2, <1>7, <1>8, Zenon

\* p->data[(nread + i - 1) % PIPESIZE] is a byte of the buffer.
LEMMA ByteAt ==
    ASSUME TypeOK, NEW k \in Nat
    PROVE  /\ (k % WIDTH) % PIPESIZE \in 0 .. PIPESIZE - 1
           /\ data[(k % WIDTH) % PIPESIZE] \in Byte
<1>1. k % WIDTH \in Nat
  BY Sizes, SMT
<1>2. (k % WIDTH) % PIPESIZE \in 0 .. PIPESIZE - 1
  BY <1>1, Sizes, SMT
<1> QED  BY <1>2 DEF TypeOK

LEMMA BytesRead ==
    ASSUME TypeOK, NEW n \in Nat
    PROVE  [i \in 1 .. n |-> ReadByte(i)] \in Seq(Byte)
<1>1. ASSUME NEW i \in 1 .. n
      PROVE  ReadByte(i) \in Byte
  <2>1. nread + i - 1 \in Nat
    BY Sizes, SMT DEF TypeOK
  <2> QED  BY <2>1, ByteAt DEF ReadByte
<1> HIDE DEF ReadByte
<1> QED  BY <1>1

LEMMA ReadCopyPipe ==
    ASSUME PipeInv, NEW p \in Proc, ReadCopy(p)
    PROVE  PipeInv'
<1> DEFINE n == IF (nwrite - nread) % WIDTH < left[p]
                THEN (nwrite - nread) % WIDTH ELSE left[p]
           f == [pc EXCEPT ![p] = "user"]
<1>1. /\ pc[p] = "read" /\ nread' = (nread + n) % WIDTH
      /\ left' = [left EXCEPT ![p] = 0] /\ lock' = Free
      /\ pc' = WakeWriters(f)
      /\ result' = [result EXCEPT ![p] = [i \in 1 .. n |-> ReadByte(i)]]
      /\ UNCHANGED <<data, nwrite, readopen, writeopen, freed, ref, killed>>
  BY DEF ReadCopy, Return
<1>2. /\ f \in [Proc -> PC]
      /\ \A q \in Proc : f[q] = IF q = p THEN "user" ELSE pc[q]
  BY DEF PipeInv, TypeOK, PC
<1>3. /\ pc' \in [Proc -> PC]
      /\ \A q \in Proc : pc'[q] = IF q = p THEN "user"
                                  ELSE IF pc[q] = "wasleep" THEN "write"
                                  ELSE pc[q]
  BY <1>1, <1>2, WakeWritersAt
<1>4. /\ nread' \in 0 .. WIDTH - 1
      /\ (nwrite' - nread') % WIDTH = ((nwrite - nread) % WIDTH) - n
      /\ n \in 0 .. WIDTH - 1
  BY <1>1, Taken DEF PipeInv
<1> HIDE DEF n, f
<1>5. (nwrite' - nread') % WIDTH <= PIPESIZE
  <2>1. (nwrite - nread) % WIDTH <= PIPESIZE
        /\ (nwrite - nread) % WIDTH \in 0 .. WIDTH - 1
    BY Sizes, Difference DEF PipeInv, TypeOK
  <2> QED  BY <1>4, <2>1, Sizes, SMT
<1>6. TypeOK'
  <2>1. left' \in [Proc -> 0 .. MaxCall]
    BY <1>1, Sizes, SMT DEF PipeInv, TypeOK
  <2>2. [i \in 1 .. n |-> ReadByte(i)] \in Seq(Byte)
    BY <1>4, BytesRead DEF PipeInv
  <2>3. result' \in [Proc -> Seq(Byte) \cup {None, Error}]
    BY <1>1, <2>2 DEF PipeInv, TypeOK
  <2> QED  BY <1>1, <1>3, <1>4, <1>5, <2>1, <2>3 DEF PipeInv, TypeOK
<1>7. CallInv'
  BY <1>1, <1>3, Sizes, SMT DEF PipeInv, TypeOK, CallInv, Reading, Writing
<1>8. EndsInv'
  BY <1>1, <1>3, EndsFrame DEF PipeInv, TypeOK
<1> QED  BY <1>6, <1>7, <1>8 DEF PipeInv

LEMMA WriteFullPipe ==
    ASSUME PipeInv, NEW p \in Proc, WriteFull(p)
    PROVE  PipeInv'
<1> DEFINE f == [pc EXCEPT ![p] = "wsleep"]
<1>1. /\ pc[p] = "write"
      /\ \/ /\ pc' = [pc EXCEPT ![p] = "user"]
            /\ left' = [left EXCEPT ![p] = 0] /\ lock' = Free
            /\ result' = [result EXCEPT ![p] = Error]
         \/ /\ pc' = WakeReaders(f)
            /\ UNCHANGED <<left, result>> /\ lock' = p
      /\ UNCHANGED <<pipevars, freed, ref, killed>>
  BY DEF WriteFull, Return
<1>2. /\ f \in [Proc -> PC]
      /\ \A q \in Proc : f[q] = IF q = p THEN "wsleep" ELSE pc[q]
  BY DEF PipeInv, TypeOK, PC
<1>3. /\ pc' \in [Proc -> PC]
      /\ \A q \in Proc :
            /\ q = p => pc'[q] \in {"user", "wsleep"}
            /\ pc'[p] = "user" => left'[p] = 0
            /\ q # p => \/ pc'[q] = pc[q]
                        \/ pc[q] = "rasleep" /\ pc'[q] = "read"
  <2>1. CASE pc' = [pc EXCEPT ![p] = "user"] /\ left' = [left EXCEPT ![p] = 0]
    BY <2>1 DEF PipeInv, TypeOK, PC
  <2>2. CASE pc' = WakeReaders(f)
    BY <2>2, <1>2, WakeReadersAt
  <2> QED  BY <1>1, <2>1, <2>2
<1>4. left' \in [Proc -> 0 .. MaxCall]
      /\ \A q \in Proc : left'[q] = left[q] \/ (q = p /\ pc'[q] = "user")
  <2>1. CASE pc' = [pc EXCEPT ![p] = "user"] /\ left' = [left EXCEPT ![p] = 0]
    <3>1. pc'[p] = "user"
      BY <2>1 DEF PipeInv, TypeOK
    <3> QED  BY <2>1, <3>1, Sizes, SMT DEF PipeInv, TypeOK
  <2>2. CASE UNCHANGED left
    BY <2>2 DEF PipeInv, TypeOK
  <2> QED  BY <1>1, <2>1, <2>2
<1>5. /\ lock' \in Proc \cup {Free}
      /\ result' \in [Proc -> Seq(Byte) \cup {None, Error}]
  BY <1>1 DEF PipeInv, TypeOK
<1> HIDE DEF f
<1>6. TypeOK'
  BY <1>1, <1>3, <1>4, <1>5 DEF PipeInv, TypeOK, pipevars
<1>7. CallInv'
  BY <1>1, <1>3, <1>4 DEF PipeInv, TypeOK, CallInv, Reading, Writing
<1>8. EndsInv'
  BY <1>1, <1>3, EndsFrame DEF PipeInv, TypeOK, pipevars
<1> QED  BY <1>6, <1>7, <1>8 DEF PipeInv

LEMMA WriteBytePipe ==
    ASSUME PipeInv, NEW p \in Proc, WriteByte(p)
    PROVE  PipeInv'
<1> DEFINE f == [pc EXCEPT ![p] = "user"]
<1>1. /\ pc[p] = "write" /\ ~Full /\ nwrite' = (nwrite + 1) % WIDTH
      /\ \E b \in Byte : data' = [data EXCEPT ![nwrite % PIPESIZE] = b]
      /\ \/ /\ left' = [left EXCEPT ![p] = 0] /\ lock' = Free
            /\ pc' = WakeReaders(f) /\ result' = [result EXCEPT ![p] = <<>>]
         \/ /\ left[p] # 1 /\ left' = [left EXCEPT ![p] = @ - 1]
            /\ UNCHANGED <<pc, result>> /\ lock' = p
      /\ UNCHANGED <<nread, readopen, writeopen, freed, ref, killed>>
  BY DEF WriteByte, Return
<1>2. /\ f \in [Proc -> PC]
      /\ \A q \in Proc : f[q] = IF q = p THEN "user" ELSE pc[q]
  BY DEF PipeInv, TypeOK, PC
<1>3. left[p] \in 1 .. MaxCall
  BY <1>1, Sizes, SMT DEF PipeInv, TypeOK, CallInv, Writing
<1>4. /\ pc' \in [Proc -> PC]
      /\ \A q \in Proc :
            /\ q = p => pc'[q] \in {"user", "write"}
            /\ q # p => \/ pc'[q] = pc[q]
                        \/ pc[q] = "rasleep" /\ pc'[q] = "read"
  <2>1. CASE pc' = WakeReaders(f)
    BY <2>1, <1>2, WakeReadersAt
  <2>2. CASE UNCHANGED pc
    BY <2>2, <1>1 DEF PipeInv, TypeOK
  <2> QED  BY <1>1, <2>1, <2>2
<1>5. /\ left' \in [Proc -> 0 .. MaxCall]
      /\ \A q \in Proc : q # p => left'[q] = left[q]
      /\ pc'[p] = "user" \/ left'[p] >= 1
  <2>1. CASE left' = [left EXCEPT ![p] = 0] /\ pc' = WakeReaders(f)
    <3>1. pc'[p] = "user"
      BY <2>1, <1>2, WakeReadersAt
    <3> QED  BY <2>1, <3>1, Sizes, SMT DEF PipeInv, TypeOK
  <2>2. CASE left[p] # 1 /\ left' = [left EXCEPT ![p] = @ - 1]
    BY <2>2, <1>3, Sizes, SMT DEF PipeInv, TypeOK
  <2> QED  BY <1>1, <2>1, <2>2
<1>6. /\ lock' \in Proc \cup {Free}
      /\ result' \in [Proc -> Seq(Byte) \cup {None, Error}]
  <2>1. <<>> \in Seq(Byte)
    OBVIOUS
  <2> QED  BY <1>1, <2>1 DEF PipeInv, TypeOK
<1> HIDE DEF f
<1>7. /\ nwrite' \in 0 .. WIDTH - 1
      /\ (nwrite' - nread') % WIDTH <= PIPESIZE
  BY <1>1, Added DEF PipeInv
<1>8. data' \in [0 .. PIPESIZE - 1 -> Byte]
  BY <1>1 DEF PipeInv, TypeOK
<1>9. TypeOK'
  BY <1>1, <1>4, <1>5, <1>6, <1>7, <1>8 DEF PipeInv, TypeOK
<1>10. CallInv'
  BY <1>1, <1>4, <1>5 DEF PipeInv, TypeOK, CallInv, Reading, Writing
<1>11. EndsInv'
  BY <1>1, <1>4, EndsFrame DEF PipeInv, TypeOK
<1> QED  BY <1>9, <1>10, <1>11 DEF PipeInv

LEMMA SleepPipe ==
    ASSUME PipeInv, NEW p \in Proc, sleep(p)
    PROVE  PipeInv'
<1>1. /\ lock' = Free
      /\ \/ pc[p] = "rsleep" /\ pc' = [pc EXCEPT ![p] = "rasleep"]
         \/ pc[p] = "wsleep" /\ pc' = [pc EXCEPT ![p] = "wasleep"]
      /\ UNCHANGED <<pipevars, freed, ref, left, killed, result>>
  BY DEF sleep
<1>2. TypeOK'
  BY <1>1 DEF PipeInv, TypeOK, PC, pipevars
<1>3. CallInv'
  BY <1>1 DEF PipeInv, TypeOK, CallInv, Reading, Writing
<1>4. EndsInv'
  BY <1>1, EndsFrame DEF PipeInv, TypeOK, pipevars
<1> QED  BY <1>2, <1>3, <1>4 DEF PipeInv

LEMMA CopyFaultsPipe ==
    ASSUME PipeInv, NEW p \in Proc, CopyFaults(p)
    PROVE  PipeInv'
<1>1. /\ lock' = p
      /\ pc[p] \in {"read", "write"} /\ pc' = [pc EXCEPT ![p] = "panic"]
      /\ UNCHANGED <<pipevars, freed, ref, left, killed, result>>
  BY DEF CopyFaults
<1>2. TypeOK'
  BY <1>1 DEF PipeInv, TypeOK, PC, pipevars
<1>3. CallInv'
  BY <1>1 DEF PipeInv, TypeOK, CallInv, Reading, Writing
<1>4. EndsInv'
  BY <1>1, EndsFrame DEF PipeInv, TypeOK, pipevars
<1> QED  BY <1>2, <1>3, <1>4 DEF PipeInv

LEMMA ExitPipe ==
    ASSUME PipeInv, NEW p \in Proc, exit(p)
    PROVE  PipeInv'
<1>1. /\ pc[p] = "user" /\ pc' = [pc EXCEPT ![p] = "dead"]
      /\ UNCHANGED <<pipevars, lock, freed, ref, left, killed, result>>
  BY DEF exit
<1>2. TypeOK'
  BY <1>1 DEF PipeInv, TypeOK, PC, pipevars
<1>3. CallInv'
  BY <1>1 DEF PipeInv, TypeOK, CallInv, Reading, Writing
<1>4. EndsInv'
  BY <1>1, EndsFrame DEF PipeInv, TypeOK, pipevars
<1> QED  BY <1>2, <1>3, <1>4 DEF PipeInv

LEMMA KillPipe ==
    ASSUME PipeInv, NEW p \in Proc, kill(p)
    PROVE  PipeInv'
<1>1. /\ killed' = [killed EXCEPT ![p] = TRUE]
      /\ \/ pc[p] = "rasleep" /\ pc' = [pc EXCEPT ![p] = "read"]
         \/ pc[p] = "wasleep" /\ pc' = [pc EXCEPT ![p] = "write"]
         \/ pc' = [pc EXCEPT ![p] = pc[p]]
      /\ UNCHANGED <<pipevars, lock, freed, ref, left, result>>
  BY DEF kill
<1>2. TypeOK'
  BY <1>1 DEF PipeInv, TypeOK, PC, pipevars
<1>3. CallInv'
  BY <1>1 DEF PipeInv, TypeOK, CallInv, Reading, Writing
<1>4. EndsInv'
  BY <1>1, EndsFrame DEF PipeInv, TypeOK, pipevars
<1> QED  BY <1>2, <1>3, <1>4 DEF PipeInv

LEMMA ForkPipe ==
    ASSUME PipeInv, NEW p \in Proc, NEW c \in Proc, fork(p, c)
    PROVE  PipeInv'
<1>1. /\ pc[p] = "user" /\ pc[c] = "user"
      /\ ref' = [e \in Ends |-> IF p \in ref[e] THEN ref[e] \cup {c}
                                               ELSE ref[e]]
      /\ UNCHANGED <<pipevars, lock, freed, pc, left, killed, result>>
  BY DEF fork
<1>2. \A e \in Ends : /\ ref[e] \subseteq ref'[e] /\ ref'[e] \subseteq Proc
                      /\ (ref'[e] = {}) = (ref[e] = {})
  BY <1>1 DEF PipeInv, TypeOK
<1>3. "read" \in Ends /\ "write" \in Ends
  BY DEF Ends
<1>4. TypeOK'
  BY <1>1, <1>2 DEF PipeInv, TypeOK, pipevars
<1>5. CallInv'
  BY <1>1, <1>2, <1>3 DEF PipeInv, CallInv, Reading, Writing
<1>6. EndsInv'
  BY <1>1, <1>2, <1>3 DEF PipeInv, EndsInv, ClosedBy, pipevars
<1> QED  BY <1>4, <1>5, <1>6 DEF PipeInv

\* The last reference that goes leaves one process on its way to pipeclose().
LEMMA FileclosePipe ==
    ASSUME PipeInv, NEW p \in Proc, NEW e \in Ends, fileclose(p, e)
    PROVE  PipeInv'
<1> DEFINE l == IF e = "read" THEN "rclose" ELSE "wclose"
<1>1. /\ pc[p] = "user" /\ p \in ref[e]
      /\ ref' = [ref EXCEPT ![e] = @ \ {p}]
      /\ pc' = [pc EXCEPT ![p] = IF ref[e] # {p} THEN "user" ELSE l]
      /\ UNCHANGED <<pipevars, lock, freed, left, killed, result>>
  BY DEF fileclose
<1>2. e \in {"read", "write"} /\ "read" \in Ends /\ "write" \in Ends
  BY DEF Ends
<1>3. TypeOK'
  <2>1. ref' \in [Ends -> SUBSET Proc] /\ pc' \in [Proc -> PC]
    BY <1>1 DEF PipeInv, TypeOK, PC
  <2> QED  BY <1>1, <2>1 DEF PipeInv, TypeOK, pipevars
<1>4. /\ \A q \in Proc : q # p => pc'[q] = pc[q]
      /\ pc'[p] = IF ref[e] # {p} THEN "user" ELSE l
      /\ \A d \in Ends : ref'[d] = IF d = e THEN ref[e] \ {p} ELSE ref[d]
  BY <1>1 DEF PipeInv, TypeOK
<1>5. CallInv'
  BY <1>1, <1>2, <1>4 DEF PipeInv, CallInv, Reading, Writing
<1>6. EndsInv'
  <2>1. ref'[e] = {} <=> ref[e] = {p}
    BY <1>1, <1>4
  <2>2. /\ readopen' = readopen /\ writeopen' = writeopen /\ freed' = freed
    BY <1>1 DEF pipevars
  <2>3. CASE e = "read"
    <3>1. /\ \A q \in Proc : (pc'[q] = "wclose") = (pc[q] = "wclose")
          /\ \A q \in Proc : q # p => (pc'[q] = "rclose") = (pc[q] = "rclose")
          /\ pc'[p] = "rclose" <=> ref[e] = {p}
          /\ ref'["write"] = ref["write"]
      BY <1>1, <1>2, <1>4, <2>3
    <3>2. ClosedBy("read", "rclose", readopen)'
      BY <1>1, <2>1, <2>2, <2>3, <3>1 DEF PipeInv, EndsInv, ClosedBy
    <3>3. ClosedBy("write", "wclose", writeopen)'
      BY <2>2, <3>1 DEF PipeInv, EndsInv, ClosedBy
    <3> QED  BY <2>2, <3>2, <3>3 DEF PipeInv, EndsInv
  <2>4. CASE e = "write"
    <3>1. /\ \A q \in Proc : (pc'[q] = "rclose") = (pc[q] = "rclose")
          /\ \A q \in Proc : q # p => (pc'[q] = "wclose") = (pc[q] = "wclose")
          /\ pc'[p] = "wclose" <=> ref[e] = {p}
          /\ ref'["read"] = ref["read"]
      BY <1>1, <1>2, <1>4, <2>4
    <3>2. ClosedBy("write", "wclose", writeopen)'
      BY <1>1, <2>1, <2>2, <2>4, <3>1 DEF PipeInv, EndsInv, ClosedBy
    <3>3. ClosedBy("read", "rclose", readopen)'
      BY <2>2, <3>1 DEF PipeInv, EndsInv, ClosedBy
    <3> QED  BY <2>2, <3>2, <3>3 DEF PipeInv, EndsInv
  <2> QED  BY <1>2, <2>3, <2>4
<1> QED  BY <1>3, <1>5, <1>6 DEF PipeInv

LEMMA PipeclosePipe ==
    ASSUME PipeInv, NEW p \in Proc, pipeclose(p)
    PROVE  PipeInv'
<1> DEFINE f == [pc EXCEPT ![p] = "user"]
<1>1. /\ f \in [Proc -> PC]
      /\ \A q \in Proc : f[q] = IF q = p THEN "user" ELSE pc[q]
  BY DEF PipeInv, TypeOK, PC
<1>2. UNCHANGED <<data, nread, nwrite, lock, ref, left, killed, result>>
  BY DEF pipeclose
<1>3. pc[p] \in {"rclose", "wclose"}
  BY DEF pipeclose
<1>4. CASE pc[p] = "rclose"
  <2>1. /\ readopen' = FALSE /\ UNCHANGED writeopen /\ pc' = WakeWriters(f)
        /\ freed' = IF ~writeopen THEN freed + 1 ELSE freed
    BY <1>4 DEF pipeclose, LastEnd
  <2>2. /\ pc' \in [Proc -> PC]
        /\ \A q \in Proc : pc'[q] = IF q = p THEN "user"
                                    ELSE IF pc[q] = "wasleep" THEN "write"
                                    ELSE pc[q]
    BY <1>1, <2>1, WakeWritersAt
  <2>3. readopen /\ freed = 0
    BY <1>4 DEF PipeInv, EndsInv, ClosedBy
  <2> HIDE DEF f
  <2>4. TypeOK'
    <3>1. freed' \in 0 .. 1
      BY <2>1, <2>3
    <3>2. readopen' \in BOOLEAN /\ writeopen' \in BOOLEAN
      BY <2>1 DEF PipeInv, TypeOK
    <3> QED  BY <1>2, <2>2, <3>1, <3>2 DEF PipeInv, TypeOK
  <2>5. CallInv'
    BY <1>2, <2>2 DEF PipeInv, CallInv, Reading, Writing
  <2>6. ClosedBy("read", "rclose", readopen)'
    BY <1>2, <1>4, <2>1, <2>2 DEF PipeInv, EndsInv, ClosedBy
  <2>7. ClosedBy("write", "wclose", writeopen)'
    BY <1>2, <1>4, <2>1, <2>2 DEF PipeInv, EndsInv, ClosedBy
  <2> QED  BY <2>1, <2>3, <2>4, <2>5, <2>6, <2>7 DEF PipeInv, EndsInv
<1>5. CASE pc[p] = "wclose"
  <2>1. /\ writeopen' = FALSE /\ UNCHANGED readopen /\ pc' = WakeReaders(f)
        /\ freed' = IF ~readopen THEN freed + 1 ELSE freed
    BY <1>5 DEF pipeclose, LastEnd
  <2>2. /\ pc' \in [Proc -> PC]
        /\ \A q \in Proc : pc'[q] = IF q = p THEN "user"
                                    ELSE IF pc[q] = "rasleep" THEN "read"
                                    ELSE pc[q]
    BY <1>1, <2>1, WakeReadersAt
  <2>3. writeopen /\ freed = 0
    BY <1>5 DEF PipeInv, EndsInv, ClosedBy
  <2> HIDE DEF f
  <2>4. TypeOK'
    <3>1. freed' \in 0 .. 1
      BY <2>1, <2>3
    <3>2. readopen' \in BOOLEAN /\ writeopen' \in BOOLEAN
      BY <2>1 DEF PipeInv, TypeOK
    <3> QED  BY <1>2, <2>2, <3>1, <3>2 DEF PipeInv, TypeOK
  <2>5. CallInv'
    BY <1>2, <2>2 DEF PipeInv, CallInv, Reading, Writing
  <2>6. ClosedBy("read", "rclose", readopen)'
    BY <1>2, <1>5, <2>1, <2>2 DEF PipeInv, EndsInv, ClosedBy
  <2>7. ClosedBy("write", "wclose", writeopen)'
    BY <1>2, <1>5, <2>1, <2>2 DEF PipeInv, EndsInv, ClosedBy
  <2> QED  BY <2>1, <2>3, <2>4, <2>5, <2>6, <2>7 DEF PipeInv, EndsInv
<1> QED  BY <1>3, <1>4, <1>5

LEMMA StutterPipe == PipeInv /\ UNCHANGED vars => PipeInv'
  BY DEF PipeInv, TypeOK, CallInv, Reading, Writing, EndsInv, ClosedBy,
         vars, pipevars

\* What Next has for a process, call by call.
LEMMA NextCases ==
    ASSUME NEW p \in Proc, Kernel(p) \/ User(p) \/ kill(p) \/ CopyFaults(p)
    PROVE  \/ \E n \in 1 .. MaxCall, e \in Ends : Begin(p, e, n)
           \/ ReadEmpty(p) \/ ReadCopy(p) \/ WriteFull(p) \/ WriteByte(p)
           \/ sleep(p) \/ CopyFaults(p)
           \/ \E e \in Ends : fileclose(p, e)
           \/ pipeclose(p) \/ exit(p) \/ kill(p)
           \/ \E c \in Proc : fork(p, c)
  BY DEF Kernel, User

LEMMA NextPipe ==
    ASSUME PipeInv, [Next]_vars
    PROVE  PipeInv'
<1>1. CASE Next
  <2>1. PICK p \in Proc : Kernel(p) \/ User(p) \/ kill(p) \/ CopyFaults(p)
    BY <1>1 DEF Next
  <2> QED  BY <2>1, NextCases, BeginPipe, ReadEmptyPipe, ReadCopyPipe,
              WriteFullPipe, WriteBytePipe, SleepPipe, CopyFaultsPipe,
              FileclosePipe, PipeclosePipe, ExitPipe, KillPipe, ForkPipe
<1>2. CASE UNCHANGED vars
  BY <1>2, StutterPipe
<1> QED  BY <1>1, <1>2

\* In every state a process inside read() or write() has its end open, and an
\* end is open as long as somebody refers to it or is about to close it.
THEOREM Invariant == Spec => []PipeInv
<1>1. Init => PipeInv
  BY InitPipe
<1>2. PipeInv /\ [Next]_vars => PipeInv'
  BY NextPipe
<1> QED  BY <1>1, <1>2, PTL DEF Spec

-----------------------------------------------------------------------------
(* What the invariant says of the pipe's end.                              *)

\* pipeclose() gives the pipe's page to kfree() once, and when no process is
\* inside a call on the pipe or still refers to one of its ends.
THEOREM FreedTheorem == Spec => []FreedOnce
<1>1. PipeInv => FreedOnce
  <2> SUFFICES ASSUME PipeInv PROVE FreedOnce
    OBVIOUS
  <2>1. /\ readopen \in BOOLEAN /\ writeopen \in BOOLEAN
        /\ freed = IF readopen \/ writeopen THEN 0 ELSE 1
    BY DEF PipeInv, TypeOK, EndsInv
  <2>2. ASSUME freed > 0, NEW p \in Proc
        PROVE  pc[p] \in {"user", "dead"} /\ \A e \in Ends : p \notin ref[e]
    <3>1. ~readopen /\ ~writeopen
      BY <2>1, <2>2
    <3>2. /\ ref["read"] = {} /\ ref["write"] = {}
          /\ pc[p] \notin {"rclose", "wclose"}
      BY <2>2, <3>1 DEF PipeInv, EndsInv, ClosedBy
    <3>3. pc[p] \notin Reading \cup Writing \cup {"panic"}
      BY <2>2, <3>2 DEF PipeInv, CallInv
    <3>4. pc[p] \in PC
      BY <2>2 DEF PipeInv, TypeOK
    <3> QED  BY <3>2, <3>3, <3>4 DEF PC, Reading, Writing, Ends
  <2>3. (readopen = FALSE /\ writeopen = FALSE) = (freed = 1)
    BY <2>1
  <2> QED  BY <2>2, <2>3 DEF FreedOnce
<1> QED  BY <1>1, Invariant, PTL

\* A process leaves read() in a step of its own.
LEMMA ReaderReturns ==
    ASSUME PipeInv, Next, NEW p \in Proc, pc[p] = "read", pc'[p] = "user"
    PROVE  ReadEmpty(p) \/ ReadCopy(p)
<1>1. PICK r \in Proc : Kernel(r) \/ User(r) \/ kill(r) \/ CopyFaults(r)
  BY DEF Next
<1>2. pc \in [Proc -> PC]
  BY DEF PipeInv, TypeOK
<1>3. \A e \in Ends : e \in {"read", "write"}
  BY DEF Ends
<1>4. ~\E n \in 1 .. MaxCall, e \in Ends : Begin(r, e, n)
  BY <1>2, <1>3 DEF Begin
<1>5. ~\E e \in Ends : fileclose(r, e)
  BY <1>2 DEF fileclose
<1>6. ~\E c \in Proc : fork(r, c)
  BY <1>2 DEF fork
<1>7. ~sleep(r) /\ ~CopyFaults(r) /\ ~exit(r) /\ ~kill(r)
  BY <1>2 DEF sleep, CopyFaults, exit, kill
<1>8. ASSUME NEW f, f = [pc EXCEPT ![r] = "user"]
      PROVE  /\ pc' = WakeReaders(f) => r = p
             /\ pc' = WakeWriters(f) => r = p
             /\ pc' = f => r = p
  BY <1>2, <1>8 DEF WakeReaders, WakeWriters
<1>9. ASSUME NEW l \in PC, l # "user"
      PROVE  pc' # WakeReaders([pc EXCEPT ![r] = l])
  BY <1>2, <1>9 DEF WakeReaders
<1>10. pc' # pc
  OBVIOUS
<1>11. ~WriteFull(r) /\ ~WriteByte(r) /\ ~pipeclose(r)
  BY <1>8, <1>9, <1>10 DEF WriteFull, WriteByte, pipeclose, PC
<1>12. ReadEmpty(r) \/ ReadCopy(r)
  BY <1>1, <1>4, <1>5, <1>6, <1>7, <1>11, NextCases
<1>13. r = p
  <2>1. CASE ReadEmpty(r)
    BY <2>1, <1>2 DEF ReadEmpty
  <2>2. CASE ReadCopy(r)
    BY <2>2, <1>8 DEF ReadCopy
  <2> QED  BY <1>12, <2>1, <2>2
<1> QED  BY <1>12, <1>13

LEMMA NoBytes ==
    ASSUME NEW n \in Nat, NEW f, f = [i \in 1 .. n |-> ReadByte(i)], f = <<>>
    PROVE  n = 0
<1> HIDE DEF ReadByte
<1>1. DOMAIN f = 1 .. n
  OBVIOUS
<1>2. DOMAIN f = {}
  OBVIOUS
<1> QED  BY <1>1, <1>2, SMT

\* piperead() returns no bytes only when p->writeopen has been cleared, which
\* the last fileclose() of the writing end does.
THEOREM EofTheorem == Spec => EofMeansNoWriter
<1>1. ASSUME PipeInv, Next, NEW p \in Proc,
             pc[p] = "read", pc'[p] = "user", result'[p] = <<>>
      PROVE  ref["write"] = {}
  <2> DEFINE n == IF (nwrite - nread) % WIDTH < left[p]
                  THEN (nwrite - nread) % WIDTH ELSE left[p]
  <2>1. result \in [Proc -> Seq(Byte) \cup {None, Error}]
        /\ left[p] \in Nat /\ left[p] >= 1
    BY <1>1 DEF PipeInv, TypeOK, CallInv, Reading
  <2>2. ~ReadEmpty(p)
    <3> SUFFICES ASSUME ReadEmpty(p) PROVE FALSE
      OBVIOUS
    <3>1. result' = [result EXCEPT ![p] = Error]
      BY <1>1 DEF ReadEmpty, Return, PipeInv, TypeOK
    <3>2. result'[p] = Error
      BY <2>1, <3>1
    <3> QED  BY <1>1, <3>2 DEF Error
  <2>3. ReadCopy(p)
    BY <1>1, <2>2, ReaderReturns
  <2>4. /\ result' = [result EXCEPT ![p] = [i \in 1 .. n |-> ReadByte(i)]]
        /\ ~Empty \/ ~writeopen
    BY <2>3 DEF ReadCopy, Return
  <2>5. result'[p] = [i \in 1 .. n |-> ReadByte(i)]
    BY <2>1, <2>4
  <2>6. /\ nread \in 0 .. WIDTH - 1 /\ nwrite \in 0 .. WIDTH - 1
        /\ WIDTH \in Nat
    BY <1>1, Sizes DEF PipeInv, TypeOK
  <2>7. PICK d \in Nat :
           /\ d = (nwrite - nread) % WIDTH
           /\ d = IF nwrite >= nread THEN nwrite - nread
                                     ELSE (nwrite - nread) + WIDTH
    BY <2>6, Difference, SMT
  <2>8. n = IF d < left[p] THEN d ELSE left[p]
    BY <2>7
  <2>9. n \in Nat
    BY <2>1, <2>8
  <2> HIDE DEF n
  <2>10. n = 0
    BY <1>1, <2>5, <2>9, NoBytes
  <2>11. d = 0
    BY <2>1, <2>8, <2>10, SMT
  <2>12. Empty
    BY <2>6, <2>7, <2>11, SMT DEF Empty
  <2>13. ~writeopen
    BY <2>4, <2>12
  <2> QED  BY <1>1, <2>13 DEF PipeInv, EndsInv, ClosedBy
<1>2. PipeInv /\ [Next]_vars =>
        [\A p \in Proc :
          pc[p] = "read" /\ pc'[p] = "user" /\ result'[p] = <<>> =>
             ref["write"] = {}]_vars
  BY <1>1
<1> QED  BY <1>2, Invariant, PTL DEF Spec, EofMeansNoWriter

-----------------------------------------------------------------------------
(* Sleepers.  The lock, and what is left to do for those who sleep, unless *)
(* somebody has been killed.                                               *)

Slept == PipeInv /\ LockInv /\ (NobodyKilled => SleepInv)

LEMMA InitSlept == Init => Slept
  BY InitPipe DEF Init, Slept, LockInv, SleepInv

\* A process that is outside any call starts, ends or leaves something.
LEMMA UserStep ==
    ASSUME Slept, NEW p \in Proc, pc[p] = "user",
           UNCHANGED <<pipevars, lock, killed>>,
           \A q \in Proc : q # p => pc'[q] = pc[q],
           pc'[p] \in {"user", "read", "write", "rclose", "wclose", "dead"}
    PROVE  LockInv' /\ (NobodyKilled' => SleepInv')
<1>1. lock # p
  BY PipeAssumption DEF Slept, LockInv
<1>2. lock \in Proc \cup {Free}
  BY DEF Slept, PipeInv, TypeOK
<1>3. LockInv'
  BY <1>1, <1>2 DEF Slept, LockInv
<1>4. ASSUME NobodyKilled' PROVE SleepInv'
  <2>1. NobodyKilled
    BY <1>4 DEF NobodyKilled
  <2> QED  BY <1>1, <1>2, <2>1 DEF Slept, SleepInv, Empty, Full, pipevars
<1> QED  BY <1>3, <1>4

LEMMA ReadEmptySlept ==
    ASSUME Slept, NEW p \in Proc, ReadEmpty(p)
    PROVE  LockInv' /\ (NobodyKilled' => SleepInv')
<1>1. /\ pc[p] = "read" /\ lock \in {Free, p} /\ Empty /\ writeopen
      /\ \/ killed[p]
         \/ /\ pc' = [pc EXCEPT ![p] = "rsleep"] /\ lock' = p
      /\ \/ /\ lock' = Free /\ pc' = [pc EXCEPT ![p] = "user"]
         \/ /\ pc' = [pc EXCEPT ![p] = "rsleep"] /\ lock' = p
      /\ UNCHANGED <<nread, nwrite, readopen, writeopen, killed>>
  BY DEF ReadEmpty, Return, Locks, pipevars
<1>2. pc \in [Proc -> PC] /\ Free \notin Proc
  BY PipeAssumption DEF Slept, PipeInv, TypeOK
<1>3. lock = Free
  BY <1>1, <1>2 DEF Slept, LockInv
<1>4. LockInv'
  BY <1>1, <1>2, <1>3 DEF Slept, LockInv
<1>5. ASSUME NobodyKilled' PROVE SleepInv'
  <2>1. NobodyKilled
    BY <1>1, <1>5 DEF NobodyKilled
  <2> QED  BY <1>1, <1>2, <1>3, <2>1 DEF Slept, SleepInv, Empty, Full,
              NobodyKilled
<1> QED  BY <1>4, <1>5

LEMMA ReadCopySlept ==
    ASSUME Slept, NEW p \in Proc, ReadCopy(p)
    PROVE  LockInv' /\ (NobodyKilled' => SleepInv')
<1>1. /\ pc[p] = "read" /\ lock \in {Free, p} /\ lock' = Free
      /\ ~Empty \/ ~writeopen
      /\ pc' = WakeWriters([pc EXCEPT ![p] = "user"])
      /\ UNCHANGED <<nwrite, readopen, writeopen, killed>>
  BY DEF ReadCopy, Return, Locks
<1>2. pc \in [Proc -> PC] /\ Free \notin Proc
  BY PipeAssumption DEF Slept, PipeInv, TypeOK
<1>3. lock = Free
  BY <1>1, <1>2 DEF Slept, LockInv
<1>4. \A q \in Proc : pc'[q] = IF q = p THEN "user"
                               ELSE IF pc[q] = "wasleep" THEN "write"
                               ELSE pc[q]
  BY <1>1, <1>2 DEF WakeWriters
<1>5. LockInv'
  BY <1>1, <1>3, <1>4 DEF Slept, LockInv
<1>6. ASSUME NobodyKilled' PROVE SleepInv'
  <2>1. NobodyKilled
    BY <1>1, <1>6 DEF NobodyKilled
  <2>2. \A q \in Proc : pc[q] \notin {"rsleep", "wsleep", "rasleep"}
    BY <1>1, <1>2, <1>3, <2>1 DEF Slept, LockInv, SleepInv
  <2>3. \A q \in Proc :
           pc'[q] \notin {"rsleep", "wsleep", "rasleep", "wasleep"}
    BY <1>4, <2>2
  <2> QED  BY <2>3 DEF SleepInv
<1> QED  BY <1>5, <1>6

LEMMA WriteFullSlept ==
    ASSUME Slept, NEW p \in Proc, WriteFull(p)
    PROVE  LockInv' /\ (NobodyKilled' => SleepInv')
<1>1. /\ pc[p] = "write" /\ lock \in {Free, p} /\ Full
      /\ \/ /\ ~readopen \/ killed[p]
            /\ lock' = Free /\ pc' = [pc EXCEPT ![p] = "user"]
         \/ /\ readopen /\ lock' = p
            /\ pc' = WakeReaders([pc EXCEPT ![p] = "wsleep"])
      /\ UNCHANGED <<nread, nwrite, readopen, writeopen, killed>>
  BY DEF WriteFull, Return, Locks, pipevars
<1>2. /\ pc \in [Proc -> PC] /\ Free \notin Proc
      /\ readopen \in BOOLEAN /\ writeopen \in BOOLEAN
  BY PipeAssumption DEF Slept, PipeInv, TypeOK
<1>3. \A q \in Proc : pc[q] \notin {"rsleep", "wsleep", "panic"}
  BY <1>1, <1>2 DEF Slept, LockInv
<1>4. CASE /\ ~readopen \/ killed[p]
           /\ lock' = Free /\ pc' = [pc EXCEPT ![p] = "user"]
  <2>1. \A q \in Proc : pc'[q] = IF q = p THEN "user" ELSE pc[q]
    BY <1>2, <1>4
  <2>2. LockInv'
    BY <1>3, <1>4, <2>1 DEF LockInv
  <2>3. ASSUME NobodyKilled' PROVE SleepInv'
    <3>1. NobodyKilled /\ ~killed[p]
      BY <1>1, <2>3 DEF NobodyKilled
    <3>2. ~readopen
      BY <1>4, <3>1
    <3>3. \A q \in Proc : pc[q] \notin {"rasleep", "wasleep"}
      BY <3>1, <3>2 DEF Slept, PipeInv, CallInv, EndsInv, ClosedBy, Reading,
                  SleepInv
    <3> QED  BY <1>3, <2>1, <3>3 DEF SleepInv
  <2> QED  BY <2>2, <2>3
<1>5. CASE /\ readopen /\ lock' = p
           /\ pc' = WakeReaders([pc EXCEPT ![p] = "wsleep"])
  <2>1. \A q \in Proc : pc'[q] = IF q = p THEN "wsleep"
                                 ELSE IF pc[q] = "rasleep" THEN "read"
                                 ELSE pc[q]
    BY <1>2, <1>5 DEF WakeReaders
  <2>2. LockInv'
    BY <1>3, <1>5, <2>1 DEF LockInv
  <2>3. ASSUME NobodyKilled' PROVE SleepInv'
    <3>1. NobodyKilled
      BY <1>1, <2>3 DEF NobodyKilled
    <3> QED  BY <1>1, <1>2, <1>3, <1>5, <2>1, <3>1
                DEF Slept, SleepInv, Full
  <2> QED  BY <2>2, <2>3
<1> QED  BY <1>1, <1>4, <1>5

LEMMA WriteByteSlept ==
    ASSUME Slept, NEW p \in Proc, WriteByte(p)
    PROVE  LockInv' /\ (NobodyKilled' => SleepInv')
<1>1. /\ pc[p] = "write" /\ lock \in {Free, p} /\ ~Full
      /\ \/ /\ lock' = Free
            /\ pc' = WakeReaders([pc EXCEPT ![p] = "user"])
         \/ lock' = p /\ UNCHANGED pc
      /\ UNCHANGED <<nread, readopen, writeopen, killed>>
  BY DEF WriteByte, Return, Locks
<1>2. /\ pc \in [Proc -> PC] /\ Free \notin Proc
  BY PipeAssumption DEF Slept, PipeInv, TypeOK
<1>3. \A q \in Proc : pc[q] \notin {"rsleep", "wsleep", "panic"}
  BY <1>1, <1>2 DEF Slept, LockInv
<1>4. NobodyKilled => \A q \in Proc : pc[q] # "wasleep"
  BY <1>1 DEF Slept, SleepInv
<1>5. CASE /\ lock' = Free
           /\ pc' = WakeReaders([pc EXCEPT ![p] = "user"])
  <2>1. \A q \in Proc : pc'[q] = IF q = p THEN "user"
                                 ELSE IF pc[q] = "rasleep" THEN "read"
                                 ELSE pc[q]
    BY <1>2, <1>5 DEF WakeReaders
  <2>2. LockInv'
    BY <1>3, <1>5, <2>1 DEF LockInv
  <2>3. ASSUME NobodyKilled' PROVE SleepInv'
    <3>1. NobodyKilled
      BY <1>1, <2>3 DEF NobodyKilled
    <3> QED  BY <1>3, <1>4, <2>1, <3>1 DEF SleepInv
  <2> QED  BY <2>2, <2>3
<1>6. CASE lock' = p /\ UNCHANGED pc
  <2>1. LockInv'
    BY <1>1, <1>3, <1>6 DEF LockInv
  <2>2. ASSUME NobodyKilled' PROVE SleepInv'
    <3>1. NobodyKilled
      BY <1>1, <2>2 DEF NobodyKilled
    <3> QED  BY <1>1, <1>2, <1>3, <1>4, <1>6, <3>1 DEF SleepInv
  <2> QED  BY <2>1, <2>2
<1> QED  BY <1>1, <1>5, <1>6

LEMMA SleepSlept ==
    ASSUME Slept, NEW p \in Proc, sleep(p)
    PROVE  LockInv' /\ (NobodyKilled' => SleepInv')
<1>1. /\ lock' = Free
      /\ \/ pc[p] = "rsleep" /\ pc' = [pc EXCEPT ![p] = "rasleep"]
         \/ pc[p] = "wsleep" /\ pc' = [pc EXCEPT ![p] = "wasleep"]
      /\ UNCHANGED <<nread, nwrite, readopen, writeopen, killed>>
  BY DEF sleep, pipevars
<1>2. pc \in [Proc -> PC] /\ Free \notin Proc
  BY PipeAssumption DEF Slept, PipeInv, TypeOK
<1>3. lock = p /\ \A q \in Proc : q # p =>
                     pc[q] \notin {"rsleep", "wsleep", "panic"}
  BY <1>1, <1>2 DEF Slept, LockInv
<1>4. \A q \in Proc : q # p => pc'[q] = pc[q]
  BY <1>1, <1>2
<1>5. pc'[p] \in {"rasleep", "wasleep"} /\ (pc'[p] = "rasleep" <=> pc[p] = "rsleep")
  BY <1>1, <1>2
<1>6. LockInv'
  BY <1>1, <1>3, <1>4, <1>5 DEF LockInv
<1>7. ASSUME NobodyKilled' PROVE SleepInv'
  <2>1. NobodyKilled
    BY <1>1, <1>7 DEF NobodyKilled
  <2> QED  BY <1>1, <1>2, <1>3, <1>4, <1>5, <2>1
              DEF Slept, SleepInv, Empty, Full
<1> QED  BY <1>6, <1>7

LEMMA CopyFaultsSlept ==
    ASSUME Slept, NEW p \in Proc, CopyFaults(p)
    PROVE  LockInv' /\ (NobodyKilled' => SleepInv')
<1>1. /\ lock \in {Free, p} /\ lock' = p
      /\ pc[p] \in {"read", "write"} /\ pc' = [pc EXCEPT ![p] = "panic"]
      /\ UNCHANGED <<nread, nwrite, readopen, writeopen, killed>>
  BY DEF CopyFaults, Locks, pipevars
<1>2. pc \in [Proc -> PC] /\ Free \notin Proc
  BY PipeAssumption DEF Slept, PipeInv, TypeOK
<1>3. \A q \in Proc : pc[q] \notin {"rsleep", "wsleep", "panic"}
  BY <1>1, <1>2 DEF Slept, LockInv
<1>4. \A q \in Proc : pc'[q] = IF q = p THEN "panic" ELSE pc[q]
  BY <1>1, <1>2
<1>5. LockInv'
  BY <1>1, <1>3, <1>4 DEF LockInv
<1>6. ASSUME NobodyKilled' PROVE SleepInv'
  <2>1. NobodyKilled
    BY <1>1, <1>6 DEF NobodyKilled
  <2> QED  BY <1>1, <1>2, <1>3, <1>4, <2>1 DEF Slept, SleepInv, Empty, Full
<1> QED  BY <1>5, <1>6

LEMMA PipecloseSlept ==
    ASSUME Slept, NEW p \in Proc, pipeclose(p)
    PROVE  LockInv' /\ (NobodyKilled' => SleepInv')
<1>1. /\ pc[p] \in {"rclose", "wclose"} /\ lock = Free /\ lock' = Free
      /\ IF pc[p] = "rclose"
         THEN /\ UNCHANGED writeopen
              /\ pc' = WakeWriters([pc EXCEPT ![p] = "user"])
         ELSE /\ UNCHANGED readopen
              /\ pc' = WakeReaders([pc EXCEPT ![p] = "user"])
      /\ UNCHANGED <<nread, nwrite, killed>>
  BY DEF pipeclose
<1>2. pc \in [Proc -> PC] /\ Free \notin Proc
  BY PipeAssumption DEF Slept, PipeInv, TypeOK
<1>3. \A q \in Proc : pc[q] \notin {"rsleep", "wsleep", "panic"}
  BY <1>1, <1>2 DEF Slept, LockInv
<1>4. \A q \in Proc : pc'[q] = IF q = p THEN "user"
                         ELSE IF pc[p] = "rclose"
                         THEN IF pc[q] = "wasleep" THEN "write" ELSE pc[q]
                         ELSE IF pc[q] = "rasleep" THEN "read" ELSE pc[q]
  BY <1>1, <1>2 DEF WakeReaders, WakeWriters
<1>5. LockInv'
  BY <1>1, <1>3, <1>4 DEF LockInv
<1>6. ASSUME NobodyKilled' PROVE SleepInv'
  <2>1. NobodyKilled
    BY <1>1, <1>6 DEF NobodyKilled
  <2>2. ASSUME NEW q \in Proc, pc'[q] = "rasleep"
        PROVE  Empty' /\ writeopen'
    BY <1>1, <1>4, <2>1, <2>2 DEF Slept, SleepInv, Empty
  <2>3. ASSUME NEW q \in Proc, pc'[q] = "wasleep"
        PROVE  Full' /\ readopen'
    BY <1>1, <1>4, <2>1, <2>3 DEF Slept, SleepInv, Full
  <2>4. \A q \in Proc : pc'[q] \notin {"rsleep", "wsleep"}
    BY <1>3, <1>4
  <2> QED  BY <2>2, <2>3, <2>4 DEF SleepInv
<1> QED  BY <1>5, <1>6

LEMMA KillSlept ==
    ASSUME Slept, NEW p \in Proc, kill(p)
    PROVE  LockInv' /\ (NobodyKilled' => SleepInv')
<1>1. /\ UNCHANGED lock
      /\ killed' = [killed EXCEPT ![p] = TRUE]
      /\ \/ pc[p] = "rasleep" /\ pc' = [pc EXCEPT ![p] = "read"]
         \/ pc[p] = "wasleep" /\ pc' = [pc EXCEPT ![p] = "write"]
         \/ pc' = [pc EXCEPT ![p] = pc[p]]
  BY DEF kill
<1>2. /\ pc \in [Proc -> PC] /\ killed \in [Proc -> BOOLEAN]
      /\ lock \in Proc \cup {Free}
  BY DEF Slept, PipeInv, TypeOK
<1>3. \A q \in Proc : \/ pc'[q] = pc[q]
                      \/ pc[q] = "rasleep" /\ pc'[q] = "read"
                      \/ pc[q] = "wasleep" /\ pc'[q] = "write"
  BY <1>1, <1>2
<1>4. LockInv'
  BY <1>1, <1>2, <1>3 DEF Slept, LockInv
<1>5. ~NobodyKilled'
  BY <1>1, <1>2 DEF NobodyKilled
<1> QED  BY <1>4, <1>5

LEMMA NextSlept ==
    ASSUME Slept, [Next]_vars
    PROVE  Slept'
<1>1. PipeInv'
  BY NextPipe DEF Slept
<1>2. CASE UNCHANGED vars
  BY <1>1, <1>2 DEF Slept, LockInv, SleepInv, NobodyKilled, Empty, Full,
                    vars, pipevars
<1>3. ASSUME Next PROVE LockInv' /\ (NobodyKilled' => SleepInv')
  <2>1. PICK p \in Proc : Kernel(p) \/ User(p) \/ kill(p) \/ CopyFaults(p)
    BY <1>3 DEF Next
  <2>2. pc \in [Proc -> PC]
    BY DEF Slept, PipeInv, TypeOK
  <2>3. ASSUME NEW n \in 1 .. MaxCall, NEW e \in Ends, Begin(p, e, n)
        PROVE  LockInv' /\ (NobodyKilled' => SleepInv')
    BY <2>2, <2>3, UserStep DEF Begin, Ends
  <2>4. ASSUME NEW e \in Ends, fileclose(p, e)
        PROVE  LockInv' /\ (NobodyKilled' => SleepInv')
    BY <2>2, <2>4, UserStep DEF fileclose
  <2>5. ASSUME NEW c \in Proc, fork(p, c)
        PROVE  LockInv' /\ (NobodyKilled' => SleepInv')
    BY <2>2, <2>5, UserStep DEF fork
  <2>6. ASSUME exit(p)
        PROVE  LockInv' /\ (NobodyKilled' => SleepInv')
    BY <2>2, <2>6, UserStep DEF exit
  <2> QED  BY <2>1, <2>3, <2>4, <2>5, <2>6, NextCases, ReadEmptySlept,
              ReadCopySlept, WriteFullSlept, WriteByteSlept, SleepSlept,
              CopyFaultsSlept, PipecloseSlept, KillSlept
<1> QED  BY <1>1, <1>2, <1>3 DEF Slept

\* wakeup() calls are enough: until a process is killed, nobody stays asleep
\* in piperead() or pipewrite() with the pipe unlocked and something to do.
\* (A writer that is killed returns without waking the readers of what it has
\* already stored.)
THEOREM SleepersTheorem == Spec => [](NobodyKilled => SleepersMustWait)
<1>1. Init => Slept
  BY InitSlept
<1>2. Slept /\ [Next]_vars => Slept'
  BY NextSlept
<1>3. Slept => (NobodyKilled => SleepersMustWait)
  BY DEF Slept, PipeInv, SleepInv, SleepersMustWait
<1> QED  BY <1>1, <1>2, <1>3, PTL DEF Spec

\* While nobody may be killed, no process is.
THEOREM UnkilledTheorem ==
    ASSUME Killable = {}
    PROVE  Spec => []SleepersMustWait
<1>1. Init => NobodyKilled
  BY DEF Init, NobodyKilled
<1>2. NobodyKilled /\ [Next]_vars => NobodyKilled'
  <2> SUFFICES ASSUME NobodyKilled, [Next]_vars
               PROVE  NobodyKilled'
    OBVIOUS
  <2>1. UNCHANGED killed
    <3>1. CASE UNCHANGED vars
      BY <3>1 DEF vars
    <3>2. CASE Next
      <4>1. PICK p \in Proc : Kernel(p) \/ User(p) \/ kill(p) \/ CopyFaults(p)
        BY <3>2 DEF Next
      <4> QED  BY <4>1 DEF Kernel, User, Begin, ReadEmpty, ReadCopy, WriteFull,
                  WriteByte, sleep, CopyFaults, fileclose, pipeclose, exit,
                  fork, kill
    <3> QED  BY <3>1, <3>2
  <2> QED  BY <2>1 DEF NobodyKilled
<1> QED  BY <1>1, <1>2, SleepersTheorem, PTL DEF Spec

-----------------------------------------------------------------------------
(* The ring buffer as a queue.                                             *)

LEMMA QueueLength ==
    ASSUME TypeOK
    PROVE  \E d \in 0 .. PIPESIZE :
              /\ d = (nwrite - nread) % WIDTH
              /\ DOMAIN Queue = 1 .. d
              /\ Queue \in Seq(Byte) /\ Len(Queue) = d
<1>1. /\ nread \in 0 .. WIDTH - 1 /\ nwrite \in 0 .. WIDTH - 1 /\ WIDTH \in Nat
  BY Sizes DEF TypeOK
<1>2. PICK d \in 0 .. WIDTH - 1 : d = (nwrite - nread) % WIDTH
  BY <1>1, Difference
<1>3. d \in 0 .. PIPESIZE
  BY <1>2, Sizes, SMT DEF TypeOK
<1>4. ASSUME NEW i \in 1 .. d
      PROVE  data[((nread + i - 1) % WIDTH) % PIPESIZE] \in Byte
  <2>1. nread + i - 1 \in Nat
    BY <1>1, SMT
  <2> QED  BY <2>1, ByteAt
<1>5. Queue = [i \in 1 .. d |-> data[((nread + i - 1) % WIDTH) % PIPESIZE]]
  BY <1>2 DEF Queue
<1>6. DOMAIN Queue = 1 .. d
  BY <1>5
<1>7. Queue \in [1 .. d -> Byte]
  BY <1>4, <1>5
<1>8. Queue \in Seq(Byte) /\ Len(Queue) = d
  BY <1>3, <1>6, <1>7
<1> QED  BY <1>2, <1>3, <1>6, <1>8

\* A byte goes into a free element of data[], behind the last of the queue.
LEMMA QueueAppend ==
    ASSUME TypeOK, TypeOK', ~Full, nwrite' = (nwrite + 1) % WIDTH,
           UNCHANGED nread, NEW b \in Byte,
           data' = [data EXCEPT ![nwrite % PIPESIZE] = b]
    PROVE  /\ Len(Queue) < PIPESIZE
           /\ Queue' = Append(Queue, b)
<1>1. /\ nread \in 0 .. WIDTH - 1 /\ nwrite \in 0 .. WIDTH - 1 /\ WIDTH \in Nat
  BY Sizes DEF TypeOK
<1>2. PICK d \in 0 .. PIPESIZE :
         /\ d = (nwrite - nread) % WIDTH
         /\ DOMAIN Queue = 1 .. d
         /\ Queue \in Seq(Byte) /\ Len(Queue) = d
  BY QueueLength
<1>3. /\ (nwrite' - nread') % WIDTH = d + 1
      /\ d + 1 <= PIPESIZE
  BY <1>2, Added
<1>4. Len(Queue) < PIPESIZE
  BY <1>2, <1>3, Sizes, SMT
<1>5. Queue' = [i \in 1 .. d + 1 |->
                  data'[((nread + i - 1) % WIDTH) % PIPESIZE]]
  BY <1>3 DEF Queue
<1>6. ASSUME NEW i \in 1 .. d
      PROVE  data'[((nread + i - 1) % WIDTH) % PIPESIZE] = Queue[i]
  <2>1. PICK k \in 0 .. WIDTH - 1 : k = i - 1
    BY <1>2, Sizes, SMT
  <2>2. PICK x \in 0 .. WIDTH - 1 :
           /\ x = (nread + k) % WIDTH
           /\ x = IF nread + k < WIDTH THEN nread + k ELSE (nread + k) - WIDTH
    BY <1>1, Advance
  <2>3. d = IF nwrite >= nread THEN nwrite - nread
                               ELSE (nwrite - nread) + WIDTH
    BY <1>1, <1>2, Difference
  <2>4. (nwrite - x) % WIDTH = IF nwrite >= x THEN nwrite - x
                                             ELSE (nwrite - x) + WIDTH
    BY <1>1, Difference
  <2>5. (IF nwrite >= x THEN nwrite - x ELSE (nwrite - x) + WIDTH) = d - k
    <3>1. x = IF nread + k < WIDTH THEN nread + k ELSE (nread + k) - WIDTH
      BY <2>2
    <3>2. k < d
      BY <1>2, <2>1, Sizes, SMT
    <3> QED  BY <1>1, <2>3, <3>1, <3>2, SMT
  <2>6. (nwrite - x) % WIDTH \in 1 .. PIPESIZE - 1
    <3>1. (nwrite - x) % WIDTH = d - k
      BY <2>4, <2>5
    <3>2. d - k \in 1 .. PIPESIZE - 1
      BY <1>2, <1>3, <2>1, Sizes, SMT
    <3> QED  BY <3>1, <3>2
  <2>7. x % PIPESIZE # nwrite % PIPESIZE
    BY <1>1, <2>6, Sizes, Apart
  <2>8. nread + i - 1 = nread + k
    BY <1>1, <2>1, SMT
  <2>9. (nread + i - 1) % WIDTH = x
    BY <2>2, <2>8
  <2>10. data'[x % PIPESIZE] = data[x % PIPESIZE]
    <3>1. x % PIPESIZE \in 0 .. PIPESIZE - 1
      BY Sizes, SMT
    <3> QED  BY <2>7, <3>1 DEF TypeOK
  <2>11. Queue[i] = data[x % PIPESIZE]
    BY <1>2, <2>9 DEF Queue
  <2> QED  BY <2>9, <2>10, <2>11
<1>7. data'[((nread + (d + 1) - 1) % WIDTH) % PIPESIZE] = b
  <2>1. (nread + d) % WIDTH = nwrite
    <3>1. d \in 0 .. WIDTH - 1
      BY <1>2, Sizes, SMT
    <3>2. (nread + d) % WIDTH = IF nread + d < WIDTH THEN nread + d
                                                    ELSE (nread + d) - WIDTH
      BY <1>1, <3>1, Advance
    <3>3. d = IF nwrite >= nread THEN nwrite - nread
                                 ELSE (nwrite - nread) + WIDTH
      BY <1>1, <1>2, Difference
    <3>4. (IF nread + d < WIDTH THEN nread + d ELSE (nread + d) - WIDTH)
             = nwrite
      BY <1>1, <3>3, SMT
    <3> QED  BY <3>2, <3>4
  <2>2. nread + (d + 1) - 1 = nread + d
    BY <1>1, SMT
  <2>3. nwrite % PIPESIZE \in 0 .. PIPESIZE - 1
    BY <1>1, Sizes, SMT
  <2>4. data'[nwrite % PIPESIZE] = b
    BY <2>3 DEF TypeOK
  <2> QED  BY <2>1, <2>2, <2>4
<1>8. PICK r : r = Queue'
  OBVIOUS
<1>9. /\ DOMAIN r = 1 .. d + 1
      /\ \A i \in 1 .. d : r[i] = Queue[i]
      /\ r[d + 1] = b
  <2>1. ASSUME NEW i \in 1 .. d
        PROVE  r[i] = Queue[i]
    <3>1. i \in 1 .. d + 1
      BY <1>2, SMT
    <3> QED  BY <1>5, <1>6, <1>8, <3>1
  <2>2. r[d + 1] = b
    <3>1. d + 1 \in 1 .. d + 1
      BY <1>2, SMT
    <3> QED  BY <1>5, <1>7, <1>8, <3>1
  <2>3. DOMAIN r = 1 .. d + 1
    BY <1>5, <1>8
  <2> QED  BY <2>1, <2>2, <2>3
<1>10. r \in Seq(Byte) /\ Len(r) = d + 1
  <2>1. r = [i \in 1 .. d + 1 |->
               data'[((nread + i - 1) % WIDTH) % PIPESIZE]]
    BY <1>5, <1>8
  <2>2. ASSUME NEW i \in 1 .. d + 1
        PROVE  r[i] \in Byte
    <3>1. CASE i \in 1 .. d
      <4>1. Queue[i] \in Byte
        BY <1>2, <3>1
      <4> QED  BY <1>9, <3>1, <4>1
    <3>2. CASE i = d + 1
      BY <1>9, <3>2
    <3>3. i \in 1 .. d \/ i = d + 1
      BY <1>2, SMT
    <3> QED  BY <3>1, <3>2, <3>3
  <2>3. r \in [1 .. d + 1 -> Byte]
    BY <2>1, <2>2
  <2> QED  BY <1>2, <1>9, <2>3
<1>11. r = Append(Queue, b)
  <2>1. /\ Append(Queue, b) \in Seq(Byte)
        /\ Len(Append(Queue, b)) = d + 1
        /\ \A i \in 1 .. d : Append(Queue, b)[i] = Queue[i]
        /\ Append(Queue, b)[d + 1] = b
    BY <1>2, SMT
  <2>2. \A i \in 1 .. d + 1 : i \in 1 .. d \/ i = d + 1
    BY <1>2, SMT
  <2> HIDE DEF Queue
  <2>3. \A i \in 1 .. Len(r) : r[i] = Append(Queue, b)[i]
    BY <1>9, <1>10, <2>1, <2>2
  <2> QED  BY <1>10, <2>1, <2>3, SeqEqual
<1> QED  BY <1>4, <1>8, <1>11

\* A read takes the first n bytes of the queue and leaves the others.
LEMMA QueueTake ==
    ASSUME TypeOK, NEW p \in Proc, NEW n,
           n = IF (nwrite - nread) % WIDTH < left[p]
               THEN (nwrite - nread) % WIDTH ELSE left[p],
           nread' = (nread + n) % WIDTH, UNCHANGED <<nwrite, data>>
    PROVE  /\ n \in 0 .. Len(Queue)
           /\ [i \in 1 .. n |-> ReadByte(i)] = SubSeq(Queue, 1, n)
           /\ Queue' = SubSeq(Queue, n + 1, Len(Queue))
<1>1. /\ nread \in 0 .. WIDTH - 1 /\ nwrite \in 0 .. WIDTH - 1 /\ WIDTH \in Nat
  BY Sizes DEF TypeOK
<1>2. PICK d \in 0 .. PIPESIZE :
         /\ d = (nwrite - nread) % WIDTH
         /\ DOMAIN Queue = 1 .. d
         /\ Queue \in Seq(Byte) /\ Len(Queue) = d
  BY QueueLength
<1>3. /\ n \in 0 .. d /\ n \in 0 .. WIDTH - 1
      /\ (nwrite' - nread') % WIDTH = d - n
  BY <1>2, Taken
<1>4. \A i \in 1 .. d :
         /\ Queue[i] = data[((nread + i - 1) % WIDTH) % PIPESIZE]
         /\ Queue[i] \in Byte
  BY <1>2 DEF Queue
<1>5. [i \in 1 .. n |-> ReadByte(i)] = SubSeq(Queue, 1, n)
  <2>1. PICK s : s = [i \in 1 .. n |-> ReadByte(i)]
    OBVIOUS
  <2>2. ASSUME NEW i \in 1 .. n
        PROVE  s[i] = Queue[i] /\ s[i] \in Byte
    <3>1. i \in 1 .. d
      BY <1>3, SMT
    <3>2. s[i] = ReadByte(i)
      BY <2>1
    <3> QED  BY <1>4, <3>1, <3>2 DEF ReadByte
  <2>3. s \in Seq(Byte) /\ Len(s) = n
    <3>1. DOMAIN s = 1 .. n /\ s = [i \in DOMAIN s |-> s[i]]
      BY <2>1
    <3>2. s \in [1 .. n -> Byte]
      BY <2>2, <3>1
    <3> QED  BY <1>3, <3>1, <3>2
  <2>4. PICK t : t = SubSeq(Queue, 1, n)
    OBVIOUS
  <2>5. /\ t \in Seq(Byte) /\ Len(t) = n
        /\ \A i \in 1 .. n : t[i] = Queue[i]
    <3>1. \A i \in 1 .. n : Queue[i] \in Byte
      BY <2>2
    <3> HIDE DEF Queue
    <3>2. /\ t \in Seq(Byte) /\ Len(t) = IF 1 <= n THEN n - 1 + 1 ELSE 0
          /\ \A i \in 1 .. n - 1 + 1 : t[i] = Queue[1 + i - 1]
      BY <1>3, <2>4, <3>1, SubSeqProperties
    <3>3. n - 1 + 1 = n /\ (~(1 <= n) => n = 0)
      BY <1>3, SMT
    <3>4. \A i \in 1 .. n : 1 + i - 1 = i
      BY <1>3, SMT
    <3> QED  BY <3>2, <3>3, <3>4
  <2>6. s = t
    <3>1. \A i \in 1 .. Len(s) : s[i] = t[i]
      BY <2>2, <2>3, <2>5
    <3> QED  BY <2>3, <2>5, <3>1, SeqEqual
  <2> QED  BY <2>1, <2>4, <2>6
<1>6. Queue' = SubSeq(Queue, n + 1, Len(Queue))
  <2>1. PICK r : r = Queue'
    OBVIOUS
  <2>2. PICK m \in Nat : m = d - n
    BY <1>2, <1>3, SMT
  <2>3. r = [i \in 1 .. m |->
               data[((nread' + i - 1) % WIDTH) % PIPESIZE]]
    BY <1>3, <2>1, <2>2 DEF Queue
  <2>4. ASSUME NEW i \in 1 .. m
        PROVE  r[i] = Queue[n + i] /\ r[i] \in Byte
    <3>1. n + i \in 1 .. d
      BY <1>2, <1>3, <2>2, SMT
    <3>2. PICK k \in 0 .. WIDTH - 1 : k = i - 1
      BY <1>2, <1>3, <2>2, Sizes, SMT
    <3>3. n + k \in 0 .. WIDTH - 1
      BY <1>2, <1>3, <2>2, <3>2, Sizes, SMT
    <3>4. PICK x \in 0 .. WIDTH - 1 :
             /\ x = (nread + n) % WIDTH
             /\ x = IF nread + n < WIDTH THEN nread + n
                                         ELSE (nread + n) - WIDTH
      <4>1. /\ (nread + n) % WIDTH = IF nread + n < WIDTH THEN nread + n
                                                 ELSE (nread + n) - WIDTH
            /\ (nread + n) % WIDTH \in 0 .. WIDTH - 1
        BY <1>1, <1>3, Advance
      <4> QED  BY <4>1, Zenon
    <3>5. PICK y \in 0 .. WIDTH - 1 :
             /\ y = (x + k) % WIDTH
             /\ y = IF x + k < WIDTH THEN x + k ELSE (x + k) - WIDTH
      BY <1>1, <3>2, Advance
    <3>6. PICK z \in 0 .. WIDTH - 1 :
             /\ z = (nread + (n + k)) % WIDTH
             /\ z = IF nread + (n + k) < WIDTH THEN nread + (n + k)
                                        ELSE (nread + (n + k)) - WIDTH
      BY <1>1, <3>3, Advance
    <3>7. y = z
      <4>1. x = IF nread + n < WIDTH THEN nread + n ELSE (nread + n) - WIDTH
        BY <3>4
      <4>2. y = IF x + k < WIDTH THEN x + k ELSE (x + k) - WIDTH
        BY <3>5
      <4>3. z = IF nread + (n + k) < WIDTH THEN nread + (n + k)
                                           ELSE (nread + (n + k)) - WIDTH
        BY <3>6
      <4> QED  BY <1>1, <1>3, <3>2, <3>3, <4>1, <4>2, <4>3, SMT
    <3>8. /\ nread' + i - 1 = x + k
          /\ nread + (n + i) - 1 = nread + (n + k)
      <4>1. nread' = x
        BY <3>4
      <4> QED  BY <1>1, <1>3, <3>2, <4>1, SMT
    <3>9. r[i] = data[y % PIPESIZE]
      BY <2>3, <3>5, <3>8
    <3>10. Queue[n + i] = data[z % PIPESIZE]
      BY <1>4, <3>1, <3>6, <3>8
    <3> QED  BY <1>4, <3>1, <3>7, <3>9, <3>10
  <2>5. r \in Seq(Byte) /\ Len(r) = m
    <3>1. DOMAIN r = 1 .. m /\ r = [i \in DOMAIN r |-> r[i]]
      BY <2>3
    <3>2. r \in [1 .. m -> Byte]
      BY <2>4, <3>1
    <3> QED  BY <3>1, <3>2
  <2>6. PICK t : t = SubSeq(Queue, n + 1, d)
    OBVIOUS
  <2>7. /\ t \in Seq(Byte) /\ Len(t) = m
        /\ \A i \in 1 .. m : t[i] = Queue[n + i]
    <3>1. \A i \in n + 1 .. d : Queue[i] \in Byte
      <4>1. \A i \in n + 1 .. d : i \in 1 .. d
        BY <1>2, <1>3, SMT
      <4> QED  BY <1>4, <4>1
    <3>7. d \in Int /\ n \in Int /\ n <= d
      BY <1>2, <1>3, Sizes, SMT
    <3>2. PICK a \in Int : a = n + 1
      BY <3>7, SMT
    <3>3. \A i \in a .. d : Queue[i] \in Byte
      BY <3>1, <3>2
    <3> HIDE DEF Queue
    <3>4. t = SubSeq(Queue, a, d)
      BY <2>6, <3>2
    <3>5. /\ t \in Seq(Byte)
          /\ Len(t) = IF a <= d THEN d - a + 1 ELSE 0
          /\ \A i \in 1 .. d - a + 1 : t[i] = Queue[a + i - 1]
      <4>1. d \in Int
        BY <3>7
      <4>2. /\ SubSeq(Queue, a, d) \in Seq(Byte)
            /\ Len(SubSeq(Queue, a, d)) = IF a <= d THEN d - a + 1 ELSE 0
            /\ \A i \in 1 .. d - a + 1 :
                  SubSeq(Queue, a, d)[i] = Queue[a + i - 1]
        BY <3>3, <4>1, SubSeqProperties
      <4> QED  BY <3>4, <4>2, Zenon
    <3>6. /\ d - a + 1 = m /\ (~(a <= d) => m = 0)
          /\ \A i \in 1 .. m : a + i - 1 = n + i
      BY <2>2, <3>2, <3>7, SMT
    <3> QED  BY <3>5, <3>6
  <2>8. r = t
    <3>1. \A i \in 1 .. Len(r) : r[i] = t[i]
      BY <2>4, <2>5, <2>7
    <3> QED  BY <2>5, <2>7, <3>1, SeqEqual
  <2> QED  BY <1>2, <2>1, <2>6, <2>8
<1> QED  BY <1>2, <1>3, <1>5, <1>6

-----------------------------------------------------------------------------
(* The pipe implements the byte stream: each step is one of its steps or   *)
(* leaves the queue, the open ends and the results alone.                  *)

LEMMA InitStream == Init => B!BInit
<1> SUFFICES ASSUME Init PROVE B!BInit
  OBVIOUS
<1>1. /\ nread = 0 /\ nwrite = 0 /\ readopen /\ writeopen
      /\ result = [p \in Proc |-> None]
  BY DEF Init
<1>2. Queue = <<>>
  <2>1. TypeOK
    BY InitPipe DEF PipeInv
  <2>2. PICK d \in 0 .. PIPESIZE : /\ d = (nwrite - nread) % WIDTH
                                   /\ Queue \in Seq(Byte) /\ Len(Queue) = d
    BY <2>1, QueueLength
  <2>3. d = 0
    <3>1. d = IF nwrite >= nread THEN nwrite - nread
                                 ELSE (nwrite - nread) + WIDTH
      BY <2>1, <2>2, Sizes, Difference DEF TypeOK
    <3> QED  BY <1>1, <3>1, SMT
  <2> HIDE DEF Queue
  <2> QED  BY <2>2, <2>3, EmptySeq
<1> QED  BY <1>1, <1>2 DEF B!BInit, B!Ends, B!None, None

\* Steps that move no byte and close no end.
LEMMA QuietStream ==
    ASSUME UNCHANGED pipevars
    PROVE  /\ UNCHANGED Queue
           /\ UNCHANGED ((IF readopen THEN {"read"} ELSE {}) \cup
                         (IF writeopen THEN {"write"} ELSE {}))
  BY DEF Queue, pipevars

LEMMA ReadCopyStream ==
    ASSUME PipeInv, NEW p \in Proc, ReadCopy(p)
    PROVE  B!BNext
<1> DEFINE n == IF (nwrite - nread) % WIDTH < left[p]
                THEN (nwrite - nread) % WIDTH ELSE left[p]
           r == [i \in 1 .. n |-> ReadByte(i)]
<1>1. /\ nread' = (nread + n) % WIDTH /\ result' = [result EXCEPT ![p] = r]
      /\ UNCHANGED <<data, nwrite, readopen, writeopen>>
      /\ pc[p] = "read"
      /\ ~Empty \/ ~writeopen
  BY DEF ReadCopy, Return
<1>2. TypeOK /\ left[p] \in Nat /\ left[p] >= 1
  BY <1>1 DEF PipeInv, TypeOK, CallInv, Reading
<1>3. /\ n \in 0 .. Len(Queue) /\ r = SubSeq(Queue, 1, n)
      /\ Queue' = SubSeq(Queue, n + 1, Len(Queue))
  BY <1>1, <1>2, QueueTake
<1>4. PICK d \in 0 .. PIPESIZE : /\ d = (nwrite - nread) % WIDTH
                                 /\ Queue \in Seq(Byte) /\ Len(Queue) = d
  BY <1>2, QueueLength
<1>5. n = IF d < left[p] THEN d ELSE left[p]
  BY <1>4
<1> HIDE DEF n, r, Queue
<1>6. CASE n = 0
  <2>1. d = 0
    BY <1>2, <1>4, <1>5, <1>6, Sizes, SMT
  <2>2. Queue = <<>>
    BY <1>4, <2>1, EmptySeq
  <2>3. Empty
    <3>1. d = IF nwrite >= nread THEN nwrite - nread
                                 ELSE (nwrite - nread) + WIDTH
      BY <1>2, <1>4, Sizes, Difference DEF TypeOK
    <3> QED  BY <1>2, <2>1, <3>1, Sizes, SMT DEF TypeOK, Empty
  <2>4. ~writeopen
    BY <1>1, <2>3
  <2>5. SubSeq(Queue, 1, n) = <<>> /\ Queue' = Queue
    <3>1. SubSeq(Queue, 1, 0) = <<>> /\ SubSeq(Queue, 0 + 1, 0) = <<>>
      BY SubSeqEmpty
    <3> QED  BY <1>3, <1>4, <1>6, <2>1, <2>2, <3>1
  <2>6. B!EndOfData(p)
    BY <1>1, <1>3, <2>2, <2>4, <2>5 DEF B!EndOfData
  <2> QED  BY <2>6 DEF B!BNext
<1>7. CASE n # 0
  <2>1. n \in 1 .. Len(Queue) /\ n \in 1 .. PIPESIZE
    BY <1>3, <1>4, <1>7, Sizes, SMT
  <2>2. B!Get(p, n)
    BY <1>1, <1>3, <2>1 DEF B!Get
  <2> QED  BY <2>1, <2>2 DEF B!BNext
<1> QED  BY <1>6, <1>7

LEMMA WriteByteStream ==
    ASSUME PipeInv, PipeInv', NEW p \in Proc, WriteByte(p)
    PROVE  B!BNext
<1>1. PICK b \in Byte : data' = [data EXCEPT ![nwrite % PIPESIZE] = b]
  BY DEF WriteByte
<1>2. /\ ~Full /\ nwrite' = (nwrite + 1) % WIDTH
      /\ UNCHANGED <<nread, readopen, writeopen>>
      /\ result' = [result EXCEPT ![p] = <<>>] \/ UNCHANGED result
  BY DEF WriteByte, Return
<1>3. Len(Queue) < PIPESIZE /\ Queue' = Append(Queue, b)
  BY <1>1, <1>2, QueueAppend DEF PipeInv
<1> HIDE DEF Queue
<1>4. B!PutLast(p, b) \/ B!Put(b)
  BY <1>2, <1>3 DEF B!PutLast, B!Put
<1> QED  BY <1>4 DEF B!BNext

LEMMA PipecloseStream ==
    ASSUME PipeInv, NEW p \in Proc, pipeclose(p)
    PROVE  B!BNext
<1>1. /\ \/ readopen' = FALSE /\ UNCHANGED writeopen
         \/ writeopen' = FALSE /\ UNCHANGED readopen
      /\ UNCHANGED <<data, nread, nwrite, result>>
  BY DEF pipeclose
<1>2. UNCHANGED Queue
  BY <1>1 DEF Queue
<1>3. readopen \in BOOLEAN /\ writeopen \in BOOLEAN
  BY DEF PipeInv, TypeOK
<1> HIDE DEF Queue
<1>4. CASE readopen' = FALSE /\ UNCHANGED writeopen
  <2>1. B!Close("read")
    BY <1>1, <1>2, <1>3, <1>4 DEF B!Close
  <2> QED  BY <2>1 DEF B!BNext, B!Ends
<1>5. CASE writeopen' = FALSE /\ UNCHANGED readopen
  <2>1. B!Close("write")
    BY <1>1, <1>2, <1>3, <1>5 DEF B!Close
  <2> QED  BY <2>1 DEF B!BNext, B!Ends
<1> QED  BY <1>1, <1>4, <1>5

LEMMA NextStream ==
    ASSUME PipeInv, PipeInv', [Next]_vars
    PROVE  B!BNext \/ UNCHANGED B!bvars
<1>1. CASE UNCHANGED vars
  BY <1>1, QuietStream DEF vars, pipevars, B!bvars
<1>2. ASSUME NEW p \in Proc, UNCHANGED pipevars, UNCHANGED result
      PROVE  UNCHANGED B!bvars
  BY <1>2, QuietStream DEF B!bvars
<1>3. ASSUME NEW p \in Proc, UNCHANGED pipevars,
             result' = [result EXCEPT ![p] = Error]
      PROVE  B!BNext
  <2>1. B!Fail(p)
    BY <1>3, QuietStream DEF B!Fail, B!Error, Error
  <2> QED  BY <2>1 DEF B!BNext
<1>4. ASSUME NEW p \in Proc, UNCHANGED pipevars,
             result' = [result EXCEPT ![p] = None]
      PROVE  B!BNext
  <2>1. B!Begin(p)
    BY <1>4, QuietStream DEF B!Begin, B!None, None
  <2> QED  BY <2>1 DEF B!BNext
<1>5. CASE Next
  <2>1. PICK p \in Proc : Kernel(p) \/ User(p) \/ kill(p) \/ CopyFaults(p)
    BY <1>5 DEF Next
  <2>2. \A n, e : Begin(p, e, n) => B!BNext
    BY <1>4 DEF Begin
  <2>3. ReadEmpty(p) \/ WriteFull(p) => B!BNext \/ UNCHANGED B!bvars
    BY <1>2, <1>3 DEF ReadEmpty, WriteFull, Return
  <2>4. sleep(p) \/ CopyFaults(p) \/ exit(p) \/ kill(p) => UNCHANGED B!bvars
    BY <1>2 DEF sleep, CopyFaults, exit, kill
  <2>5. \A e : fileclose(p, e) => UNCHANGED B!bvars
    BY <1>2 DEF fileclose
  <2>6. \A c : fork(p, c) => UNCHANGED B!bvars
    BY <1>2 DEF fork
  <2> QED  BY <2>1, <2>2, <2>3, <2>4, <2>5, <2>6, NextCases,
              ReadCopyStream, WriteByteStream, PipecloseStream
<1> QED  BY <1>1, <1>5

\* What is read from a pipe is what has been written to it, each byte once
\* and in order, and its end is reported when everything has been read and
\* the writing end is closed, for any PIPESIZE and wrapping counters.
THEOREM StreamTheorem == Spec => ImplementsByteStream
<1>1. Init => B!BInit
  BY InitStream
<1>2. PipeInv /\ PipeInv' /\ [Next]_vars => [B!BNext]_(B!bvars)
  BY NextStream
<1> QED  BY <1>1, <1>2, Invariant, PTL DEF Spec, ImplementsByteStream, B!BSpec
=============================================================================
