------------------------------ MODULE SjfProofs ------------------------------
(***************************************************************************)
(* What is proved of the schedulers of Assignment 2, for any number of     *)
(* slots and CPUs, any quantum and any burst times.  What the selection    *)
(* loop computes is shown by induction over the slots: by contradiction,   *)
(* from the first slot after which it would be wrong.                      *)
(***************************************************************************)
EXTENDS Sjf, WellFoundedInduction, TLAPS

LEMMA Constants ==
    /\ NPROC \in Nat \ {0} /\ QUANTA \in Nat \ {0} /\ HYBRID \in BOOLEAN
    /\ INTMAX \in Nat \ {0} /\ Bursts \subseteq Int /\ \A b \in Bursts : b <= INTMAX
    /\ Callers \subseteq Slot /\ MaxPid \in Nat \ {0} /\ MaxRan \in Nat
    /\ Slot = 1 .. NPROC /\ None = 0 /\ None \notin Slot
  BY SjfAssumption DEF Slot, None

-----------------------------------------------------------------------------
(* Induction over the slots.                                               *)

LEMMA Least ==
    ASSUME NEW T \in SUBSET Nat, T # {}
    PROVE  \E n \in T : \A m \in T : n <= m
<1> DEFINE R == OpToRel(<, Nat)
<1>1. IsWellFoundedOn(R, Nat)
  BY NatLessThanWellFounded
<1> HIDE DEF R
<1>2. PICK n \in T : \A m \in T : ~(<<m, n>> \in R)
  BY <1>1, WFMin
<1>3. \A m \in T : ~(m < n)
  BY <1>2 DEF R, OpToRel
<1> QED  BY <1>3

\* A set of numbers up to N that has 0 and each number after one of its own.
LEMMA UpTo ==
    ASSUME NEW N \in Nat, NEW G, 0 \in G,
           \A n \in 1 .. N : n - 1 \in G => n \in G
    PROVE  0 .. N \subseteq G
<1> SUFFICES ASSUME ~(0 .. N \subseteq G) PROVE FALSE
  OBVIOUS
<1> DEFINE T == (0 .. N) \ G
<1>1. T \in SUBSET Nat /\ T # {}
  OBVIOUS
<1>2. PICK n \in T : \A m \in T : n <= m
  BY <1>1, Least
<1>3. n \in 1 .. N /\ n - 1 \in 0 .. N /\ ~(n <= n - 1)
  BY <1>2
<1>4. n - 1 \in G
  BY <1>2, <1>3
<1> QED  BY <1>2, <1>3, <1>4

-----------------------------------------------------------------------------
(* The selection loop.                                                     *)

Start == [low |-> None, min |-> INTMAX, fault |-> FALSE]

\* The loop over the first n slots.
IsScan(g, n) ==
    g = [i \in 0 .. n |-> IF i = 0 THEN Start ELSE Examine(g[i - 1], i)]

LEMMA ScanExists == \A n \in 0 .. NPROC : \E g : IsScan(g, n)
<1> DEFINE G == {n \in 0 .. NPROC : \E g : IsScan(g, n)}
<1>1. 0 \in G
  <2>1. IsScan([i \in 0 .. 0 |-> Start], 0)
    BY DEF IsScan
  <2> QED  BY <2>1, Constants
<1>2. ASSUME NEW n \in 1 .. NPROC, n - 1 \in G PROVE n \in G
  <2>1. PICK g : IsScan(g, n - 1)
    BY <1>2
  <2> DEFINE x == Examine(g[n - 1], n)
             h == [i \in 0 .. n |-> IF i = n THEN x ELSE g[i]]
  <2> HIDE DEF x
  <2>2. n \in Nat /\ n # 0 /\ n - 1 \in 0 .. n
    BY Constants
  <2>3. h[n] = x /\ h[n - 1] = g[n - 1]
    BY <2>2
  <2>4. \A i \in 0 .. n : h[i] = IF i = 0 THEN Start ELSE Examine(h[i - 1], i)
    <3> SUFFICES ASSUME NEW i \in 0 .. n
                 PROVE  h[i] = IF i = 0 THEN Start ELSE Examine(h[i - 1], i)
      OBVIOUS
    <3>1. CASE i = n
      BY <2>2, <2>3, <3>1 DEF x
    <3>2. CASE i # n
      <4>1. i \in 0 .. n - 1 /\ h[i] = g[i]
        BY <2>2, <3>2
      <4>2. g[i] = IF i = 0 THEN Start ELSE Examine(g[i - 1], i)
        BY <2>1, <4>1 DEF IsScan
      <4>3. i # 0 => i - 1 \in 0 .. n /\ i - 1 # n /\ h[i - 1] = g[i - 1]
        BY <2>2, <4>1
      <4> QED  BY <4>1, <4>2, <4>3
    <3> QED  BY <3>1, <3>2
  <2> HIDE DEF h
  <2>5. h = [i \in 0 .. n |-> h[i]]
    BY DEF h
  <2>6. IsScan(h, n)
    BY <2>4, <2>5, Zenon DEF IsScan
  <2> QED  BY <2>6, Constants
<1>3. 0 .. NPROC \subseteq G
  <2> HIDE DEF G
  <2> QED  BY <1>1, <1>2, UpTo, Constants
<1> QED  BY <1>3

LEMMA ScanIs ==
    \A n \in 0 .. NPROC : Scan[n] = IF n = 0 THEN Start ELSE Examine(Scan[n - 1], n)
<1>1. NPROC \in 0 .. NPROC
  BY Constants
<1>2. \E g : IsScan(g, NPROC)
  BY <1>1, ScanExists
<1>3. Scan = CHOOSE g : IsScan(g, NPROC)
  BY Zenon DEF Scan, IsScan, Start
<1>4. IsScan(Scan, NPROC)
  BY <1>2, <1>3, Zenon
<1> QED  BY <1>4 DEF IsScan

\* What the loop has found in the first n slots: nothing to run, or the process to
\* run.
Outcome == [low : Slot \cup {None}, min : Int, fault : BOOLEAN]
Found(a, n) ==
    /\ a \in Outcome
    /\ a.fault = FALSE /\ a.low = None =>
          a.min = INTMAX /\ \A q \in 1 .. n : state[q] # "RUNNABLE"
    /\ a.fault = FALSE /\ a.low # None =>
          /\ state[a.low] = "RUNNABLE" /\ burst[a.low] = a.min
          /\ \A q \in 1 .. n : state[q] = "RUNNABLE" =>
                a.min < burst[q] \/ (a.min = burst[q] /\ pid[a.low] <= pid[q])

LEMMA ExamineFinds ==
    ASSUME TypeOK, NEW n \in Slot, NEW a, Found(a, n - 1)
    PROVE  Found(Examine(a, n), n)
<1> USE Constants
<1>1. n \in 1 .. NPROC /\ n # None /\ \A q \in 1 .. n : q = n \/ q \in 1 .. n - 1
  OBVIOUS
<1>2. \A q \in 1 .. n : q \in Slot /\ burst[q] \in Int /\ pid[q] \in Int
  BY <1>1 DEF TypeOK
<1>3. a.low \in Slot => burst[a.low] \in Int /\ pid[a.low] \in Int
  BY DEF TypeOK
<1>4. CASE state[n] # "RUNNABLE" \/ a.fault
  BY <1>1, <1>4 DEF Examine, Found, Outcome
<1>5. CASE state[n] = "RUNNABLE" /\ a.fault = FALSE /\ Better(n, a)
  <2>1. PICK b : b = [low |-> n, min |-> burst[n], fault |-> FALSE]
    OBVIOUS
  <2>2. Examine(a, n) = b
    BY <1>5, <2>1 DEF Examine
  <2>3. b.low = n /\ b.min = burst[n] /\ b.fault = FALSE /\ b \in Outcome
    BY <1>1, <1>2, <2>1 DEF Outcome
  <2>4. ASSUME NEW q \in 1 .. n, state[q] = "RUNNABLE"
        PROVE  burst[n] < burst[q] \/ (burst[n] = burst[q] /\ pid[n] <= pid[q])
    BY <1>1, <1>2, <1>3, <1>5, <2>4 DEF Found, Outcome, Better
  <2>5. Found(b, n)
    BY <1>1, <1>2, <1>5, <2>3, <2>4 DEF Found
  <2> QED  BY <2>2, <2>5
<1>6. CASE state[n] = "RUNNABLE" /\ a.fault = FALSE /\ ~Better(n, a) /\ a.low = None
  <2>1. PICK b : b = [a EXCEPT !.fault = TRUE]
    OBVIOUS
  <2>2. Examine(a, n) = b
    BY <1>6, <2>1 DEF Examine
  <2>3. b.fault = TRUE /\ b \in Outcome
    BY <2>1 DEF Found, Outcome
  <2>4. Found(b, n)
    BY <2>3 DEF Found
  <2> QED  BY <2>2, <2>4
<1>7. CASE state[n] = "RUNNABLE" /\ a.fault = FALSE /\ ~Better(n, a) /\ a.low # None
  <2>1. a.low \in Slot /\ a.min \in Int /\ burst[a.low] = a.min /\ a.min <= burst[n]
    BY <1>1, <1>2, <1>7 DEF Found, Outcome, Better
  <2>2. CASE TieBreak(n, a)
    <3>1. PICK b : b = [a EXCEPT !.low = n]
      OBVIOUS
    <3>2. Examine(a, n) = b
      BY <1>7, <2>2, <3>1 DEF Examine
    <3>3. b.low = n /\ b.min = a.min /\ b.fault = FALSE /\ b \in Outcome
      BY <1>7, <3>1 DEF Found, Outcome
    <3>4. burst[n] = a.min /\ pid[n] < pid[a.low]
      BY <2>2 DEF TieBreak
    <3>5. ASSUME NEW q \in 1 .. n, state[q] = "RUNNABLE"
          PROVE  a.min < burst[q] \/ (a.min = burst[q] /\ pid[n] <= pid[q])
      BY <1>1, <1>2, <1>3, <1>7, <2>1, <3>4, <3>5 DEF Found
    <3>6. Found(b, n)
      BY <1>1, <1>7, <3>3, <3>4, <3>5 DEF Found
    <3> QED  BY <3>2, <3>6
  <2>3. CASE ~TieBreak(n, a)
    <3>1. Examine(a, n) = a
      BY <1>7, <2>3 DEF Examine
    <3>2. a.min < burst[n] \/ (a.min = burst[n] /\ pid[a.low] <= pid[n])
      BY <1>1, <1>2, <1>3, <2>1, <2>3 DEF TieBreak
    <3>3. Found(a, n)
      BY <1>1, <1>7, <3>2 DEF Found
    <3> QED  BY <3>1, <3>3
  <2> QED  BY <2>2, <2>3
<1>8. a.fault \in BOOLEAN
  BY DEF Found, Outcome
<1> QED  BY <1>4, <1>5, <1>6, <1>7, <1>8

\* scheduler(): the process with the smallest burst time, and among equals the
\* smallest pid, unless there is none to run or lowest_bt was read while null.
LEMMA ChosenIsShortest == TypeOK => Found(Chosen, NPROC)
<1> SUFFICES ASSUME TypeOK PROVE Found(Chosen, NPROC)
  OBVIOUS
<1> DEFINE G == {n \in 0 .. NPROC : Found(Scan[n], n)}
<1>1. 0 \in G
  <2>1. Scan[0] = Start /\ 0 \in 0 .. NPROC
    BY ScanIs, Constants
  <2>2. PICK a : a = Start
    OBVIOUS
  <2>3. a \in Outcome /\ a.fault = FALSE /\ a.low = None /\ a.min = INTMAX
    BY <2>2, Constants DEF Start, Outcome
  <2>4. Found(a, 0)
    BY <2>3 DEF Found
  <2> QED  BY <2>1, <2>2, <2>4
<1>2. ASSUME NEW n \in 1 .. NPROC, n - 1 \in G PROVE n \in G
  <2>1. Found(Scan[n - 1], n - 1)
    BY <1>2
  <2>2. n \in Slot /\ n \in 0 .. NPROC /\ n # 0
    BY Constants
  <2>3. Scan[n] = Examine(Scan[n - 1], n)
    BY <2>2, ScanIs
  <2>4. Found(Examine(Scan[n - 1], n), n)
    BY <2>1, <2>2, ExamineFinds
  <2> QED  BY <2>2, <2>3, <2>4
<1>3. NPROC \in G
  <2> HIDE DEF G
  <2>1. 0 .. NPROC \subseteq G
    BY <1>1, <1>2, UpTo, Constants
  <2> QED  BY <2>1, Constants
<1> QED  BY <1>3 DEF Chosen

-----------------------------------------------------------------------------
(* Each action keeps the invariant.                                        *)

LEMMA Initially == Init => SjfInv
<1> SUFFICES ASSUME Init PROVE SjfInv
  OBVIOUS
<1> USE Constants DEF Init
<1>1. TypeOK
  <2>1. 0 \in 0 .. MaxPid /\ 1 \in 0 .. MaxPid /\ 2 \in 1 .. MaxPid + 1
    OBVIOUS
  <2>2. 0 \in 0 .. 2 * MaxRan /\ 0 \in 0 .. MaxRan /\ 0 <= INTMAX /\ 0 >= -QUANTA
    OBVIOUS
  <2>3. state \in [Slot -> States] /\ pid \in [Slot -> 0 .. MaxPid]
    BY <2>1 DEF States
  <2>4. /\ burst \in [Slot -> Int]
        /\ \A p \in Slot : burst[p] <= INTMAX /\ burst[p] >= -QUANTA
    BY <2>2
  <2>5. /\ cpucounter \in [Slot -> 0 .. 2 * MaxRan] /\ ran \in [Slot -> 0 .. MaxRan]
        /\ pc \in [Slot -> {"user", "fork", "yield"}]
        /\ cpu \in [CPU -> Slot \cup {None}] /\ panicked \in BOOLEAN
    BY <2>2
  <2> QED  BY <2>1, <2>3, <2>4, <2>5 DEF TypeOK
<1>2. OnCpu
  BY DEF OnCpu
<1>3. Counters
  BY DEF Counters
<1> QED  BY <1>1, <1>2, <1>3 DEF SjfInv

\* Nobody starts or stops running.
LEMMA OnCpuKept ==
    ASSUME SjfInv, UNCHANGED cpu,
           \A q \in Slot : \/ state'[q] = state[q]
                           \/ state[q] # "RUNNING" /\ state'[q] # "RUNNING"
    PROVE  OnCpu'
<1>1. \A c \in CPU : cpu[c] # None => cpu[c] \in Slot
  BY DEF SjfInv, TypeOK
<1> QED  BY <1>1 DEF SjfInv, OnCpu

\* sched(): the process and its CPU part.
LEMMA OnCpuLeft ==
    ASSUME SjfInv, NEW p \in Slot, Running(p), NEW s \in States \ {"RUNNING"}, leave(p, s)
    PROVE  /\ OnCpu' /\ state' \in [Slot -> States] /\ cpu' \in [CPU -> Slot \cup {None}]
           /\ state'[p] = s /\ \A q \in Slot \ {p} : state'[q] = state[q]
<1> USE Constants
<1>1. /\ state' \in [Slot -> States] /\ cpu' \in [CPU -> Slot \cup {None}]
      /\ state'[p] = s /\ \A q \in Slot \ {p} : state'[q] = state[q]
  BY DEF leave, SjfInv, TypeOK
<1>2. \A c \in CPU : cpu'[c] = IF cpu[c] = p THEN None ELSE cpu[c]
  BY DEF leave
<1>3. ASSUME NEW c \in CPU, cpu'[c] # None PROVE state'[cpu'[c]] = "RUNNING"
  <2>1. cpu'[c] = cpu[c] /\ cpu[c] \in Slot \ {p}
    BY <1>2, <1>3 DEF SjfInv, TypeOK
  <2> QED  BY <1>1, <2>1 DEF SjfInv, OnCpu
<1>4. \A c, d \in CPU : cpu'[c] = cpu'[d] /\ c # d => cpu'[c] = None
  BY <1>2 DEF SjfInv, OnCpu
<1>5. ASSUME NEW q \in Slot, state'[q] = "RUNNING" PROVE \E c \in CPU : cpu'[c] = q
  <2>1. q # p /\ state[q] = "RUNNING"
    BY <1>1, <1>5
  <2>2. PICK c \in CPU : cpu[c] = q
    BY <2>1 DEF SjfInv, OnCpu
  <2>3. cpu'[c] = q
    BY <1>2, <2>1, <2>2
  <2> QED  BY <2>3
<1> QED  BY <1>1, <1>3, <1>4, <1>5 DEF OnCpu

\* Nobody's counters change, and nobody is dispatched.
LEMMA CountersKept ==
    ASSUME SjfInv, UNCHANGED <<cpucounter, ran>>,
           \A q \in Slot : state'[q] = "RUNNING" => state[q] = "RUNNING"
    PROVE  Counters'
  BY Constants DEF SjfInv, Counters

LEMMA DispatchStep ==
    ASSUME SjfInv, NEW c \in CPU, Dispatch(c)
    PROVE  SjfInv'
<1> USE Constants
<1>1. Up /\ cpu[c] = None /\ UNCHANGED <<pid, burst, pc, nextpid>>
  BY DEF Dispatch
<1>2. CASE panicked' = TRUE /\ UNCHANGED <<state, cpu, cpucounter, ran>>
  <2>1. TypeOK'
    BY <1>1, <1>2 DEF SjfInv, TypeOK
  <2>2. OnCpu'
    BY <1>2, OnCpuKept
  <2>3. Counters'
    BY <1>2, CountersKept
  <2> QED  BY <2>1, <2>2, <2>3 DEF SjfInv
<1>3. ASSUME NEW p, p = Chosen.low, Chosen.fault = FALSE, p # None,
             state' = [state EXCEPT ![p] = "RUNNING"], cpu' = [cpu EXCEPT ![c] = p],
             cpucounter' = [cpucounter EXCEPT ![p] = CounterAtDispatch(p)],
             ran' = [ran EXCEPT ![p] = 0], UNCHANGED panicked
      PROVE  SjfInv'
  <2>1. p \in Slot /\ state[p] = "RUNNABLE"
    BY <1>3, ChosenIsShortest DEF SjfInv, Found, Outcome
  <2>2. /\ state' \in [Slot -> States] /\ cpu' \in [CPU -> Slot \cup {None}]
        /\ state'[p] = "RUNNING" /\ \A q \in Slot \ {p} : state'[q] = state[q]
        /\ cpu'[c] = p /\ \A d \in CPU \ {c} : cpu'[d] = cpu[d]
    BY <1>3, <2>1 DEF SjfInv, TypeOK, States
  <2>3. CounterAtDispatch(p) \in 0 .. 2 * MaxRan /\ (HYBRID => CounterAtDispatch(p) = 0)
        /\ (~HYBRID => CounterAtDispatch(p) = cpucounter[p])
    BY <2>1 DEF CounterAtDispatch, SjfInv, TypeOK
  <2>4. /\ cpucounter' \in [Slot -> 0 .. 2 * MaxRan] /\ ran' \in [Slot -> 0 .. MaxRan]
        /\ cpucounter'[p] = CounterAtDispatch(p) /\ ran'[p] = 0
        /\ \A q \in Slot \ {p} : cpucounter'[q] = cpucounter[q] /\ ran'[q] = ran[q]
    <3> HIDE DEF CounterAtDispatch
    <3> QED  BY <1>3, <2>1, <2>3 DEF SjfInv, TypeOK
  <2>5. TypeOK'
    BY <1>1, <1>3, <2>2, <2>4 DEF SjfInv, TypeOK
  <2>6. OnCpu'
    <3>1. \A d \in CPU : cpu[d] # p
      BY <2>1 DEF SjfInv, OnCpu
    <3>2. ASSUME NEW d \in CPU, cpu'[d] # None PROVE state'[cpu'[d]] = "RUNNING"
      <4>1. CASE d = c
        BY <2>2, <4>1
      <4>2. CASE d # c
        <5>1. cpu'[d] = cpu[d] /\ cpu[d] \in Slot \ {p}
          BY <2>2, <3>1, <3>2, <4>2 DEF SjfInv, TypeOK
        <5> QED  BY <2>2, <3>2, <5>1 DEF SjfInv, OnCpu
      <4> QED  BY <4>1, <4>2
    <3>3. \A d, e \in CPU : cpu'[d] = cpu'[e] /\ d # e => cpu'[d] = None
      BY <1>3, <2>2, <3>1 DEF SjfInv, OnCpu
    <3>4. ASSUME NEW q \in Slot, state'[q] = "RUNNING" PROVE \E d \in CPU : cpu'[d] = q
      <4>1. CASE q = p
        BY <2>2, <4>1
      <4>2. CASE q # p
        <5>1. PICK d \in CPU : cpu[d] = q
          BY <2>2, <3>4, <4>2 DEF SjfInv, OnCpu
        <5>2. d # c
          BY <1>1, <5>1
        <5> QED  BY <2>2, <5>1, <5>2
      <4> QED  BY <4>1, <4>2
    <3> QED  BY <3>2, <3>3, <3>4 DEF OnCpu
  <2>7. Counters'
    <3> HIDE DEF CounterAtDispatch
    <3>1. ASSUME HYBRID, NEW q \in Slot \ Callers, state'[q] = "RUNNING"
          PROVE  cpucounter'[q] = ran'[q] /\ ran'[q] < QUANTA
      <4>1. CASE q = p
        BY <2>3, <2>4, <3>1, <4>1
      <4>2. CASE q # p
        BY <2>2, <2>4, <3>1, <4>2 DEF SjfInv, Counters
      <4> QED  BY <4>1, <4>2
    <3>2. ASSUME NEW q \in Slot
          PROVE  cpucounter'[q] <= IF HYBRID THEN MaxRan + ran'[q] ELSE 0
      <4>1. CASE q = p
        <5>1. cpucounter[p] <= IF HYBRID THEN MaxRan + ran[p] ELSE 0
          BY <2>1 DEF SjfInv, Counters
        <5> QED  BY <2>3, <2>4, <4>1, <5>1
      <4>2. CASE q # p
        BY <2>4, <4>2 DEF SjfInv, Counters
      <4> QED  BY <4>1, <4>2
    <3> QED  BY <3>1, <3>2 DEF Counters
  <2> QED  BY <2>5, <2>6, <2>7 DEF SjfInv
<1>4. CASE /\ ~Chosen.fault /\ Chosen.low # None
           /\ state' = [state EXCEPT ![Chosen.low] = "RUNNING"]
           /\ cpu' = [cpu EXCEPT ![c] = Chosen.low]
           /\ cpucounter' = [cpucounter EXCEPT ![Chosen.low] = CounterAtDispatch(Chosen.low)]
           /\ ran' = [ran EXCEPT ![Chosen.low] = 0]
           /\ UNCHANGED panicked
  <2>1. Chosen.fault = FALSE
    BY <1>4, ChosenIsShortest DEF SjfInv, Found, Outcome
  <2> QED  BY <1>3, <1>4, <2>1
<1> QED  BY <1>2, <1>4 DEF Dispatch

\* What TypeOK says of each burst time.
InBounds(b) == b <= INTMAX /\ (b >= -QUANTA \/ b \in Bursts)

\* A quantum off a burst time leaves it between -QUANTA and where it was.
LEMMA LessQuantumBounds ==
    ASSUME NEW b \in Int, b <= INTMAX
    PROVE  LessQuantum(b) \in Int /\ LessQuantum(b) <= INTMAX /\ LessQuantum(b) >= -QUANTA
  BY Constants DEF LessQuantum

\* One process's burst time changes, for one within the bounds.
LEMMA BurstChanged ==
    ASSUME SjfInv, NEW p \in Slot, NEW b \in Int, InBounds(b),
           burst' = [burst EXCEPT ![p] = b]
    PROVE  /\ burst' \in [Slot -> Int]
           /\ \A q \in Slot : InBounds(burst'[q])
<1>1. /\ burst' \in [Slot -> Int] /\ burst'[p] = b
      /\ \A q \in Slot \ {p} : burst'[q] = burst[q]
  BY DEF SjfInv, TypeOK
<1> QED  BY <1>1 DEF SjfInv, TypeOK, InBounds

\* fork(): a slot that does not run changes hands.
LEMMA AllocStep ==
    ASSUME SjfInv, NEW p \in Slot, allocproc(p)
    PROVE  SjfInv'
<1> USE Constants
<1>1. PICK q \in Slot : /\ state[q] = "UNUSED" /\ state' = [state EXCEPT ![q] = "EMBRYO"]
                        /\ pid' = [pid EXCEPT ![q] = nextpid]
                        /\ burst' = [burst EXCEPT ![q] = 0]
                        /\ pc' = [pc EXCEPT ![p] = "fork", ![q] = "user"]
  BY DEF allocproc
<1>2. /\ nextpid <= MaxPid /\ nextpid' = nextpid + 1
      /\ UNCHANGED <<cpucounter, cpu, panicked, ran>>
  BY DEF allocproc
<1>3. /\ state' \in [Slot -> States] /\ state'[q] = "EMBRYO"
      /\ \A r \in Slot \ {q} : state'[r] = state[r]
  BY <1>1 DEF SjfInv, TypeOK, States
<1>4. nextpid \in 0 .. MaxPid /\ nextpid' \in 1 .. MaxPid + 1
  BY <1>2 DEF SjfInv, TypeOK
<1>5. pid' \in [Slot -> 0 .. MaxPid] /\ pc' \in [Slot -> {"user", "fork", "yield"}]
  BY <1>1, <1>4 DEF SjfInv, TypeOK
<1>6. 0 \in Int /\ InBounds(0)
  BY DEF InBounds
<1>7. /\ burst' \in [Slot -> Int]
      /\ \A r \in Slot : InBounds(burst'[r])
  BY <1>1, <1>6, BurstChanged, Zenon
<1>8. TypeOK'
  BY <1>2, <1>3, <1>4, <1>5, <1>7 DEF SjfInv, TypeOK, InBounds
<1>9. \A r \in Slot : state'[r] = state[r] \/ (state[r] # "RUNNING" /\ state'[r] # "RUNNING")
  BY <1>1, <1>3
<1>10. OnCpu'
  BY <1>2, <1>9, OnCpuKept
<1>11. Counters'
  BY <1>2, <1>9, CountersKept
<1> QED  BY <1>8, <1>10, <1>11 DEF SjfInv

LEMMA ForkStep ==
    ASSUME SjfInv, NEW p \in Slot, fork(p)
    PROVE  SjfInv'
<1> USE Constants
<1>1. PICK q \in Slot, s \in {"RUNNABLE", "UNUSED"} :
         state[q] = "EMBRYO" /\ state' = [state EXCEPT ![q] = s]
  BY DEF fork
<1>2. pc' = [pc EXCEPT ![p] = "user"] /\ UNCHANGED <<cpu, kept>>
  BY DEF fork
<1>3. /\ state' \in [Slot -> States] /\ state'[q] = s
      /\ \A r \in Slot \ {q} : state'[r] = state[r]
  BY <1>1 DEF SjfInv, TypeOK, States
<1>4. TypeOK'
  BY <1>2, <1>3 DEF SjfInv, TypeOK, kept
<1>5. \A r \in Slot : state'[r] = state[r] \/ (state[r] # "RUNNING" /\ state'[r] # "RUNNING")
  BY <1>1, <1>3
<1>6. OnCpu' /\ Counters'
  BY <1>2, <1>5, OnCpuKept, CountersKept DEF kept
<1> QED  BY <1>4, <1>6 DEF SjfInv

LEMMA WaitStep ==
    ASSUME SjfInv, NEW p \in Slot, wait(p)
    PROVE  SjfInv'
<1> USE Constants
<1>1. PICK z \in Slot : /\ state[z] = "ZOMBIE" /\ state' = [state EXCEPT ![z] = "UNUSED"]
                        /\ pid' = [pid EXCEPT ![z] = 0]
  BY DEF wait
<1>2. UNCHANGED <<burst, cpucounter, pc, cpu, nextpid, panicked, ran>>
  BY DEF wait
<1>3. /\ state' \in [Slot -> States] /\ state'[z] = "UNUSED"
      /\ \A r \in Slot \ {z} : state'[r] = state[r]
  BY <1>1 DEF SjfInv, TypeOK, States
<1>4. pid' \in [Slot -> 0 .. MaxPid]
  <2>1. 0 \in 0 .. MaxPid
    OBVIOUS
  <2> QED  BY <1>1, <2>1 DEF SjfInv, TypeOK
<1>5. TypeOK'
  BY <1>2, <1>3, <1>4 DEF SjfInv, TypeOK
<1>6. \A r \in Slot : state'[r] = state[r] \/ (state[r] # "RUNNING" /\ state'[r] # "RUNNING")
  BY <1>1, <1>3
<1>7. OnCpu' /\ Counters'
  BY <1>2, <1>6, OnCpuKept, CountersKept
<1> QED  BY <1>5, <1>7 DEF SjfInv

LEMMA WakeupStep ==
    ASSUME SjfInv, NEW p \in Slot, wakeup(p)
    PROVE  SjfInv'
<1>1. /\ state[p] = "SLEEPING" /\ state' = [state EXCEPT ![p] = "RUNNABLE"]
      /\ UNCHANGED <<pc, cpu, kept>>
  BY DEF wakeup
<1>2. /\ state' \in [Slot -> States] /\ state'[p] = "RUNNABLE"
      /\ \A r \in Slot \ {p} : state'[r] = state[r]
  BY <1>1 DEF SjfInv, TypeOK, States
<1>3. TypeOK'
  BY <1>1, <1>2 DEF SjfInv, TypeOK, kept
<1>4. \A r \in Slot : state'[r] = state[r] \/ (state[r] # "RUNNING" /\ state'[r] # "RUNNING")
  BY <1>1, <1>2
<1>5. OnCpu' /\ Counters'
  BY <1>1, <1>4, OnCpuKept, CountersKept DEF kept
<1> QED  BY <1>3, <1>5 DEF SjfInv

\* exit(), sleep() and yield(): the counters of a process that gives the CPU up
\* early stay as they are until it is dispatched again.
LEMMA LeaveStep ==
    ASSUME SjfInv, NEW p \in Slot, Running(p),
           NEW s \in States \ {"RUNNING"}, leave(p, s), UNCHANGED kept,
           pc' \in [Slot -> {"user", "fork", "yield"}]
    PROVE  SjfInv'
<1>1. /\ OnCpu' /\ state' \in [Slot -> States] /\ cpu' \in [CPU -> Slot \cup {None}]
      /\ state'[p] = s /\ \A q \in Slot \ {p} : state'[q] = state[q]
  BY OnCpuLeft
<1>2. TypeOK'
  BY <1>1 DEF SjfInv, TypeOK, kept
<1>3. \A q \in Slot : state'[q] = "RUNNING" => state[q] = "RUNNING"
  BY <1>1
<1>4. Counters'
  BY <1>3, CountersKept DEF kept
<1> QED  BY <1>1, <1>2, <1>4 DEF SjfInv

LEMMA GiveUpStep ==
    ASSUME SjfInv, NEW p \in Slot, exit(p) \/ sleep(p) \/ yield(p)
    PROVE  SjfInv'
<1>1. \A s \in {"ZOMBIE", "SLEEPING", "RUNNABLE"} : s \in States \ {"RUNNING"}
  BY DEF States
<1>2. pc \in [Slot -> {"user", "fork", "yield"}]
  BY DEF SjfInv, TypeOK
<1>3. CASE exit(p)
  <2>1. Running(p) /\ leave(p, "ZOMBIE") /\ UNCHANGED kept /\ pc' = pc
    BY <1>3 DEF exit, User
  <2> QED  BY <1>1, <1>2, <2>1, LeaveStep
<1>4. CASE sleep(p)
  <2>1. Running(p) /\ leave(p, "SLEEPING") /\ UNCHANGED kept /\ pc' = pc
    BY <1>4 DEF sleep, User
  <2> QED  BY <1>1, <1>2, <2>1, LeaveStep
<1>5. CASE yield(p)
  <2>1. Running(p) /\ leave(p, "RUNNABLE") /\ UNCHANGED kept /\ pc' = [pc EXCEPT ![p] = "user"]
    BY <1>5 DEF yield
  <2>2. pc' \in [Slot -> {"user", "fork", "yield"}]
    BY <1>2, <2>1
  <2> QED  BY <1>1, <2>1, <2>2, LeaveStep
<1> QED  BY <1>3, <1>4, <1>5

LEMMA SetBurstStep ==
    ASSUME SjfInv, NEW p \in Slot, set_burst_time(p)
    PROVE  SjfInv'
<1>1. PICK bt \in Bursts : burst' = [burst EXCEPT ![p] = bt]
  BY DEF set_burst_time
<1>2. /\ pc' = [pc EXCEPT ![p] = "yield"]
      /\ UNCHANGED <<state, pid, cpucounter, cpu, nextpid, panicked, ran>>
  BY DEF set_burst_time
<1>3. bt \in Int /\ InBounds(bt)
  BY Constants DEF InBounds
<1>4. /\ burst' \in [Slot -> Int]
      /\ \A q \in Slot : InBounds(burst'[q])
  BY <1>1, <1>3, BurstChanged, Zenon
<1>5. TypeOK'
  BY <1>2, <1>4, Constants DEF SjfInv, TypeOK, InBounds
<1>6. OnCpu' /\ Counters'
  BY <1>2, OnCpuKept, CountersKept
<1> QED  BY <1>5, <1>6 DEF SjfInv

\* dec_burstTime() and the timer.
LEMMA QuantumTaken ==
    ASSUME SjfInv, NEW p \in Slot, burst' = [burst EXCEPT ![p] = LessQuantum(@)]
    PROVE  /\ burst' \in [Slot -> Int]
           /\ \A q \in Slot : InBounds(burst'[q])
<1>1. burst[p] \in Int /\ burst[p] <= INTMAX
  BY DEF SjfInv, TypeOK
<1> DEFINE b == LessQuantum(burst[p])
<1>2. b \in Int /\ InBounds(b)
  BY <1>1, LessQuantumBounds DEF InBounds
<1>3. burst' = [burst EXCEPT ![p] = b]
  OBVIOUS
<1> HIDE DEF b
<1> QED  BY <1>2, <1>3, BurstChanged, Zenon

LEMMA DecStep ==
    ASSUME SjfInv, NEW p \in Slot, dec_burstTime(p)
    PROVE  SjfInv'
<1>1. /\ burst' = [burst EXCEPT ![p] = LessQuantum(@)]
      /\ UNCHANGED <<state, pid, cpucounter, pc, cpu, nextpid, panicked, ran>>
  BY DEF dec_burstTime
<1>2. /\ burst' \in [Slot -> Int]
      /\ \A q \in Slot : InBounds(burst'[q])
  BY <1>1, QuantumTaken
<1>3. TypeOK'
  BY <1>1, <1>2, Constants DEF SjfInv, TypeOK, InBounds
<1>4. OnCpu' /\ Counters'
  BY <1>1, OnCpuKept, CountersKept
<1> QED  BY <1>3, <1>4 DEF SjfInv

\* inc_cpucounter(): only the counter of a process that calls it runs ahead.
LEMMA IncStep ==
    ASSUME SjfInv, NEW p \in Slot, inc_cpucounter(p)
    PROVE  SjfInv'
<1> USE Constants
<1>1. /\ HYBRID /\ p \in Callers /\ cpucounter[p] < MaxRan
      /\ cpucounter' = [cpucounter EXCEPT ![p] = @ + 1]
      /\ UNCHANGED <<state, pid, burst, pc, cpu, nextpid, panicked, ran>>
  BY DEF inc_cpucounter
<1>2. cpucounter[p] \in 0 .. 2 * MaxRan /\ cpucounter[p] + 1 \in 0 .. 2 * MaxRan
  BY <1>1 DEF SjfInv, TypeOK
<1>3. /\ cpucounter' \in [Slot -> 0 .. 2 * MaxRan] /\ cpucounter'[p] = cpucounter[p] + 1
      /\ \A q \in Slot \ {p} : cpucounter'[q] = cpucounter[q]
  BY <1>1, <1>2 DEF SjfInv, TypeOK
<1>4. TypeOK'
  BY <1>1, <1>3 DEF SjfInv, TypeOK
<1>5. OnCpu'
  BY <1>1, OnCpuKept
<1>6. ASSUME NEW q \in Slot \ Callers, state'[q] = "RUNNING"
      PROVE  cpucounter'[q] = ran'[q] /\ ran'[q] < QUANTA
  BY <1>1, <1>3, <1>6 DEF SjfInv, Counters
<1>7. ASSUME NEW q \in Slot PROVE cpucounter'[q] <= MaxRan + ran'[q]
  <2>1. cpucounter[q] <= MaxRan + ran[q]
    BY <1>1 DEF SjfInv, Counters
  <2>2. CASE q = p
    <3>1. ran[q] \in 0 .. MaxRan
      BY DEF SjfInv, TypeOK
    <3> QED  BY <1>1, <1>2, <1>3, <2>2, <3>1
  <2>3. CASE q # p
    BY <1>1, <1>3, <2>1, <2>3
  <2> QED  BY <2>2, <2>3
<1>8. Counters'
  BY <1>1, <1>6, <1>7 DEF Counters
<1> QED  BY <1>4, <1>5, <1>8 DEF SjfInv

\* Who runs, of the processes the timer can interrupt.
LEMMA RunningIs == ASSUME SjfInv, NEW p \in Slot, Running(p) PROVE state[p] = "RUNNING"
  BY Constants DEF Running, SjfInv, OnCpu

\* trap(): the tick is counted in both places, and at the end of the quantum the
\* process is made RUNNABLE with its counter back at zero.
LEMMA TimerStep ==
    ASSUME SjfInv, NEW p \in Slot, Timer(p)
    PROVE  SjfInv'
<1> USE Constants
<1>1. /\ HYBRID /\ Running(p) /\ ran[p] < MaxRan /\ ran' = [ran EXCEPT ![p] = @ + 1]
      /\ UNCHANGED <<pid, pc, nextpid, panicked>>
  BY DEF Timer
<1>2. ran[p] \in 0 .. MaxRan /\ cpucounter[p] \in 0 .. 2 * MaxRan
      /\ cpucounter[p] <= MaxRan + ran[p] /\ state[p] = "RUNNING"
  BY <1>1, RunningIs DEF SjfInv, TypeOK, Counters
<1>3. /\ ran' \in [Slot -> 0 .. MaxRan] /\ ran'[p] = ran[p] + 1
      /\ \A q \in Slot \ {p} : ran'[q] = ran[q]
  <2>1. ran[p] + 1 \in 0 .. MaxRan
    BY <1>1, <1>2
  <2> QED  BY <1>1, <2>1 DEF SjfInv, TypeOK
<1>4. CASE /\ QuantumOver(p) /\ burst' = [burst EXCEPT ![p] = LessQuantum(@)]
           /\ cpucounter' = [cpucounter EXCEPT ![p] = 0] /\ leave(p, "RUNNABLE")
  <2>1. "RUNNABLE" \in States \ {"RUNNING"}
    BY DEF States
  <2>2. /\ OnCpu' /\ state' \in [Slot -> States] /\ cpu' \in [CPU -> Slot \cup {None}]
        /\ state'[p] = "RUNNABLE" /\ \A q \in Slot \ {p} : state'[q] = state[q]
    BY <1>1, <1>4, <2>1, OnCpuLeft
  <2>3. /\ burst' \in [Slot -> Int]
        /\ \A q \in Slot : InBounds(burst'[q])
    BY <1>4, QuantumTaken
  <2>4. /\ cpucounter' \in [Slot -> 0 .. 2 * MaxRan] /\ cpucounter'[p] = 0
        /\ \A q \in Slot \ {p} : cpucounter'[q] = cpucounter[q]
    <3>1. 0 \in 0 .. 2 * MaxRan
      OBVIOUS
    <3> QED  BY <1>4, <3>1 DEF SjfInv, TypeOK
  <2>5. TypeOK'
    BY <1>1, <1>3, <2>2, <2>3, <2>4 DEF SjfInv, TypeOK, InBounds
  <2>6. ASSUME NEW q \in Slot \ Callers, state'[q] = "RUNNING"
        PROVE  cpucounter'[q] = ran'[q] /\ ran'[q] < QUANTA
    <3>1. q # p
      BY <2>2, <2>6
    <3> QED  BY <1>1, <1>3, <2>2, <2>4, <2>6, <3>1 DEF SjfInv, Counters
  <2>7. ASSUME NEW q \in Slot PROVE cpucounter'[q] <= MaxRan + ran'[q]
    <3>1. CASE q = p
      BY <1>2, <1>3, <2>4, <3>1
    <3>2. CASE q # p
      BY <1>1, <1>3, <2>4, <3>2 DEF SjfInv, Counters
    <3> QED  BY <3>1, <3>2
  <2>8. Counters'
    BY <1>1, <2>6, <2>7 DEF Counters
  <2> QED  BY <2>2, <2>5, <2>8 DEF SjfInv
<1>5. CASE /\ ~QuantumOver(p) /\ cpucounter' = [cpucounter EXCEPT ![p] = @ + 1]
           /\ UNCHANGED <<burst, state, cpu>>
  <2>1. cpucounter[p] + 1 \in 0 .. 2 * MaxRan
    BY <1>1, <1>2
  <2>2. /\ cpucounter' \in [Slot -> 0 .. 2 * MaxRan] /\ cpucounter'[p] = cpucounter[p] + 1
        /\ \A q \in Slot \ {p} : cpucounter'[q] = cpucounter[q]
    BY <1>5, <2>1 DEF SjfInv, TypeOK
  <2>3. TypeOK'
    BY <1>1, <1>3, <1>5, <2>2 DEF SjfInv, TypeOK
  <2>4. OnCpu'
    BY <1>5, OnCpuKept
  <2>5. ASSUME NEW q \in Slot \ Callers, state'[q] = "RUNNING"
        PROVE  cpucounter'[q] = ran'[q] /\ ran'[q] < QUANTA
    <3>1. cpucounter[q] = ran[q] /\ ran[q] < QUANTA
      BY <1>1, <1>5, <2>5 DEF SjfInv, Counters
    <3>2. CASE q = p
      <4>1. cpucounter[p] + 1 # QUANTA
        BY <1>5 DEF QuantumOver
      <4> QED  BY <1>2, <1>3, <2>2, <3>1, <3>2, <4>1
    <3>3. CASE q # p
      BY <1>3, <2>2, <3>1, <3>3
    <3> QED  BY <3>2, <3>3
  <2>6. ASSUME NEW q \in Slot PROVE cpucounter'[q] <= MaxRan + ran'[q]
    <3>1. CASE q = p
      BY <1>2, <1>3, <2>2, <3>1
    <3>2. CASE q # p
      BY <1>1, <1>3, <2>2, <3>2 DEF SjfInv, Counters
    <3> QED  BY <3>1, <3>2
  <2>7. Counters'
    BY <1>1, <2>5, <2>6 DEF Counters
  <2> QED  BY <2>3, <2>4, <2>7 DEF SjfInv
<1> QED  BY <1>4, <1>5 DEF Timer

LEMMA Step == ASSUME SjfInv, [Next]_vars PROVE SjfInv'
<1>1. CASE UNCHANGED vars
  BY <1>1 DEF vars, SjfInv, TypeOK, OnCpu, Counters
<1>2. CASE \E c \in CPU : Dispatch(c)
  BY <1>2, DispatchStep
<1>3. ASSUME NEW p \in Slot,
             \/ allocproc(p) \/ fork(p) \/ exit(p) \/ wait(p) \/ sleep(p) \/ wakeup(p)
             \/ set_burst_time(p) \/ yield(p) \/ dec_burstTime(p)
             \/ inc_cpucounter(p) \/ Timer(p)
      PROVE  SjfInv'
  BY <1>3, AllocStep, ForkStep, GiveUpStep, WaitStep, WakeupStep, SetBurstStep, DecStep,
     IncStep, TimerStep
<1> QED  BY <1>1, <1>2, <1>3 DEF Next

-----------------------------------------------------------------------------
(* The theorems.                                                           *)

\* A process is RUNNING exactly while one CPU runs it, no burst time falls further
\* than one quantum below zero on its own, and the hybrid's counter of a process that
\* leaves it alone is the number of ticks since it was dispatched, below QUANTA.
THEOREM Invariant == Spec => []SjfInv
  BY Initially, Step, PTL DEF Spec

\* Only scheduler() puts a process on a CPU, the one its loop chose.
LEMMA ShortestStep ==
    ASSUME SjfInv, [Next]_vars, NEW c \in CPU, cpu[c] = None, cpu'[c] # None,
           NEW q \in Slot, state[q] = "RUNNABLE"
    PROVE  \/ burst[cpu'[c]] < burst[q]
           \/ burst[cpu'[c]] = burst[q] /\ pid[cpu'[c]] <= pid[q]
<1>1. ASSUME NEW p \in Slot, NEW s, leave(p, s) PROVE cpu'[c] = None
  BY <1>1 DEF leave
<1>2. ~ UNCHANGED cpu
  OBVIOUS
<1>3. ASSUME NEW p \in Slot,
             \/ allocproc(p) \/ fork(p) \/ exit(p) \/ wait(p) \/ sleep(p) \/ wakeup(p)
             \/ set_burst_time(p) \/ yield(p) \/ dec_burstTime(p)
             \/ inc_cpucounter(p) \/ Timer(p)
      PROVE  FALSE
  BY <1>1, <1>2, <1>3
     DEF allocproc, fork, exit, wait, sleep, wakeup, set_burst_time, yield, dec_burstTime,
         inc_cpucounter, Timer
<1>4. PICK d \in CPU : Dispatch(d)
  BY <1>2, <1>3 DEF Next, vars
<1> DEFINE a == Chosen
<1>5. ~a.fault /\ a.low # None /\ cpu' = [cpu EXCEPT ![d] = a.low]
  BY <1>2, <1>4 DEF Dispatch
<1>6. d = c /\ cpu'[c] = a.low
  BY <1>5 DEF SjfInv, TypeOK
<1>7. Found(a, NPROC)
  BY ChosenIsShortest DEF SjfInv
<1> HIDE DEF a
<1>8. a.fault = FALSE
  BY <1>5, <1>7 DEF Found, Outcome
<1>9. q \in 1 .. NPROC
  BY Constants
<1>10. burst[a.low] = a.min /\ (a.min < burst[q] \/ (a.min = burst[q] /\ pid[a.low] <= pid[q]))
  BY <1>5, <1>7, <1>8, <1>9 DEF Found
<1> QED  BY <1>6, <1>10

\* scheduler() of g17 and of the hybrid: whoever is put on a CPU has the smallest
\* burst time of the RUNNABLE processes, and the smallest pid among its equals.
THEOREM ShortestTheorem == Spec => ShortestFirst
<1>1. ASSUME SjfInv, [Next]_vars
      PROVE  [\A c \in CPU : cpu[c] = None /\ cpu'[c] # None =>
                \A q \in Slot : state[q] = "RUNNABLE" =>
                  \/ burst[cpu'[c]] < burst[q]
                  \/ burst[cpu'[c]] = burst[q] /\ pid[cpu'[c]] <= pid[q]]_vars
  BY <1>1, ShortestStep
<1> QED  BY <1>1, Invariant, PTL DEF Spec, ShortestFirst

\* Only a tick raises ran, and it ends the turn exactly at the QUANTA-th.
LEMMA QuantumStep ==
    ASSUME SjfInv, [Next]_vars, NEW p \in Slot \ Callers, state[p] = "RUNNING",
           ran'[p] > ran[p]
    PROVE  state'[p] = "RUNNABLE" <=> ran'[p] = QUANTA
<1> USE Constants
<1>1. ran[p] \in Nat /\ ran'[p] # ran[p]
  BY DEF SjfInv, TypeOK
<1>2. ASSUME NEW c \in CPU, Dispatch(c) PROVE FALSE
  <2>1. ran' = [ran EXCEPT ![Chosen.low] = 0]
    BY <1>1, <1>2 DEF Dispatch
  <2>2. ran'[p] = ran[p] \/ ran'[p] = 0
    BY <2>1 DEF SjfInv, TypeOK
  <2> QED  BY <1>1, <2>2
<1>3. PICK q \in Slot : Timer(q)
  BY <1>1, <1>2
     DEF Next, vars, kept, allocproc, fork, exit, wait, sleep, wakeup, set_burst_time, yield,
         dec_burstTime, inc_cpucounter
<1>4. HYBRID /\ Running(q) /\ ran' = [ran EXCEPT ![q] = @ + 1]
  BY <1>3 DEF Timer
<1>5. q = p /\ ran'[p] = ran[p] + 1
  BY <1>1, <1>4 DEF SjfInv, TypeOK
<1>6. cpucounter[p] = ran[p]
  BY <1>4 DEF SjfInv, Counters
<1>7. QuantumOver(p) <=> ran'[p] = QUANTA
  BY <1>5, <1>6 DEF QuantumOver
<1>8. CASE QuantumOver(p)
  <2>1. leave(p, "RUNNABLE")
    BY <1>3, <1>5, <1>8 DEF Timer
  <2>2. state'[p] = "RUNNABLE"
    BY <2>1 DEF leave, SjfInv, TypeOK
  <2> QED  BY <1>7, <1>8, <2>2
<1>9. CASE ~QuantumOver(p)
  <2>1. state' = state
    BY <1>3, <1>5, <1>9 DEF Timer
  <2> QED  BY <1>7, <1>9, <2>1
<1> QED  BY <1>8, <1>9

\* trap() of the hybrid: a process that leaves its own counter alone is taken off the
\* CPU at its QUANTA-th tick since it was dispatched, and at no other.
THEOREM QuantumTheorem == Spec => FullQuantum
<1>1. ASSUME SjfInv, [Next]_vars
      PROVE  [\A p \in Slot \ Callers :
                state[p] = "RUNNING" /\ ran'[p] > ran[p]
                  => (state'[p] = "RUNNABLE" <=> ran'[p] = QUANTA)]_vars
  BY <1>1, QuantumStep
<1> QED  BY <1>1, Invariant, PTL DEF Spec, FullQuantum
==============================================================================
