-------------------------------- MODULE Sjf --------------------------------
(***************************************************************************)
(* The shortest-job-first scheduler of Assignment 2 (g17) and the hybrid   *)
(* one built on it (g17hybrid, HYBRID = TRUE), which also takes the CPU    *)
(* back every QUANTA timer ticks.                                          *)
(*                                                                         *)
(* Every section the code runs under ptable.lock is one action.  The timer *)
(* handler takes the lock three times (inc_cpucounter, dec_burstTime,      *)
(* yield) but with interrupts off and the process still RUNNING, so no     *)
(* other CPU reads in between what it writes: it is one action as well.    *)
(* Who waits for whom, kill() and the kernel stacks are those of module    *)
(* ProcTable and are left out: here any process may reap any zombie.       *)
(***************************************************************************)
EXTENDS Integers

CONSTANTS NPROC,    \* slots of the process table
          CPU,      \* the CPUs
          HYBRID,   \* g17hybrid (TRUE) or g17 (FALSE)
          QUANTA,   \* timer ticks a process of the hybrid scheduler gets
          INTMAX,   \* __INT_MAX__
          Bursts,   \* the arguments of set_burst_time
          Callers,  \* slots whose programs call inc_cpucounter, dec_burstTime
          MaxPid,   \* bound on the number of forks
          MaxRan    \* bound on the ticks counted by ran

Slot == 1 .. NPROC
None == 0
States == {"UNUSED", "EMBRYO", "SLEEPING", "RUNNABLE", "RUNNING", "ZOMBIE"}

ASSUME SjfAssumption ==
  /\ NPROC \in Nat \ {0} /\ QUANTA \in Nat \ {0} /\ HYBRID \in BOOLEAN
  /\ INTMAX \in Nat \ {0} /\ Bursts \subseteq Int
  /\ \A b \in Bursts : b <= INTMAX
  /\ Callers \subseteq Slot
  /\ MaxPid \in Nat \ {0} /\ MaxRan \in Nat

VARIABLES state,      \* p->state
          pid,        \* p->pid
          burst,      \* p->burst_time
          cpucounter, \* p->cpucounter
          pc,         \* where the process is: user code, or inside a call
          cpu,        \* c->proc, None in the scheduler loop
          nextpid,
          panicked,   \* the kernel has died of a fault of its own
          ran         \* history: timer ticks taken since the last dispatch

vars == <<state, pid, burst, cpucounter, pc, cpu, nextpid, panicked, ran>>
kept == <<pid, burst, cpucounter, nextpid, panicked, ran>>

Up == ~panicked
Running(p) == Up /\ \E c \in CPU : cpu[c] = p
User(p) == Running(p) /\ pc[p] = "user"

Init ==
  /\ state = [p \in Slot |-> IF p = 1 THEN "RUNNABLE" ELSE "UNUSED"]
  /\ pid = [p \in Slot |-> IF p = 1 THEN 1 ELSE 0]
  /\ burst = [p \in Slot |-> 0]
  /\ cpucounter = [p \in Slot |-> 0]
  /\ pc = [p \in Slot |-> "user"]
  /\ cpu = [c \in CPU |-> None]
  /\ nextpid = 2
  /\ panicked = FALSE
  /\ ran = [p \in Slot |-> 0]

\* p enters sched(): its CPU is back in the scheduler loop.
leave(p, s) ==
  /\ state' = [state EXCEPT ![p] = s]
  /\ cpu' = [c \in CPU |-> IF cpu[c] = p THEN None ELSE cpu[c]]

-----------------------------------------------------------------------------
(***************************************************************************)
(* The selection loop.  low is lowest_bt, min is currentMin; fault says    *)
(* that lowest_bt->pid was read while lowest_bt was still null.            *)
(***************************************************************************)
Better(p, a) == burst[p] < a.min

\* What the else-if would be without its comparison of pids.
TieBreak_none(p, a) == FALSE
TieBreak(p, a) == burst[p] = a.min /\ pid[p] < pid[a.low]

Examine(a, p) ==
  IF state[p] # "RUNNABLE" \/ a.fault THEN a
  ELSE IF Better(p, a) THEN [low |-> p, min |-> burst[p], fault |-> FALSE]
  ELSE IF a.low = None THEN [a EXCEPT !.fault = TRUE]
  ELSE IF TieBreak(p, a) THEN [a EXCEPT !.low = p]
  ELSE a

\* What the loop has found in the first n slots.
Scan[n \in 0 .. NPROC] ==
  IF n = 0 THEN [low |-> None, min |-> INTMAX, fault |-> FALSE]
  ELSE Examine(Scan[n - 1], n)

Chosen == Scan[NPROC]

\* The hybrid's scheduler() without its line 412.
CounterAtDispatch_kept(p) == cpucounter[p]
CounterAtDispatch(p) == IF HYBRID THEN 0 ELSE cpucounter[p]

Dispatch(c) ==
  /\ Up /\ cpu[c] = None
  /\ LET a == Chosen IN
     \/ /\ a.fault
        /\ panicked' = TRUE
        /\ UNCHANGED <<state, cpu, cpucounter, ran>>
     \/ /\ ~a.fault /\ a.low # None
        /\ state' = [state EXCEPT ![a.low] = "RUNNING"]
        /\ cpu' = [cpu EXCEPT ![c] = a.low]
        /\ cpucounter' = [cpucounter EXCEPT ![a.low] = CounterAtDispatch(a.low)]
        /\ ran' = [ran EXCEPT ![a.low] = 0]
        /\ UNCHANGED panicked
  /\ UNCHANGED <<pid, burst, pc, nextpid>>

-----------------------------------------------------------------------------
(***************************************************************************)
(* The life of a process.                                                  *)
(***************************************************************************)
\* allocproc() takes the first UNUSED slot; cpucounter keeps its old value.
allocproc(p) ==
  /\ User(p) /\ nextpid <= MaxPid
  /\ \E q \in Slot :
       /\ state[q] = "UNUSED" /\ \A r \in 1 .. q - 1 : state[r] # "UNUSED"
       /\ state' = [state EXCEPT ![q] = "EMBRYO"]
       /\ pid' = [pid EXCEPT ![q] = nextpid]
       /\ burst' = [burst EXCEPT ![q] = 0]
       /\ pc' = [pc EXCEPT ![p] = "fork", ![q] = "user"]
  /\ nextpid' = nextpid + 1
  /\ UNCHANGED <<cpucounter, cpu, panicked, ran>>

\* The rest of fork(): the child becomes RUNNABLE, or no memory is left for
\* its stack or its address space and the slot goes back with its pid in it.
fork(p) ==
  /\ Running(p) /\ pc[p] = "fork"
  /\ \E q \in Slot, s \in {"RUNNABLE", "UNUSED"} :
       /\ state[q] = "EMBRYO" /\ state' = [state EXCEPT ![q] = s]
  /\ pc' = [pc EXCEPT ![p] = "user"]
  /\ UNCHANGED <<cpu, kept>>

\* exit() of a process other than init, which panics there.
exit(p) ==
  /\ User(p) /\ p # 1
  /\ leave(p, "ZOMBIE")
  /\ UNCHANGED <<pc, kept>>

\* wait() finds a zombie: its slot is free and its pid cleared.
wait(p) ==
  /\ User(p)
  /\ \E z \in Slot : /\ state[z] = "ZOMBIE"
                     /\ state' = [state EXCEPT ![z] = "UNUSED"]
                     /\ pid' = [pid EXCEPT ![z] = 0]
  /\ UNCHANGED <<burst, cpucounter, pc, cpu, nextpid, panicked, ran>>

\* Any call that blocks, and the interrupt or process that ends the sleep.
sleep(p) == User(p) /\ leave(p, "SLEEPING") /\ UNCHANGED <<pc, kept>>
wakeup(p) == /\ Up /\ state[p] = "SLEEPING"
             /\ state' = [state EXCEPT ![p] = "RUNNABLE"]
             /\ UNCHANGED <<pc, cpu, kept>>

-----------------------------------------------------------------------------
(***************************************************************************)
(* Burst times and the timer.                                              *)
(***************************************************************************)
set_burst_time(p) ==
  /\ User(p)
  /\ \E bt \in Bursts : burst' = [burst EXCEPT ![p] = bt]
  /\ pc' = [pc EXCEPT ![p] = "yield"]
  /\ UNCHANGED <<state, pid, cpucounter, cpu, nextpid, panicked, ran>>

\* Its yield(), after the lock was let go: the timer may have come before.
yield(p) ==
  /\ Running(p) /\ pc[p] = "yield"
  /\ leave(p, "RUNNABLE")
  /\ pc' = [pc EXCEPT ![p] = "user"]
  /\ UNCHANGED kept

LessQuantum(b) == IF b < 0 THEN -1 ELSE b - QUANTA

dec_burstTime(p) ==
  /\ HYBRID /\ User(p) /\ p \in Callers
  /\ burst' = [burst EXCEPT ![p] = LessQuantum(@)]
  /\ UNCHANGED <<state, pid, cpucounter, pc, cpu, nextpid, panicked, ran>>

inc_cpucounter(p) ==
  /\ HYBRID /\ User(p) /\ p \in Callers /\ cpucounter[p] < MaxRan
  /\ cpucounter' = [cpucounter EXCEPT ![p] = @ + 1]
  /\ UNCHANGED <<state, pid, burst, pc, cpu, nextpid, panicked, ran>>

QuantumOver(p) == cpucounter[p] + 1 = QUANTA

\* A timer interrupt on the CPU of p.  g17 has the yield commented out.
Timer(p) ==
  /\ HYBRID /\ Running(p) /\ ran[p] < MaxRan
  /\ ran' = [ran EXCEPT ![p] = @ + 1]
  /\ \/ /\ QuantumOver(p)
        /\ burst' = [burst EXCEPT ![p] = LessQuantum(@)]
        /\ cpucounter' = [cpucounter EXCEPT ![p] = 0]
        /\ leave(p, "RUNNABLE")
     \/ /\ ~QuantumOver(p)
        /\ cpucounter' = [cpucounter EXCEPT ![p] = @ + 1]
        /\ UNCHANGED <<burst, state, cpu>>
  /\ UNCHANGED <<pid, pc, nextpid, panicked>>

Next ==
  \/ \E c \in CPU : Dispatch(c)
  \/ \E p \in Slot :
       \/ allocproc(p) \/ fork(p) \/ exit(p) \/ wait(p) \/ sleep(p) \/ wakeup(p)
       \/ set_burst_time(p) \/ yield(p) \/ dec_burstTime(p)
       \/ inc_cpucounter(p) \/ Timer(p)

Spec == Init /\ [][Next]_vars

-----------------------------------------------------------------------------
(***************************************************************************)
(* Properties.                                                             *)
(***************************************************************************)
\* Types.  A burst time never falls below one quantum under zero, whatever
\* dec_burstTime() and the timer do, unless a program asked for less.
TypeOK ==
  /\ state \in [Slot -> States] /\ pid \in [Slot -> 0 .. MaxPid]
  /\ burst \in [Slot -> Int]
  /\ \A p \in Slot : /\ burst[p] <= INTMAX
                     /\ burst[p] >= -QUANTA \/ burst[p] \in Bursts
  /\ cpucounter \in [Slot -> 0 .. 2 * MaxRan]
  /\ pc \in [Slot -> {"user", "fork", "yield"}]
  /\ cpu \in [CPU -> Slot \cup {None}]
  /\ nextpid \in 1 .. MaxPid + 1 /\ panicked \in BOOLEAN
  /\ ran \in [Slot -> 0 .. MaxRan]

\* A process is RUNNING exactly on a CPU, and on one.
OnCpu ==
  /\ \A c \in CPU : cpu[c] # None => state[cpu[c]] = "RUNNING"
  /\ \A c, d \in CPU : cpu[c] = cpu[d] /\ c # d => cpu[c] = None
  /\ \A p \in Slot : state[p] = "RUNNING" => \E c \in CPU : cpu[c] = p

\* The counter of a process that leaves it alone is the number of ticks since it
\* was dispatched; the counter of any other is at most MaxRan more.
Counters ==
  /\ HYBRID => \A p \in Slot \ Callers :
        state[p] = "RUNNING" => cpucounter[p] = ran[p] /\ ran[p] < QUANTA
  /\ \A p \in Slot : cpucounter[p] <= IF HYBRID THEN MaxRan + ran[p] ELSE 0

SjfInv == TypeOK /\ OnCpu /\ Counters

\* scheduler() scans slots, whose order has nothing to do with the order of
\* the pids once slots are reused: the process it runs has the smallest burst
\* time of the runnable ones, and the smallest pid among its equals.
ShortestFirst ==
  [][\A c \in CPU : cpu[c] = None /\ cpu'[c] # None =>
       \A q \in Slot : state[q] = "RUNNABLE" =>
         \/ burst[cpu'[c]] < burst[q]
         \/ burst[cpu'[c]] = burst[q] /\ pid[cpu'[c]] <= pid[q]]_vars

\* A process that leaves its own counter alone loses the CPU to the timer at
\* its QUANTA-th tick since it was dispatched, no sooner and no later, even when
\* it gave the CPU up part way through its last turn, by sleep() or by
\* set_burst_time(), or another died there.
FullQuantum ==
  [][\A p \in Slot \ Callers :
       state[p] = "RUNNING" /\ ran'[p] > ran[p]
         => (state'[p] = "RUNNABLE" <=> ran'[p] = QUANTA)]_vars

\* trap.c:103, "Force process to give up CPU on clock tick": the same of a process
\* that calls inc_cpucounter() itself.
CpuGivenUp == \A p \in Slot : Running(p) => ran[p] < QUANTA

\* proc.c:387, "CPU burst times are between 1 and 20": the scheduler relies on
\* currentMin starting above every burst time and never faults.
SchedulerSafe == ~panicked

\* getMaxPid() takes the maximum over all slots, the unused ones included.
getMaxPid == CHOOSE m \in {pid[p] : p \in Slot} : \A p \in Slot : pid[p] <= m

\* sysproc.c:93, "get max PID amongst the PIDs of all currently active
\* processes in the system".
MaxPidActive == \E p \in Slot : state[p] # "UNUSED" /\ pid[p] = getMaxPid
=============================================================================
