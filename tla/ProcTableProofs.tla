-------------------------- MODULE ProcTableProofs --------------------------
(***************************************************************************)
(* SafeInv is an inductive invariant of the process table, for every       *)
(* number of slots and CPUs; the type invariant, StackInUse, OneCpuEach    *)
(* and OnlyInitPanics follow from it.  Then the calls that put a process   *)
(* to sleep: FamilyInv is inductive on top of SafeInv, so no child is left *)
(* without a parent and wait() misses no child's exit(); SleepInv is too,  *)
(* so sys_sleep() misses no tick and does not return early.                *)
(***************************************************************************)
EXTENDS ProcTable, TLAPS

LEMMA Constants ==
  /\ NoCpu \notin CPU /\ NoProc \notin Slot
  /\ initproc \in Slot /\ Slot \subseteq Nat
  /\ ticks \in 0 .. TickMod - 1 => TickPlusOne \in 0 .. TickMod - 1
  /\ 0 \in 0 .. TickMod - 1 /\ 0 \in 0 .. TickMod
  /\ \A n \in 0 .. TickMod : n < TickMod => n + 1 \in 0 .. TickMod
  BY ConstantsAssumption DEF NoCpu, CPU, NoProc, Slot, initproc, TickPlusOne

LEMMA TypeStep == TypeOK /\ [Next]_vars => TypeOK'
<1> SUFFICES ASSUME TypeOK, [Next]_vars PROVE TypeOK'
  OBVIOUS
<1> USE Constants, ConstantsAssumption DEF TypeOK, CpuMode, Irq, ProcState,
     Context, PC, InSleep
<1>1. ASSUME NEW c \in CPU, SchedulerStart(c) PROVE TypeOK'
  BY <1>1 DEF SchedulerStart, Dispatch, cpuvars, procvars, codevars
<1>2. ASSUME NEW c \in CPU, SchedulerNext(c) PROVE TypeOK'
  BY <1>2 DEF SchedulerNext, Dispatch, cpuvars, procvars, codevars
<1>3. ASSUME NEW c \in CPU, SchedulerEnd(c) PROVE TypeOK'
  BY <1>3 DEF SchedulerEnd, cpuvars, procvars, codevars
<1>4. ASSUME NEW c \in CPU, Resume(c) PROVE TypeOK'
  BY <1>4 DEF Resume, cpuvars, procvars, codevars
<1>5. ASSUME NEW c \in CPU, TimerInterrupt(c) PROVE TypeOK'
  <2>1. slept' \in [Slot -> 0 .. TickMod] /\ ticks' \in 0 .. TickMod - 1
    BY <1>5 DEF TimerInterrupt
  <2> QED
    BY <1>5, <2>1 DEF TimerInterrupt, cpuvars, procvars, codevars
<1>6. ASSUME NEW c \in CPU, TimerWakeup(c) PROVE TypeOK'
  BY <1>6 DEF TimerWakeup, wakeup1, cpuvars, procvars, codevars
<1>7. ASSUME NEW c \in CPU, TimerKilled(c) PROVE TypeOK'
  BY <1>7 DEF TimerKilled, cpuvars, procvars, codevars
<1>8. ASSUME NEW c \in CPU, TimerYield(c) PROVE TypeOK'
  BY <1>8 DEF TimerYield, sched, cpuvars, procvars, codevars
<1>9. ASSUME NEW c \in CPU, Syscall(c) PROVE TypeOK'
  BY <1>9 DEF Syscall, OwnStep, Runs, goto, cpuvars, procvars, codevars
<1>10. ASSUME NEW c \in CPU, Fault(c) PROVE TypeOK'
  BY <1>10 DEF Fault, OwnStep, Runs, goto, cpuvars, procvars, codevars
<1>11. ASSUME NEW c \in CPU, TrapReturn(c) PROVE TypeOK'
  BY <1>11 DEF TrapReturn, OwnStep, Runs, goto, cpuvars, procvars, codevars
<1>12. ASSUME NEW c \in CPU, allocproc(c) PROVE TypeOK'
  BY <1>12 DEF allocproc, OwnStep, Runs, goto, NewPid, cpuvars, procvars,
       codevars
<1>13. ASSUME NEW c \in CPU, ForkKalloc(c) PROVE TypeOK'
  BY <1>13 DEF ForkKalloc, OwnStep, Runs, goto, cpuvars, procvars, codevars
<1>14. ASSUME NEW c \in CPU, ForkCopy(c) PROVE TypeOK'
  <2>1. pc' \in [Slot -> PC]
    BY <1>14 DEF ForkCopy, goto
  <2>3. state' \in [Slot -> ProcState]
    BY <1>14 DEF ForkCopy
  <2>4. kstack' \in [Slot -> BOOLEAN]
    BY <1>14 DEF ForkCopy
  <2>5. pgdir' \in [Slot -> BOOLEAN]
    <3>1. \/ pgdir' = [pgdir EXCEPT ![arg[cproc[c]]] = TRUE]
          \/ pgdir' = [pgdir EXCEPT ![arg[cproc[c]]] = FALSE]
      BY <1>14 DEF ForkCopy
    <3> QED
      BY <3>1
  <2>2. parent' \in [Slot -> Slot \cup {NoProc}]
    BY <1>14 DEF ForkCopy
  <2> QED
    BY <1>14, <2>1, <2>2, <2>3, <2>4, <2>5 DEF ForkCopy, OwnStep, cpuvars,
         procvars, codevars
<1>15. ASSUME NEW c \in CPU, ForkRunnable(c) PROVE TypeOK'
  BY <1>15 DEF ForkRunnable, OwnStep, Runs, goto, cpuvars, procvars, codevars
<1>16. ASSUME NEW c \in CPU, exit(c) PROVE TypeOK'
  BY <1>16 DEF exit, OwnStep, Runs, sched, wakeup1, Orphans, cpuvars, procvars,
       codevars
<1>17. ASSUME NEW c \in CPU, InitExiting(c) PROVE TypeOK'
  BY <1>17 DEF InitExiting, OwnStep, Runs, cpuvars, procvars, codevars
<1>18. ASSUME NEW c \in CPU, Panicked(c) PROVE TypeOK'
  BY <1>18 DEF Panicked, vars, cpuvars, procvars, codevars
<1>19. ASSUME NEW c \in CPU, WaitReap(c) PROVE TypeOK'
  <2>1. /\ state' \in [Slot -> ProcState] /\ killed' \in [Slot -> BOOLEAN]
        /\ kstack' \in [Slot -> BOOLEAN] /\ pgdir' \in [Slot -> BOOLEAN]
    BY <1>19 DEF WaitReap
  <2>2. pid' \in [Slot -> Nat]
    <3>1. PICK z \in ZombieChildren(cproc[c]) : pid' = [pid EXCEPT ![z] = 0]
      BY <1>19 DEF WaitReap
    <3> QED
      BY <3>1
  <2>3. parent' \in [Slot -> Slot \cup {NoProc}]
    BY <1>19 DEF WaitReap
  <2> QED
    BY <1>19, <2>1, <2>2, <2>3 DEF WaitReap, OwnStep, goto, cpuvars, procvars,
         codevars
<1>20. ASSUME NEW c \in CPU, WaitFail(c) PROVE TypeOK'
  BY <1>20 DEF WaitFail, OwnStep, Runs, goto, InWait, cpuvars, procvars,
       codevars
<1>21. ASSUME NEW c \in CPU, WaitSleep(c) PROVE TypeOK'
  BY <1>21 DEF WaitSleep, OwnStep, Runs, goto, InWait, sched, cpuvars,
       procvars, codevars
<1>22. ASSUME NEW c \in CPU, kill(c) PROVE TypeOK'
  <2>1. state' \in [Slot -> ProcState] /\ killed' \in [Slot -> BOOLEAN]
    <3>1. CASE UNCHANGED <<killed, state>>
      BY <3>1
    <3>2. ASSUME NEW s \in Slot,
                 killed' = [killed EXCEPT ![s] = TRUE],
                 state' = [state EXCEPT ![s] = KilledState(@)]
          PROVE  /\ state' \in [Slot -> ProcState]
                 /\ killed' \in [Slot -> BOOLEAN]
      BY <3>2 DEF KilledState
    <3> QED
      BY <1>22, <3>1, <3>2 DEF kill
  <2> QED
    BY <1>22, <2>1 DEF kill, OwnStep, goto, cpuvars, procvars, codevars
<1>23. ASSUME NEW c \in CPU, SleepEnter(c) PROVE TypeOK'
  BY <1>23 DEF SleepEnter, OwnStep, Runs, goto, cpuvars, procvars, codevars
<1>24. ASSUME NEW c \in CPU, SleepCheck(c) PROVE TypeOK'
  BY <1>24 DEF SleepCheck, OwnStep, Runs, goto, cpuvars, procvars, codevars
<1>25. ASSUME NEW c \in CPU, SleepOnTicks(c) PROVE TypeOK'
  BY <1>25 DEF SleepOnTicks, OwnStep, Runs, sched, cpuvars, procvars, codevars
<1>26. ASSUME NEW c \in CPU, SleepRelock(c) PROVE TypeOK'
  BY <1>26 DEF SleepRelock, OwnStep, Runs, goto, cpuvars, procvars, codevars
<1>27. CASE UNCHANGED vars
  BY <1>27 DEF vars, cpuvars, procvars, codevars
<1>99. QED
  BY <1>1, <1>2, <1>3, <1>4, <1>5, <1>6, <1>7, <1>8, <1>9, <1>10, <1>11, <1>12,
       <1>13, <1>14, <1>15, <1>16, <1>17, <1>18, <1>19, <1>20, <1>21, <1>22,
       <1>23, <1>24, <1>25, <1>26, <1>27 DEF Next, SchedulerStep, TrapStep,
       ForkStep, CallStep

LEMMA SchedulerStartSafe ==
  ASSUME SafeInv, TypeOK', NEW c \in CPU, SchedulerStart(c)
  PROVE  SafeInv'
<1> USE Constants DEF SafeInv, TypeOK, SchedulerStart, Dispatch, cpuvars,
     procvars, codevars
<1>1. HandoverInv'
  BY DEF HandoverInv
<1>2. CpuInv'
  BY DEF CpuInv
<1>3. OnCpuInv'
  BY DEF OnCpuInv, HandoverInv, RunInv
<1>4. RunInv'
  BY DEF RunInv, OnCpuInv, HandoverInv, ForkInv
<1>5. RunningInv'
  BY DEF RunningInv, CpuInv
<1>6. ForkInv'
  BY DEF ForkInv, EmbryoInv, RunInv, ForkPC
<1>7. StackInv'
  BY DEF StackInv, ForkInv, Live, ForkPC
<1>8. OnlyInitPanics'
  BY DEF OnlyInitPanics, StackInv, OnCpuInv, RunInv, ForkInv, ForkPC, Live
<1>9. EmbryoInv'
  BY DEF EmbryoInv
<1> QED
  BY <1>1, <1>2, <1>3, <1>4, <1>5, <1>6, <1>7, <1>8, <1>9

LEMMA SchedulerNextSafe ==
  ASSUME SafeInv, TypeOK', NEW c \in CPU, SchedulerNext(c)
  PROVE  SafeInv'
<1> USE Constants DEF SafeInv, TypeOK, SchedulerNext, Dispatch, cpuvars,
     procvars, codevars
<1>1. cproc[c] \in Slot /\ state[cproc[c]] # "RUNNING"
  BY DEF CpuInv, RunInv
<1>2. HandoverInv'
  BY <1>1 DEF HandoverInv
<1>3. CpuInv'
  BY <1>1 DEF CpuInv
<1>4. OnCpuInv'
  BY <1>1 DEF OnCpuInv, HandoverInv, RunInv
<1>5. RunInv'
  BY <1>1 DEF RunInv, OnCpuInv, HandoverInv, ForkInv
<1>6. RunningInv'
  BY <1>1 DEF RunningInv, RunInv, OnCpuInv, HandoverInv
<1>7. ForkInv'
  BY <1>1 DEF ForkInv, EmbryoInv, RunInv, ForkPC
<1>8. StackInv'
  BY <1>1 DEF StackInv, Live
<1>9. OnlyInitPanics'
  BY <1>1 DEF OnlyInitPanics, StackInv, OnCpuInv, RunInv, ForkInv, ForkPC, Live
<1>10. EmbryoInv'
  BY DEF EmbryoInv
<1> QED
  BY <1>1, <1>2, <1>3, <1>4, <1>5, <1>6, <1>7, <1>8, <1>9, <1>10

LEMMA SchedulerEndSafe ==
  ASSUME SafeInv, TypeOK', NEW c \in CPU, SchedulerEnd(c)
  PROVE  SafeInv'
<1> USE Constants DEF SafeInv, TypeOK, SchedulerEnd, cpuvars, procvars,
     codevars
<1>1. cproc[c] \in Slot /\ state[cproc[c]] # "RUNNING"
  BY DEF CpuInv, RunInv
<1>2. HandoverInv'
  BY <1>1 DEF HandoverInv
<1>3. CpuInv'
  BY <1>1 DEF CpuInv
<1>4. OnCpuInv'
  BY <1>1 DEF OnCpuInv, HandoverInv, RunInv
<1>5. RunInv'
  BY <1>1 DEF RunInv, OnCpuInv, HandoverInv, ForkInv
<1>6. RunningInv'
  BY <1>1 DEF RunningInv, RunInv, OnCpuInv, HandoverInv
<1>7. OnlyInitPanics'
  BY <1>1 DEF OnlyInitPanics, StackInv, OnCpuInv, RunInv, ForkInv, ForkPC, Live
<1>8. (ForkInv /\ EmbryoInv /\ StackInv)'
  BY DEF ForkInv, EmbryoInv, StackInv
<1> QED
  BY <1>1, <1>2, <1>3, <1>4, <1>5, <1>6, <1>7, <1>8

LEMMA ResumeSafe ==
  ASSUME SafeInv, TypeOK', NEW c \in CPU, Resume(c)
  PROVE  SafeInv'
<1> USE Constants DEF SafeInv, TypeOK, Resume, cpuvars, procvars, codevars
<1>1. cproc[c] \in Slot /\ state[cproc[c]] = "RUNNING"
  BY DEF CpuInv, RunInv
<1>2. HandoverInv'
  BY <1>1 DEF HandoverInv
<1>3. CpuInv'
  BY <1>1 DEF CpuInv
<1>4. RunInv'
  BY <1>1 DEF RunInv, OnCpuInv, HandoverInv, ForkInv
<1>5. RunningInv'
  BY <1>1 DEF RunningInv, RunInv, OnCpuInv, HandoverInv
<1>6. ForkInv'
  BY <1>1 DEF ForkInv, EmbryoInv, RunInv, ForkPC
<1>7. EmbryoInv'
  BY <1>1 DEF EmbryoInv, ForkInv, ForkPC
<1>8. OnlyInitPanics'
  BY <1>1 DEF OnlyInitPanics, StackInv, OnCpuInv, RunInv, ForkInv, ForkPC, Live
<1>9. (OnCpuInv /\ StackInv)'
  BY DEF OnCpuInv, StackInv
<1> QED
  BY <1>1, <1>2, <1>3, <1>4, <1>5, <1>6, <1>7, <1>8, <1>9

LEMMA TimerInterruptSafe ==
  ASSUME SafeInv, TypeOK', NEW c \in CPU, TimerInterrupt(c)
  PROVE  SafeInv'
<1> USE Constants DEF SafeInv, TypeOK, TimerInterrupt, IF_on, TickPlusOne,
     cpuvars, procvars, codevars
<1>1. CpuInv'
  BY DEF CpuInv
<1>2. (HandoverInv /\ OnCpuInv /\ RunInv /\ RunningInv /\ ForkInv /\ EmbryoInv
     /\ StackInv /\ OnlyInitPanics)'
  BY DEF HandoverInv, OnCpuInv, RunInv, RunningInv, ForkInv, EmbryoInv,
       StackInv, OnlyInitPanics
<1> QED
  BY <1>1, <1>2

LEMMA TimerWakeupSafe ==
  ASSUME SafeInv, TypeOK', NEW c \in CPU, TimerWakeup(c)
  PROVE  SafeInv'
<1> USE Constants DEF SafeInv, TypeOK, TimerWakeup, wakeup1, cpuvars, procvars,
     codevars
<1>1. CpuInv'
  BY DEF CpuInv
<1>2. RunInv'
  BY DEF RunInv, OnCpuInv, HandoverInv, ForkInv
<1>3. RunningInv'
  BY DEF RunningInv, RunInv, OnCpuInv, HandoverInv
<1>4. ForkInv'
  BY DEF ForkInv, EmbryoInv, RunInv, ForkPC
<1>5. StackInv'
  BY DEF StackInv, ForkInv, Live, ForkPC
<1>6. (HandoverInv /\ OnCpuInv /\ EmbryoInv /\ OnlyInitPanics)'
  BY DEF HandoverInv, OnCpuInv, EmbryoInv, OnlyInitPanics
<1> QED
  BY <1>1, <1>2, <1>3, <1>4, <1>5, <1>6

LEMMA TimerKilledSafe ==
  ASSUME SafeInv, TypeOK', NEW c \in CPU, TimerKilled(c)
  PROVE  SafeInv'
<1> USE Constants DEF SafeInv, TypeOK, TimerKilled, cpuvars, procvars, codevars
<1>1. cproc[c] \in Slot /\ state[cproc[c]] = "RUNNING"
  BY DEF CpuInv, RunInv
<1>2. CpuInv'
  BY <1>1 DEF CpuInv
<1>3. ForkInv'
  BY <1>1 DEF ForkInv, EmbryoInv, RunInv, ForkPC
<1>4. EmbryoInv'
  BY <1>1 DEF EmbryoInv, ForkInv, ForkPC
<1>5. OnlyInitPanics'
  BY <1>1 DEF OnlyInitPanics, StackInv, OnCpuInv, RunInv, ForkInv, ForkPC, Live
<1>6. (HandoverInv /\ OnCpuInv /\ RunInv /\ RunningInv /\ StackInv)'
  BY DEF HandoverInv, OnCpuInv, RunInv, RunningInv, StackInv
<1> QED
  BY <1>1, <1>2, <1>3, <1>4, <1>5, <1>6

LEMMA TimerYieldSafe ==
  ASSUME SafeInv, TypeOK', NEW c \in CPU, TimerYield(c)
  PROVE  SafeInv'
<1> USE Constants DEF SafeInv, TypeOK, TimerYield, sched, cpuvars, procvars,
     codevars
<1>1. cproc[c] \in Slot /\ state[cproc[c]] = "RUNNING"
  BY DEF CpuInv, RunInv
<1>2. HandoverInv'
  BY <1>1 DEF HandoverInv
<1>3. CpuInv'
  BY <1>1 DEF CpuInv
<1>4. RunInv'
  BY <1>1 DEF RunInv, OnCpuInv, HandoverInv, ForkInv
<1>5. RunningInv'
  BY <1>1 DEF RunningInv, RunInv, OnCpuInv, HandoverInv
<1>6. ForkInv'
  BY <1>1 DEF ForkInv, EmbryoInv, RunInv, ForkPC
<1>7. StackInv'
  BY <1>1 DEF StackInv, ForkInv, Live, ForkPC
<1>8. OnlyInitPanics'
  BY <1>1 DEF OnlyInitPanics, StackInv, OnCpuInv, RunInv, ForkInv, ForkPC, Live
<1>9. (OnCpuInv /\ EmbryoInv)'
  BY DEF OnCpuInv, EmbryoInv
<1> QED
  BY <1>1, <1>2, <1>3, <1>4, <1>5, <1>6, <1>7, <1>8, <1>9

LEMMA SyscallSafe ==
  ASSUME SafeInv, TypeOK', NEW c \in CPU, Syscall(c)
  PROVE  SafeInv'
<1> USE Constants DEF SafeInv, TypeOK, Syscall, OwnStep, Runs, goto, cpuvars,
     procvars, codevars
<1>1. cproc[c] \in Slot /\ state[cproc[c]] = "RUNNING"
  BY DEF CpuInv, RunInv
<1>2. ForkInv'
  BY <1>1 DEF ForkInv, EmbryoInv, RunInv, ForkPC
<1>3. EmbryoInv'
  BY <1>1 DEF EmbryoInv, ForkInv, ForkPC
<1>4. OnlyInitPanics'
  BY <1>1 DEF OnlyInitPanics, StackInv, OnCpuInv, RunInv, ForkInv, ForkPC, Live
<1>5. (HandoverInv /\ CpuInv /\ OnCpuInv /\ RunInv /\ RunningInv /\ StackInv)'
  BY DEF HandoverInv, CpuInv, OnCpuInv, RunInv, RunningInv, StackInv
<1> QED
  BY <1>1, <1>2, <1>3, <1>4, <1>5

LEMMA FaultSafe ==
  ASSUME SafeInv, TypeOK', NEW c \in CPU, Fault(c)
  PROVE  SafeInv'
<1> USE Constants DEF SafeInv, TypeOK, Fault, OwnStep, Runs, goto, cpuvars,
     procvars, codevars
<1>1. cproc[c] \in Slot /\ state[cproc[c]] = "RUNNING"
  BY DEF CpuInv, RunInv
<1>2. ForkInv'
  BY <1>1 DEF ForkInv, EmbryoInv, RunInv, ForkPC
<1>3. EmbryoInv'
  BY <1>1 DEF EmbryoInv, ForkInv, ForkPC
<1>4. OnlyInitPanics'
  BY <1>1 DEF OnlyInitPanics, StackInv, OnCpuInv, RunInv, ForkInv, ForkPC, Live
<1>5. (HandoverInv /\ CpuInv /\ OnCpuInv /\ RunInv /\ RunningInv /\ StackInv)'
  BY DEF HandoverInv, CpuInv, OnCpuInv, RunInv, RunningInv, StackInv
<1> QED
  BY <1>1, <1>2, <1>3, <1>4, <1>5

LEMMA TrapReturnSafe ==
  ASSUME SafeInv, TypeOK', NEW c \in CPU, TrapReturn(c)
  PROVE  SafeInv'
<1> USE Constants DEF SafeInv, TypeOK, TrapReturn, OwnStep, Runs, goto,
     cpuvars, procvars, codevars
<1>1. cproc[c] \in Slot /\ state[cproc[c]] = "RUNNING"
  BY DEF CpuInv, RunInv
<1>2. ForkInv'
  BY <1>1 DEF ForkInv, EmbryoInv, RunInv, ForkPC
<1>3. EmbryoInv'
  BY <1>1 DEF EmbryoInv, ForkInv, ForkPC
<1>4. OnlyInitPanics'
  BY <1>1 DEF OnlyInitPanics, StackInv, OnCpuInv, RunInv, ForkInv, ForkPC, Live
<1>5. (HandoverInv /\ CpuInv /\ OnCpuInv /\ RunInv /\ RunningInv /\ StackInv)'
  BY DEF HandoverInv, CpuInv, OnCpuInv, RunInv, RunningInv, StackInv
<1> QED
  BY <1>1, <1>2, <1>3, <1>4, <1>5

LEMMA allocprocSafe ==
  ASSUME SafeInv, TypeOK', NEW c \in CPU, allocproc(c)
  PROVE  SafeInv'
<1> USE Constants DEF SafeInv, TypeOK, allocproc, OwnStep, Runs, goto, NewPid,
     cpuvars, procvars, codevars
<1>1. cproc[c] \in Slot /\ state[cproc[c]] = "RUNNING"
  BY DEF CpuInv, RunInv
<1>2. RunInv'
  <2>1. cproc' = cproc /\ cpu' = cpu
    OBVIOUS
  <2>2. ASSUME NEW d \in CPU, cproc[d] # NoProc
        PROVE  state'[cproc[d]] = state[cproc[d]] \/ state[cproc[d]] = "UNUSED"
    BY <2>2
  <2> QED
    BY <2>1, <2>2 DEF RunInv
<1>3. RunningInv'
  BY <1>1 DEF RunningInv, RunInv, OnCpuInv, HandoverInv
<1>4. ForkInv'
  BY <1>1 DEF ForkInv, EmbryoInv, RunInv, ForkPC
<1>5. EmbryoInv'
  BY <1>1 DEF EmbryoInv, ForkInv, ForkPC
<1>6. StackInv'
  BY <1>1 DEF StackInv, ForkInv, Live, ForkPC
<1>7. OnlyInitPanics'
  BY <1>1 DEF OnlyInitPanics, StackInv, OnCpuInv, RunInv, ForkInv, ForkPC, Live
<1>8. (HandoverInv /\ CpuInv /\ OnCpuInv)'
  BY DEF HandoverInv, CpuInv, OnCpuInv
<1> QED
  BY <1>1, <1>2, <1>3, <1>4, <1>5, <1>6, <1>7, <1>8

LEMMA ForkKallocSafe ==
  ASSUME SafeInv, TypeOK', NEW c \in CPU, ForkKalloc(c)
  PROVE  SafeInv'
<1> USE Constants DEF SafeInv, TypeOK, ForkKalloc, OwnStep, Runs, goto,
     cpuvars, procvars, codevars
<1>1. cproc[c] \in Slot /\ state[cproc[c]] = "RUNNING"
  BY DEF CpuInv, RunInv
<1>2. /\ arg[cproc[c]] \in Slot /\ state[arg[cproc[c]]] = "EMBRYO"
      /\ pc[cproc[c]] \in ForkPC
  BY <1>1 DEF ForkInv, ForkPC
<1>3. \A d \in CPU : cproc[d] # arg[cproc[c]]
  BY <1>2 DEF RunInv
<1>4. RunInv'
  <2>1. cproc' = cproc /\ cpu' = cpu
    OBVIOUS
  <2>2. ASSUME NEW d \in CPU, cproc[d] # NoProc
        PROVE  state'[cproc[d]] = state[cproc[d]]
    BY <1>2, <1>3, <2>2
  <2> QED
    BY <2>1, <2>2 DEF RunInv
<1>5. RunningInv'
  BY <1>1, <1>2 DEF RunningInv, RunInv, OnCpuInv, HandoverInv
<1>6. ForkInv'
  <2> SUFFICES ASSUME NEW s \in Slot, (pc[s] \in ForkPC)'
               PROVE  /\ (state[s] \in {"RUNNING", "RUNNABLE"})'
                      /\ (arg[s] \in Slot /\ state[arg[s]] = "EMBRYO")'
                      /\ (pc[s] # "kalloc" => kstack[arg[s]])'
                      /\ (pc[s] = "runnable" => pgdir[arg[s]])'
    BY DEF ForkInv
  <2>1. CASE s = cproc[c]
    BY <1>1, <1>2, <2>1 DEF ForkInv, ForkPC
  <2>2. CASE s # cproc[c]
    <3>1. pc[s] \in ForkPC /\ arg'[s] = arg[s]
      BY <1>1, <1>2, <2>2 DEF ForkPC
    <3>2. arg[s] # arg[cproc[c]]
      BY <1>1, <1>2, <2>2, <3>1 DEF EmbryoInv
    <3> QED
      BY <1>1, <1>2, <2>2, <3>1, <3>2 DEF ForkInv, ForkPC
  <2> QED
    BY <2>1, <2>2
<1>7. EmbryoInv'
  BY <1>1, <1>2 DEF EmbryoInv, ForkInv, ForkPC
<1>8. StackInv'
  BY <1>1, <1>2 DEF StackInv, ForkInv, Live, ForkPC
<1>9. OnlyInitPanics'
  BY <1>1, <1>2 DEF OnlyInitPanics, StackInv, OnCpuInv, RunInv, ForkInv,
       ForkPC, Live
<1>10. (HandoverInv /\ CpuInv /\ OnCpuInv)'
  BY DEF HandoverInv, CpuInv, OnCpuInv
<1> QED
  BY <1>1, <1>2, <1>3, <1>4, <1>5, <1>6, <1>7, <1>8, <1>9, <1>10

LEMMA ForkCopySafe ==
  ASSUME SafeInv, TypeOK', NEW c \in CPU, ForkCopy(c)
  PROVE  SafeInv'
<1> USE Constants DEF SafeInv, TypeOK, ForkCopy, OwnStep, Runs, goto, cpuvars,
     procvars, codevars
<1>1. cproc[c] \in Slot /\ state[cproc[c]] = "RUNNING"
  BY DEF CpuInv, RunInv
<1>2. /\ arg[cproc[c]] \in Slot /\ state[arg[cproc[c]]] = "EMBRYO"
      /\ pc[cproc[c]] \in ForkPC
  BY <1>1 DEF ForkInv, ForkPC
<1>3. \A d \in CPU : cproc[d] # arg[cproc[c]]
  BY <1>2 DEF RunInv
<1>4. RunInv'
  <2>1. cproc' = cproc /\ cpu' = cpu
    OBVIOUS
  <2>2. ASSUME NEW d \in CPU, cproc[d] # NoProc
        PROVE  state'[cproc[d]] = state[cproc[d]]
    BY <1>2, <1>3, <2>2
  <2> QED
    BY <2>1, <2>2 DEF RunInv
<1>5. RunningInv'
  BY <1>1, <1>2 DEF RunningInv, RunInv, OnCpuInv, HandoverInv
<1>6. ForkInv'
  <2> SUFFICES ASSUME NEW s \in Slot, (pc[s] \in ForkPC)'
               PROVE  /\ (state[s] \in {"RUNNING", "RUNNABLE"})'
                      /\ (arg[s] \in Slot /\ state[arg[s]] = "EMBRYO")'
                      /\ (pc[s] # "kalloc" => kstack[arg[s]])'
                      /\ (pc[s] = "runnable" => pgdir[arg[s]])'
    BY DEF ForkInv
  <2>1. CASE s = cproc[c]
    BY <1>1, <1>2, <2>1 DEF ForkInv, ForkPC
  <2>2. CASE s # cproc[c]
    <3>1. pc[s] \in ForkPC /\ arg'[s] = arg[s]
      BY <1>1, <1>2, <2>2 DEF ForkPC
    <3>2. arg[s] # arg[cproc[c]]
      BY <1>1, <1>2, <2>2, <3>1 DEF EmbryoInv
    <3> QED
      BY <1>1, <1>2, <2>2, <3>1, <3>2 DEF ForkInv, ForkPC
  <2> QED
    BY <2>1, <2>2
<1>7. EmbryoInv'
  BY <1>1, <1>2 DEF EmbryoInv, ForkInv, ForkPC
<1>8. StackInv'
  BY <1>1, <1>2 DEF StackInv, ForkInv, Live, ForkPC
<1>9. OnlyInitPanics'
  BY <1>1, <1>2 DEF OnlyInitPanics, StackInv, OnCpuInv, RunInv, ForkInv,
       ForkPC, Live
<1>10. (HandoverInv /\ CpuInv /\ OnCpuInv)'
  BY DEF HandoverInv, CpuInv, OnCpuInv
<1> QED
  BY <1>1, <1>2, <1>3, <1>4, <1>5, <1>6, <1>7, <1>8, <1>9, <1>10

LEMMA ForkRunnableSafe ==
  ASSUME SafeInv, TypeOK', NEW c \in CPU, ForkRunnable(c)
  PROVE  SafeInv'
<1> USE Constants DEF SafeInv, TypeOK, ForkRunnable, OwnStep, Runs, goto,
     cpuvars, procvars, codevars
<1>1. cproc[c] \in Slot /\ state[cproc[c]] = "RUNNING"
  BY DEF CpuInv, RunInv
<1>2. /\ arg[cproc[c]] \in Slot /\ state[arg[cproc[c]]] = "EMBRYO"
      /\ pc[cproc[c]] \in ForkPC
  BY <1>1 DEF ForkInv, ForkPC
<1>3. \A d \in CPU : cproc[d] # arg[cproc[c]]
  BY <1>2 DEF RunInv
<1>4. RunInv'
  <2>1. cproc' = cproc /\ cpu' = cpu
    OBVIOUS
  <2>2. ASSUME NEW d \in CPU, cproc[d] # NoProc
        PROVE  state'[cproc[d]] = state[cproc[d]]
    BY <1>2, <1>3, <2>2
  <2> QED
    BY <2>1, <2>2 DEF RunInv
<1>5. RunningInv'
  BY <1>1, <1>2 DEF RunningInv, RunInv, OnCpuInv, HandoverInv
<1>6. ForkInv'
  <2> SUFFICES ASSUME NEW s \in Slot, (pc[s] \in ForkPC)'
               PROVE  /\ (state[s] \in {"RUNNING", "RUNNABLE"})'
                      /\ (arg[s] \in Slot /\ state[arg[s]] = "EMBRYO")'
                      /\ (pc[s] # "kalloc" => kstack[arg[s]])'
                      /\ (pc[s] = "runnable" => pgdir[arg[s]])'
    BY DEF ForkInv
  <2>1. CASE s = cproc[c]
    BY <1>1, <1>2, <2>1 DEF ForkInv, ForkPC
  <2>2. CASE s # cproc[c]
    <3>1. pc[s] \in ForkPC /\ arg'[s] = arg[s]
      BY <1>1, <1>2, <2>2 DEF ForkPC
    <3>2. arg[s] # arg[cproc[c]]
      BY <1>1, <1>2, <2>2, <3>1 DEF EmbryoInv
    <3> QED
      BY <1>1, <1>2, <2>2, <3>1, <3>2 DEF ForkInv, ForkPC
  <2> QED
    BY <2>1, <2>2
<1>7. EmbryoInv'
  BY <1>1, <1>2 DEF EmbryoInv, ForkInv, ForkPC
<1>8. StackInv'
  <2>1. kstack[arg[cproc[c]]] /\ pgdir[arg[cproc[c]]]
    BY <1>1, <1>2 DEF ForkInv
  <2> QED
    BY <1>1, <1>2, <2>1 DEF StackInv, Live
<1>9. OnlyInitPanics'
  BY <1>1, <1>2 DEF OnlyInitPanics, StackInv, OnCpuInv, RunInv, ForkInv,
       ForkPC, Live
<1>10. (HandoverInv /\ CpuInv /\ OnCpuInv)'
  BY DEF HandoverInv, CpuInv, OnCpuInv
<1> QED
  BY <1>1, <1>2, <1>3, <1>4, <1>5, <1>6, <1>7, <1>8, <1>9, <1>10

LEMMA exitSafe ==
  ASSUME SafeInv, TypeOK', NEW c \in CPU, exit(c)
  PROVE  SafeInv'
<1> USE Constants DEF SafeInv, TypeOK, exit, OwnStep, Runs, sched, wakeup1,
     Orphans, cpuvars, procvars, codevars
<1>1. cproc[c] \in Slot /\ state[cproc[c]] = "RUNNING"
  BY DEF CpuInv, RunInv
<1>2. /\ \A s \in Slot :
            s # cproc[c] /\ state'[s] # state[s] =>
              state[s] = "SLEEPING" /\ state'[s] = "RUNNABLE"
      /\ state'[cproc[c]] = "ZOMBIE"
  BY <1>1 DEF TypeOK
<1>3. HandoverInv'
  BY <1>1, <1>2 DEF HandoverInv
<1>4. CpuInv'
  BY <1>1, <1>2 DEF CpuInv
<1>5. RunInv'
  <2>1. cproc' = cproc /\ cpu'[c] = "scan"
    OBVIOUS
  <2>2. \A d \in CPU : d # c => cpu'[d] = cpu[d] /\ cpu[d] # "scan"
    BY DEF HandoverInv
  <2>3. ASSUME NEW d \in CPU, cproc[d] # NoProc, d # c
        PROVE  state'[cproc[d]] = "RUNNING"
    <3> HIDE DEF exit, sched, wakeup1, Orphans
    <3>1. cproc[d] \in Slot /\ cproc[d] # cproc[c]
      BY <1>1, <2>3 DEF OnCpuInv
    <3>2. state[cproc[d]] = "RUNNING"
      BY <2>2, <2>3 DEF RunInv
    <3> QED
      BY <1>2, <3>1, <3>2
  <2> HIDE DEF exit, sched, wakeup1, Orphans
  <2> QED
    BY <1>1, <1>2, <2>1, <2>2, <2>3 DEF RunInv
<1>6. RunningInv'
  BY <1>1, <1>2 DEF RunningInv, RunInv, OnCpuInv, HandoverInv
<1>7. ForkInv'
  BY <1>1, <1>2 DEF ForkInv, EmbryoInv, RunInv, ForkPC
<1>8. StackInv'
  BY <1>1, <1>2 DEF StackInv, ForkInv, Live, ForkPC
<1>9. OnlyInitPanics'
  BY <1>1, <1>2 DEF OnlyInitPanics, StackInv, OnCpuInv, RunInv, ForkInv,
       ForkPC, Live
<1>10. (OnCpuInv /\ EmbryoInv)'
  BY DEF OnCpuInv, EmbryoInv
<1> QED
  BY <1>1, <1>2, <1>3, <1>4, <1>5, <1>6, <1>7, <1>8, <1>9, <1>10

LEMMA InitExitingSafe ==
  ASSUME SafeInv, TypeOK', NEW c \in CPU, InitExiting(c)
  PROVE  SafeInv'
<1> USE Constants DEF SafeInv, TypeOK, InitExiting, OwnStep, Runs, cpuvars,
     procvars, codevars
<1>1. cproc[c] \in Slot /\ state[cproc[c]] = "RUNNING"
  BY DEF CpuInv, RunInv
<1>2. HandoverInv'
  BY <1>1 DEF HandoverInv
<1>3. CpuInv'
  BY <1>1 DEF CpuInv
<1>4. RunInv'
  BY <1>1 DEF RunInv, OnCpuInv, HandoverInv, ForkInv
<1>5. RunningInv'
  BY <1>1 DEF RunningInv, RunInv, OnCpuInv, HandoverInv
<1>6. OnlyInitPanics'
  BY <1>1 DEF OnlyInitPanics, StackInv, OnCpuInv, RunInv, ForkInv, ForkPC, Live
<1>7. (OnCpuInv /\ ForkInv /\ EmbryoInv /\ StackInv)'
  BY DEF OnCpuInv, ForkInv, EmbryoInv, StackInv
<1> QED
  BY <1>1, <1>2, <1>3, <1>4, <1>5, <1>6, <1>7

LEMMA WaitReapSafe ==
  ASSUME SafeInv, TypeOK', NEW c \in CPU, WaitReap(c)
  PROVE  SafeInv'
<1> USE Constants DEF SafeInv, TypeOK, WaitReap, OwnStep, Runs, goto, InWait,
     ZombieChildren, cpuvars, procvars, codevars
<1>1. cproc[c] \in Slot /\ state[cproc[c]] = "RUNNING"
  BY DEF CpuInv, RunInv
<1>2. HandoverInv'
  BY <1>1 DEF HandoverInv
<1>3. RunInv'
  BY <1>1 DEF RunInv, OnCpuInv, HandoverInv, ForkInv
<1>4. RunningInv'
  BY <1>1 DEF RunningInv, RunInv, OnCpuInv, HandoverInv
<1>5. ForkInv'
  BY <1>1 DEF ForkInv, EmbryoInv, RunInv, ForkPC
<1>6. EmbryoInv'
  BY <1>1 DEF EmbryoInv, ForkInv, ForkPC
<1>7. StackInv'
  BY <1>1 DEF StackInv, ForkInv, Live, ForkPC
<1>8. OnlyInitPanics'
  BY <1>1 DEF OnlyInitPanics, StackInv, OnCpuInv, RunInv, ForkInv, ForkPC, Live
<1>9. (CpuInv /\ OnCpuInv)'
  BY DEF CpuInv, OnCpuInv
<1> QED
  BY <1>1, <1>2, <1>3, <1>4, <1>5, <1>6, <1>7, <1>8, <1>9

LEMMA WaitFailSafe ==
  ASSUME SafeInv, TypeOK', NEW c \in CPU, WaitFail(c)
  PROVE  SafeInv'
<1> USE Constants DEF SafeInv, TypeOK, WaitFail, OwnStep, Runs, goto, InWait,
     cpuvars, procvars, codevars
<1>1. cproc[c] \in Slot /\ state[cproc[c]] = "RUNNING"
  BY DEF CpuInv, RunInv
<1>2. HandoverInv'
  BY <1>1 DEF HandoverInv
<1>3. ForkInv'
  BY <1>1 DEF ForkInv, EmbryoInv, RunInv, ForkPC
<1>4. EmbryoInv'
  BY <1>1 DEF EmbryoInv, ForkInv, ForkPC
<1>5. OnlyInitPanics'
  BY <1>1 DEF OnlyInitPanics, StackInv, OnCpuInv, RunInv, ForkInv, ForkPC, Live
<1>6. (CpuInv /\ OnCpuInv /\ RunInv /\ RunningInv /\ StackInv)'
  BY DEF CpuInv, OnCpuInv, RunInv, RunningInv, StackInv
<1> QED
  BY <1>1, <1>2, <1>3, <1>4, <1>5, <1>6

LEMMA WaitSleepSafe ==
  ASSUME SafeInv, TypeOK', NEW c \in CPU, WaitSleep(c)
  PROVE  SafeInv'
<1> USE Constants DEF SafeInv, TypeOK, WaitSleep, OwnStep, Runs, goto, sched,
     cpuvars, procvars, codevars
<1>1. cproc[c] \in Slot /\ state[cproc[c]] = "RUNNING"
  BY DEF CpuInv, RunInv
<1>2. HandoverInv'
  BY <1>1 DEF HandoverInv, InWait
<1>3. CpuInv'
  BY <1>1 DEF CpuInv
<1>4. RunInv'
  BY <1>1 DEF RunInv, OnCpuInv, HandoverInv, InWait
<1>5. RunningInv'
  <2>1. ASSUME NEW s \in Slot, state'[s] = "RUNNING"
        PROVE  state[s] = "RUNNING" /\ s # cproc[c]
    BY <1>1, <2>1
  <2>2. cproc' = cproc /\ \A d \in CPU : d # c => cpu'[d] = cpu[d]
    OBVIOUS
  <2> HIDE DEF WaitSleep
  <2> QED
    BY <2>1, <2>2 DEF RunningInv
<1>6. \A s \in Slot :
         pc'[s] \in ForkPC =>
           s # cproc[c] /\ pc[s] = pc'[s] /\ state'[s] = state[s]
  BY <1>1 DEF ForkPC
<1>7. arg' = arg /\ kstack' = kstack /\ pgdir' = pgdir
  OBVIOUS
<1>8. \A s \in Slot : state[s] = "EMBRYO" => state'[s] = "EMBRYO"
  BY <1>1
<1>9. ForkInv' /\ EmbryoInv'
  <2> HIDE DEF WaitSleep
  <2> QED
    BY <1>6, <1>7, <1>8 DEF ForkInv, EmbryoInv, ForkPC
<1>10. StackInv'
  BY <1>1 DEF StackInv, Live
<1>11. OnlyInitPanics'
  BY <1>1 DEF OnlyInitPanics, StackInv, OnCpuInv, RunInv, ForkInv, ForkPC, Live
<1>12. OnCpuInv'
  BY DEF OnCpuInv
<1> QED
  BY <1>2, <1>3, <1>4, <1>5, <1>9, <1>10, <1>11, <1>12

LEMMA killSafe ==
  ASSUME SafeInv, TypeOK', NEW c \in CPU, kill(c)
  PROVE  SafeInv'
<1> USE Constants DEF SafeInv, TypeOK, kill, OwnStep, Runs, goto, KilledState,
     cpuvars, procvars, codevars
<1>1. cproc[c] \in Slot /\ state[cproc[c]] = "RUNNING"
  BY DEF CpuInv, RunInv
<1>2. \A s \in Slot :
         state'[s] # state[s] =>
           state[s] = "SLEEPING" /\ state'[s] = "RUNNABLE"
  BY <1>1 DEF TypeOK
<1>3. RunInv'
  <2>1. cproc' = cproc /\ cpu' = cpu
    OBVIOUS
  <2>2. ASSUME NEW d \in CPU, cproc[d] # NoProc
        PROVE  \/ state'[cproc[d]] = state[cproc[d]]
               \/ /\ state[cproc[d]] = "SLEEPING"
                  /\ state'[cproc[d]] = "RUNNABLE"
    <3> HIDE DEF kill, KilledState
    <3>1. cproc[d] \in Slot
      BY <2>2
    <3> QED
      BY <1>2, <3>1
  <2> HIDE DEF kill, KilledState
  <2> QED
    BY <2>1, <2>2 DEF RunInv
<1>4. RunningInv'
  BY <1>1, <1>2 DEF RunningInv, RunInv, OnCpuInv, HandoverInv
<1>5. ForkInv'
  BY <1>1, <1>2 DEF ForkInv, EmbryoInv, RunInv, ForkPC
<1>6. EmbryoInv'
  BY <1>1, <1>2 DEF EmbryoInv, ForkInv, ForkPC
<1>7. StackInv'
  BY <1>1, <1>2 DEF StackInv, ForkInv, Live, ForkPC
<1>8. OnlyInitPanics'
  BY <1>1, <1>2 DEF OnlyInitPanics, StackInv, OnCpuInv, RunInv, ForkInv,
       ForkPC, Live
<1>9. (HandoverInv /\ CpuInv /\ OnCpuInv)'
  BY DEF HandoverInv, CpuInv, OnCpuInv
<1> QED
  BY <1>1, <1>2, <1>3, <1>4, <1>5, <1>6, <1>7, <1>8, <1>9

LEMMA SleepEnterSafe ==
  ASSUME SafeInv, TypeOK', NEW c \in CPU, SleepEnter(c)
  PROVE  SafeInv'
<1> USE Constants DEF SafeInv, TypeOK, SleepEnter, OwnStep, Runs, goto,
     cpuvars, procvars, codevars
<1>1. cproc[c] \in Slot /\ state[cproc[c]] = "RUNNING"
  BY DEF CpuInv, RunInv
<1>2. ForkInv'
  BY <1>1 DEF ForkInv, EmbryoInv, RunInv, ForkPC
<1>3. EmbryoInv'
  BY <1>1 DEF EmbryoInv, ForkInv, ForkPC
<1>4. OnlyInitPanics'
  BY <1>1 DEF OnlyInitPanics, StackInv, OnCpuInv, RunInv, ForkInv, ForkPC, Live
<1>5. (HandoverInv /\ CpuInv /\ OnCpuInv /\ RunInv /\ RunningInv /\ StackInv)'
  BY DEF HandoverInv, CpuInv, OnCpuInv, RunInv, RunningInv, StackInv
<1> QED
  BY <1>1, <1>2, <1>3, <1>4, <1>5

LEMMA SleepCheckSafe ==
  ASSUME SafeInv, TypeOK', NEW c \in CPU, SleepCheck(c)
  PROVE  SafeInv'
<1> USE Constants DEF SafeInv, TypeOK, SleepCheck, OwnStep, Runs, goto,
     cpuvars, procvars, codevars
<1>1. cproc[c] \in Slot /\ state[cproc[c]] = "RUNNING"
  BY DEF CpuInv, RunInv
<1>2. ForkInv'
  BY <1>1 DEF ForkInv, EmbryoInv, RunInv, ForkPC
<1>3. EmbryoInv'
  BY <1>1 DEF EmbryoInv, ForkInv, ForkPC
<1>4. OnlyInitPanics'
  BY <1>1 DEF OnlyInitPanics, StackInv, OnCpuInv, RunInv, ForkInv, ForkPC, Live
<1>5. (HandoverInv /\ CpuInv /\ OnCpuInv /\ RunInv /\ RunningInv /\ StackInv)'
  BY DEF HandoverInv, CpuInv, OnCpuInv, RunInv, RunningInv, StackInv
<1> QED
  BY <1>1, <1>2, <1>3, <1>4, <1>5

LEMMA SleepOnTicksSafe ==
  ASSUME SafeInv, TypeOK', NEW c \in CPU, SleepOnTicks(c)
  PROVE  SafeInv'
<1> USE Constants DEF SafeInv, TypeOK, SleepOnTicks, OwnStep, Runs, sched,
     cpuvars, procvars, codevars
<1>1. cproc[c] \in Slot /\ state[cproc[c]] = "RUNNING"
  BY DEF CpuInv, RunInv
<1>2. HandoverInv'
  BY <1>1 DEF HandoverInv
<1>3. CpuInv'
  BY <1>1 DEF CpuInv
<1>4. RunInv'
  BY <1>1 DEF RunInv, OnCpuInv, HandoverInv, ForkInv
<1>5. RunningInv'
  BY <1>1 DEF RunningInv, RunInv, OnCpuInv, HandoverInv
<1>6. ForkInv'
  BY <1>1 DEF ForkInv, EmbryoInv, RunInv, ForkPC
<1>7. StackInv'
  BY <1>1 DEF StackInv, ForkInv, Live, ForkPC
<1>8. OnlyInitPanics'
  BY <1>1 DEF OnlyInitPanics, StackInv, OnCpuInv, RunInv, ForkInv, ForkPC, Live
<1>9. (OnCpuInv /\ EmbryoInv)'
  BY DEF OnCpuInv, EmbryoInv
<1> QED
  BY <1>1, <1>2, <1>3, <1>4, <1>5, <1>6, <1>7, <1>8, <1>9

LEMMA SleepRelockSafe ==
  ASSUME SafeInv, TypeOK', NEW c \in CPU, SleepRelock(c)
  PROVE  SafeInv'
<1> USE Constants DEF SafeInv, TypeOK, SleepRelock, OwnStep, Runs, goto,
     cpuvars, procvars, codevars
<1>1. cproc[c] \in Slot /\ state[cproc[c]] = "RUNNING"
  BY DEF CpuInv, RunInv
<1>2. ForkInv'
  BY <1>1 DEF ForkInv, EmbryoInv, RunInv, ForkPC
<1>3. EmbryoInv'
  BY <1>1 DEF EmbryoInv, ForkInv, ForkPC
<1>4. OnlyInitPanics'
  BY <1>1 DEF OnlyInitPanics, StackInv, OnCpuInv, RunInv, ForkInv, ForkPC, Live
<1>5. (HandoverInv /\ CpuInv /\ OnCpuInv /\ RunInv /\ RunningInv /\ StackInv)'
  BY DEF HandoverInv, CpuInv, OnCpuInv, RunInv, RunningInv, StackInv
<1> QED
  BY <1>1, <1>2, <1>3, <1>4, <1>5

LEMMA SafeInit == Init => SafeInv
<1> SUFFICES ASSUME Init PROVE SafeInv
  OBVIOUS
<1>1. TypeOK
  BY Constants, ConstantsAssumption
  DEF Init, TypeOK, CpuMode, Irq, ProcState, Context, PC
<1>2. /\ HandoverInv /\ CpuInv /\ OnCpuInv /\ RunInv /\ RunningInv
      /\ ForkInv /\ EmbryoInv /\ StackInv /\ OnlyInitPanics
  BY Constants DEF Init, HandoverInv, CpuInv, OnCpuInv, RunInv, RunningInv,
     ForkInv, EmbryoInv, StackInv, OnlyInitPanics, ForkPC, Live
<1> QED
  BY <1>1, <1>2 DEF SafeInv

LEMMA SafeStep == SafeInv /\ [Next]_vars => SafeInv'
<1> SUFFICES ASSUME SafeInv, [Next]_vars PROVE SafeInv'
  OBVIOUS
<1>1. TypeOK'
  BY TypeStep DEF SafeInv
<1>2. CASE UNCHANGED vars
  BY <1>2 DEF vars, cpuvars, procvars, codevars, SafeInv, TypeOK, HandoverInv,
     CpuInv, OnCpuInv, RunInv, RunningInv, ForkInv, EmbryoInv, StackInv,
     OnlyInitPanics
<1>3. ASSUME NEW c \in CPU, SchedulerStep(c) \/ Resume(c) PROVE SafeInv'
  BY <1>1, <1>3, SchedulerStartSafe, SchedulerNextSafe, SchedulerEndSafe,
     ResumeSafe DEF SchedulerStep
<1>4. ASSUME NEW c \in CPU, TrapStep(c) PROVE SafeInv'
  BY <1>1, <1>4, TimerInterruptSafe, TimerWakeupSafe, TimerKilledSafe,
     TimerYieldSafe, SyscallSafe, FaultSafe, TrapReturnSafe DEF TrapStep
<1>5. ASSUME NEW c \in CPU, ForkStep(c) PROVE SafeInv'
  BY <1>1, <1>5, allocprocSafe, ForkKallocSafe, ForkCopySafe,
     ForkRunnableSafe DEF ForkStep
<1>6. ASSUME NEW c \in CPU, CallStep(c) PROVE SafeInv'
  BY <1>1, <1>2, <1>6, exitSafe, InitExitingSafe, WaitReapSafe, WaitFailSafe,
     WaitSleepSafe, killSafe, SleepEnterSafe, SleepCheckSafe,
     SleepOnTicksSafe, SleepRelockSafe DEF CallStep, Panicked
<1> QED
  BY <1>2, <1>3, <1>4, <1>5, <1>6 DEF Next

\* The invariant that scheduler(), sched(), fork(), exit() and wait() keep.
THEOREM Safety == Spec => []SafeInv
<1> QED
  BY SafeInit, SafeStep, PTL DEF Spec

\* Every variable keeps its type; a CPU's kernel stack and page directory are
\* never freed under it (exit() and wait() under ptable.lock).
THEOREM StackTheorem == Spec => [](TypeOK /\ StackInUse)
<1>1. SafeInv => TypeOK /\ StackInUse
  BY Constants DEF SafeInv, TypeOK, StackInUse, RunInv, StackInv, Live
<1> QED
  BY <1>1, Safety, PTL

\* scheduler() and sched() keep every process on at most one CPU and its
\* state RUNNING exactly while it is there.
THEOREM OneCpuTheorem == Spec => []OneCpuEach
<1>1. SafeInv => OneCpuEach
  BY Constants DEF SafeInv, TypeOK, OneCpuEach, RunInv, OnCpuInv, RunningInv
<1> QED
  BY <1>1, Safety, PTL

\* Of the panics of switchuvm(), sched() and exit() only "init exiting" is
\* reached.
THEOREM PanicTheorem == Spec => []OnlyInitPanics
<1>1. SafeInv => OnlyInitPanics
  BY DEF SafeInv
<1> QED
  BY <1>1, Safety, PTL

-----------------------------------------------------------------------------
(* The calls that put a process to sleep.                                  *)

\* What most actions do to the table: parents stay, states change between
\* SLEEPING, RUNNABLE and RUNNING only, and nobody enters fork()'s phases.
LEMMA FamilyFrame ==
  ASSUME SafeInv, FamilyInv, parent' = parent,
         \A s \in Slot :
            \/ state'[s] = state[s]
            \/ state[s] \in Alive /\ state'[s] \in Alive,
         \A s \in Slot :
            state'[s] = "SLEEPING" /\ chan'[s] = s =>
               \/ /\ state[s] = "SLEEPING" /\ chan[s] = s
                  /\ killed'[s] = killed[s]
               \/ /\ ~killed'[s] /\ ZombieChildren(s) = {}
                  /\ \E q \in Slot : parent[q] = s,
         \A s \in Slot :
            pc'[s] \in ForkPC => pc'[s] = pc[s] /\ arg'[s] = arg[s]
  PROVE  FamilyInv'
<1> USE Constants DEF FamilyInv
<1>1. InitAlive'
  BY DEF InitAlive, Alive
<1>2. ParentInv'
  BY DEF ParentInv, ForkPC, Alive
<1>3. ParentAlive'
  <2> SUFFICES ASSUME NEW s \in Slot \ {initproc},
                      state'[s] \in Alive \cup {"ZOMBIE"}
               PROVE  parent[s] # NoProc /\ state'[parent[s]] \in Alive
    BY DEF ParentAlive, Alive
  <2>1. parent[s] # NoProc /\ state[parent[s]] \in Alive
    BY DEF ParentAlive, Alive
  <2>2. parent[s] \in Slot
    BY <2>1 DEF SafeInv, TypeOK
  <2> QED
    BY <2>1, <2>2
<1>4. \A s \in Slot : ZombieChildren(s)' = ZombieChildren(s)
  <2>1. \A s \in Slot : state'[s] = "ZOMBIE" <=> state[s] = "ZOMBIE"
    BY DEF Alive
  <2>2. \A s \in Slot : parent'[s] = parent[s]
    OBVIOUS
  <2> QED
    BY <2>1, <2>2, Zenon DEF ZombieChildren
<1>5. WaitNeverMisses'
  BY <1>4 DEF WaitNeverMisses
<1> QED
  BY <1>1, <1>2, <1>3, <1>5

LEMMA SchedulerFamily ==
  ASSUME SafeInv, FamilyInv, NEW c \in CPU, SchedulerStep(c) \/ Resume(c)
  PROVE  FamilyInv'
<1> USE Constants DEF SafeInv, TypeOK, Alive, cpuvars, procvars, codevars
<1>1. ASSUME NEW p \in Slot, state[p] = "RUNNABLE", Dispatch(c, p)
      PROVE  FamilyInv'
  BY <1>1, FamilyFrame DEF Dispatch
<1>2. CASE SchedulerEnd(c)
  BY <1>2, FamilyFrame DEF SchedulerEnd
<1>3. CASE Resume(c)
  <2>1. cproc[c] \in Slot /\ state[cproc[c]] = "RUNNING"
    BY <1>3 DEF Resume, CpuInv, RunInv
  <2>2. \A s \in Slot : pc'[s] \in ForkPC => pc'[s] = pc[s]
    BY <1>3, <2>1 DEF Resume, ForkPC
  <2>3. \A s \in Slot : chan'[s] = chan[s] \/ s = cproc[c]
    BY <1>3, <2>1 DEF Resume
  <2> QED
    BY <1>3, <2>1, <2>2, <2>3, FamilyFrame DEF Resume
<1> QED
  BY <1>1, <1>2, <1>3 DEF SchedulerStep, SchedulerStart, SchedulerNext

LEMMA TrapFamily ==
  ASSUME SafeInv, FamilyInv, NEW c \in CPU, TrapStep(c)
  PROVE  FamilyInv'
<1> USE Constants DEF SafeInv, TypeOK, Alive, ForkPC, cpuvars, procvars,
     codevars
<1>1. CASE TimerInterrupt(c)
  BY <1>1, FamilyFrame DEF TimerInterrupt
<1>2. CASE TimerWakeup(c)
  BY <1>2, FamilyFrame DEF TimerWakeup, wakeup1
<1>3. CASE TimerKilled(c)
  <2>1. cproc[c] \in Slot
    BY <1>3 DEF TimerKilled, CpuInv
  <2> QED
    BY <1>3, <2>1, FamilyFrame DEF TimerKilled
<1>4. CASE TimerYield(c)
  <2>1. cproc[c] \in Slot
    BY <1>4 DEF TimerYield, CpuInv
  <2> QED
    BY <1>4, <2>1, FamilyFrame DEF TimerYield, sched
<1>5. ASSUME Runs(c) PROVE cproc[c] \in Slot /\ state[cproc[c]] = "RUNNING"
  BY <1>5 DEF Runs, CpuInv, RunInv
<1>6. CASE Syscall(c)
  <2>1. \A s \in Slot : pc'[s] \in ForkPC => pc'[s] = pc[s] /\ arg'[s] = arg[s]
    BY <1>5, <1>6 DEF Syscall, OwnStep, goto
  <2> QED
    BY <1>6, <2>1, FamilyFrame DEF Syscall
<1>7. CASE Fault(c)
  BY <1>5, <1>7, FamilyFrame DEF Fault, OwnStep, goto
<1>8. CASE TrapReturn(c)
  <2>1. \A s \in Slot : pc'[s] \in ForkPC => pc'[s] = pc[s] /\ arg'[s] = arg[s]
    BY <1>5, <1>8 DEF TrapReturn, OwnStep, goto
  <2> QED
    BY <1>8, <2>1, FamilyFrame DEF TrapReturn
<1> QED
  BY <1>1, <1>2, <1>3, <1>4, <1>6, <1>7, <1>8 DEF TrapStep

LEMMA SameZombies ==
  ASSUME \A r \in Slot : state'[r] = "ZOMBIE" <=> state[r] = "ZOMBIE",
         \A r \in Slot : state[r] = "ZOMBIE" => parent'[r] = parent[r]
  PROVE  \A s \in Slot : ZombieChildren(s)' = ZombieChildren(s)
<1> TAKE s \in Slot
<1>1. \A r : r \in ZombieChildren(s)' <=> r \in ZombieChildren(s)
  BY DEF ZombieChildren
<1> QED
  BY <1>1

LEMMA NoZombies ==
  ASSUME NEW s \in Slot,
         ~ \E r \in Slot : parent'[r] = s /\ state'[r] = "ZOMBIE"
  PROVE  ZombieChildren(s)' = {}
  BY DEF ZombieChildren

\* The parent of a live process, spelled out.
LEMMA LiveParent ==
  ASSUME TypeOK, ParentAlive, NEW s \in Slot \ {initproc}, state[s] \in Live
  PROVE  parent[s] \in Slot /\ state[parent[s]] \in Alive
<1>1. parent[s] # NoProc /\ state[parent[s]] \in Alive
  BY DEF ParentAlive, Live, Alive
<1> QED
  BY <1>1 DEF TypeOK

LEMMA ForkFamily ==
  ASSUME SafeInv, FamilyInv, NEW c \in CPU, ForkStep(c)
  PROVE  FamilyInv'
<1> DEFINE p == cproc[c]
           np == arg[p]
<1> USE Constants DEF SafeInv, TypeOK, Alive, ForkPC
<1>1. p \in Slot /\ state[p] = "RUNNING"
  BY DEF ForkStep, allocproc, ForkKalloc, ForkCopy, ForkRunnable, OwnStep,
     Runs, CpuInv, RunInv
<1>2. CASE allocproc(c)
  <2>1. CASE UNCHANGED <<state, arg>>
    BY <1>1, <1>2, <2>1, FamilyFrame DEF allocproc, goto
  <2>2. ASSUME NEW s \in Slot, state[s] = "UNUSED",
               state' = [state EXCEPT ![s] = "EMBRYO"],
               arg' = [arg EXCEPT ![p] = s], goto(c, "kalloc")
        PROVE  FamilyInv'
    <3> USE <1>1, <1>2, <2>2 DEF allocproc, goto, FamilyInv
    <3>1. InitAlive'
      BY DEF InitAlive
    <3>2. ParentInv'
      BY DEF ParentInv
    <3>3. ParentAlive'
      BY DEF ParentAlive
    <3>4. WaitNeverMisses'
      BY DEF WaitNeverMisses, ZombieChildren
    <3> QED
      BY <3>1, <3>2, <3>3, <3>4
  <2> QED
    BY <1>2, <2>1, <2>2 DEF allocproc
<1>3. CASE ForkKalloc(c)
  <2>1. /\ np \in Slot /\ state[np] = "EMBRYO" /\ np # initproc /\ np # p
        /\ parent[np] = NoProc
    BY <1>1, <1>3 DEF ForkKalloc, ForkInv, FamilyInv, InitAlive, ParentInv
  <2>2. \/ state' = state /\ pc' = [pc EXCEPT ![p] = "copyuvm"]
        \/ /\ state' = [state EXCEPT ![np] = "UNUSED"]
           /\ pc' = [pc EXCEPT ![p] = "ret"]
    BY <1>3 DEF ForkKalloc, goto
  <2>3. UNCHANGED <<parent, chan, killed, arg>>
    BY <1>3 DEF ForkKalloc
  <2> USE <1>1, <2>1, <2>2, <2>3 DEF FamilyInv
  <2>4. InitAlive'
    BY DEF InitAlive
  <2>5. ParentInv'
    BY DEF ParentInv
  <2>6. ParentAlive'
    <3> SUFFICES ASSUME NEW s \in Slot \ {initproc}, state'[s] \in Live
                 PROVE  parent'[s] # NoProc /\ state'[parent'[s]] \in Alive
      BY DEF ParentAlive, Live
    <3>1. s # np /\ state[s] \in Live
      BY DEF Live
    <3>2. /\ parent'[s] = parent[s] /\ parent[s] \in Slot
          /\ state[parent[s]] \in Alive
      BY <3>1, LiveParent
    <3>3. parent[s] # np
      BY <3>2
    <3>4. \A r \in Slot : r # np => state'[r] = state[r]
      OBVIOUS
    <3> QED
      BY <3>2, <3>3, <3>4
  <2>7. \A s \in Slot : ZombieChildren(s)' = ZombieChildren(s)
    <3>1. \A r \in Slot : state'[r] = "ZOMBIE" <=> state[r] = "ZOMBIE"
      OBVIOUS
    <3>2. \A r \in Slot : state[r] = "ZOMBIE" => parent'[r] = parent[r]
      OBVIOUS
    <3> QED
      BY <3>1, <3>2, SameZombies
  <2>8. WaitNeverMisses'
    BY <2>7 DEF WaitNeverMisses
  <2> QED
    BY <2>4, <2>5, <2>6, <2>8
<1>4. CASE ForkCopy(c)
  <2>1. np \in Slot /\ state[np] = "EMBRYO" /\ np # initproc /\ np # p
    BY <1>1, <1>4 DEF ForkCopy, ForkInv, FamilyInv, InitAlive
  <2>2. parent[np] = NoProc
    BY <1>1, <1>4 DEF ForkCopy, FamilyInv, ParentInv
  <2>3. \A s \in Slot : s # p /\ pc[s] \in ForkPC => arg[s] # np
    BY <1>1, <1>4 DEF ForkCopy, EmbryoInv
  <2>4. \/ /\ state' = state /\ parent' = [parent EXCEPT ![np] = p]
           /\ pc' = [pc EXCEPT ![p] = "runnable", ![np] = "user"]
        \/ /\ state' = [state EXCEPT ![np] = "UNUSED"] /\ parent' = parent
           /\ pc' = [pc EXCEPT ![p] = "ret"]
    BY <1>4 DEF ForkCopy, goto
  <2>5. UNCHANGED <<chan, killed, arg>>
    BY <1>4 DEF ForkCopy
  <2> USE <1>1, <2>1, <2>2, <2>3, <2>4, <2>5 DEF FamilyInv
  <2>6. InitAlive'
    BY DEF InitAlive
  <2>7. ParentInv'
    <3>1. \A s \in Slot : pc[s] \in ForkPC => arg[s] \in Slot
      BY DEF ForkInv
    <3>2. CASE parent' = [parent EXCEPT ![np] = p]
      BY <3>1, <3>2 DEF ParentInv
    <3>3. CASE parent' = parent
      BY <3>1, <3>3 DEF ParentInv
    <3> QED
      BY <3>2, <3>3
  <2>8. ParentAlive'
    <3> SUFFICES ASSUME NEW s \in Slot \ {initproc}, state'[s] \in Live
                 PROVE  parent'[s] # NoProc /\ state'[parent'[s]] \in Alive
      BY DEF ParentAlive, Live
    <3>1. s # np /\ state[s] \in Live
      BY DEF Live
    <3>2. /\ parent'[s] = parent[s] /\ parent[s] \in Slot
          /\ state[parent[s]] \in Alive
      BY <3>1, LiveParent
    <3>3. parent[s] # np
      BY <3>2
    <3>4. \A r \in Slot : r # np => state'[r] = state[r]
      OBVIOUS
    <3> QED
      BY <3>2, <3>3, <3>4
  <2>9. \A s \in Slot : ZombieChildren(s)' = ZombieChildren(s)
    <3>1. \A r \in Slot : state'[r] = "ZOMBIE" <=> state[r] = "ZOMBIE"
      OBVIOUS
    <3>2. \A r \in Slot : state[r] = "ZOMBIE" => parent'[r] = parent[r]
      OBVIOUS
    <3> QED
      BY <3>1, <3>2, SameZombies
  <2>10. WaitNeverMisses'
    BY <2>9 DEF WaitNeverMisses
  <2> QED
    BY <2>6, <2>7, <2>8, <2>10
<1>5. CASE ForkRunnable(c)
  <2>1. np \in Slot /\ state[np] = "EMBRYO" /\ np # initproc /\ np # p
    BY <1>1, <1>5 DEF ForkRunnable, ForkInv, FamilyInv, InitAlive
  <2>2. parent[np] = p
    BY <1>1, <1>5 DEF ForkRunnable, FamilyInv, ParentInv
  <2> USE <1>1, <1>5, <2>1, <2>2 DEF ForkRunnable, goto, FamilyInv
  <2>3. InitAlive'
    BY DEF InitAlive
  <2>4. ParentInv'
    BY DEF ParentInv
  <2>5. ParentAlive'
    BY DEF ParentAlive
  <2>6. WaitNeverMisses'
    BY DEF WaitNeverMisses, ZombieChildren
  <2> QED
    BY <2>3, <2>4, <2>5, <2>6
<1> QED
  BY <1>2, <1>3, <1>4, <1>5 DEF ForkStep

LEMMA exitFamily ==
  ASSUME SafeInv, FamilyInv, NEW c \in CPU, exit(c)
  PROVE  FamilyInv'
<1> DEFINE p == cproc[c]
<1> USE Constants DEF SafeInv, TypeOK, FamilyInv
<1>1. /\ p \in Slot \ {initproc} /\ state[p] = "RUNNING" /\ pc[p] = "exit"
      /\ UNCHANGED <<chan, killed, pc, arg>>
  BY DEF exit, OwnStep, Runs, CpuInv, RunInv
<1>2. parent[p] \in Slot /\ parent[p] # p /\ state[parent[p]] \in Alive
  BY <1>1, LiveParent DEF ParentInv, Live
<1>3. \A s \in Slot :
        parent'[s] = IF parent[s] = p THEN initproc ELSE parent[s]
  BY DEF exit, Orphans
<1>4. /\ state'[p] = "ZOMBIE"
      /\ \A s \in Slot \ {p} :
            \/ state'[s] = state[s]
            \/ state[s] = "SLEEPING" /\ state'[s] = "RUNNABLE"
  BY <1>1 DEF exit, wakeup1
<1>5. state[parent[p]] = "SLEEPING" /\ chan[parent[p]] = parent[p] =>
        state'[parent[p]] = "RUNNABLE"
  BY <1>1, <1>2 DEF exit, wakeup1
<1>6. ASSUME NEW r \in Slot, parent[r] = p, state[r] = "ZOMBIE",
             state[initproc] = "SLEEPING", chan[initproc] = initproc
      PROVE  state'[initproc] = "RUNNABLE"
  BY <1>1, <1>6 DEF exit, wakeup1, Orphans
<1> HIDE DEF p
<1>7. InitAlive'
  BY <1>1, <1>3, <1>4 DEF InitAlive, Alive
<1>8. ParentInv'
  <2>1. \A s \in Slot :
          pc[s] \in ForkPC => arg[s] \in Slot /\ s # p
    BY <1>1 DEF ForkInv, ForkPC
  <2>2. \A s \in Slot : state'[s] = "UNUSED" => state[s] = "UNUSED"
    BY <1>4
  <2> QED
    BY <1>1, <1>3, <2>1, <2>2 DEF ParentInv, InitAlive, ForkPC
<1>9. ParentAlive'
  <2> SUFFICES ASSUME NEW s \in Slot \ {initproc}, state'[s] \in Live
               PROVE  parent'[s] # NoProc /\ state'[parent'[s]] \in Alive
    BY DEF ParentAlive, Live, Alive
  <2>1. parent[s] \in Slot /\ state[parent[s]] \in Alive
    <3>1. state[s] \in Live
      BY <1>1, <1>4 DEF Live
    <3> QED
      BY <3>1, LiveParent
  <2>2. \A r \in Slot \ {p} : state[r] \in Alive => state'[r] \in Alive
    BY <1>4 DEF Alive
  <2>3. CASE parent[s] = p
    BY <1>1, <1>3, <2>2, <2>3 DEF InitAlive, Alive
  <2>4. CASE parent[s] # p
    BY <1>3, <2>1, <2>2, <2>4
  <2> QED
    BY <2>3, <2>4
<1>10. WaitNeverMisses'
  <2> SUFFICES ASSUME NEW s \in Slot, state'[s] = "SLEEPING", chan[s] = s
               PROVE  /\ ~killed[s]
                      /\ ~ \E r \in Slot : /\ parent'[r] = s
                                         /\ state'[r] = "ZOMBIE"
                      /\ \E q \in Slot : parent'[q] = s
    BY <1>1, NoZombies DEF WaitNeverMisses
  <2>1. s # p /\ state[s] = "SLEEPING" /\ s # parent[p]
    BY <1>2, <1>4, <1>5
  <2>2. ~killed[s] /\ ZombieChildren(s) = {} /\ \E q \in Slot : parent[q] = s
    BY <2>1 DEF WaitNeverMisses
  <2>3. ASSUME NEW r \in Slot, parent'[r] = s, state'[r] = "ZOMBIE"
        PROVE  FALSE
    <3>1. r # p
      BY <1>2, <1>3, <2>1, <2>3
    <3>2. state[r] = "ZOMBIE"
      BY <1>4, <2>3, <3>1
    <3>3. CASE parent[r] = p
      BY <1>3, <1>6, <2>1, <2>3, <3>2, <3>3
    <3>4. CASE parent[r] # p
      BY <1>3, <2>2, <2>3, <3>2, <3>4 DEF ZombieChildren
    <3> QED
      BY <3>3, <3>4
  <2>4. \E q \in Slot : parent'[q] = s
    BY <1>3, <2>1, <2>2
  <2> QED
    BY <2>2, <2>3, <2>4
<1> QED
  BY <1>7, <1>8, <1>9, <1>10

LEMMA WaitReapFamily ==
  ASSUME SafeInv, FamilyInv, NEW c \in CPU, WaitReap(c)
  PROVE  FamilyInv'
<1> DEFINE p == cproc[c]
<1> USE Constants DEF SafeInv, TypeOK, FamilyInv
<1>1. p \in Slot /\ state[p] = "RUNNING" /\ pc' = [pc EXCEPT ![p] = "ret"]
      /\ UNCHANGED <<chan, arg>>
  BY DEF WaitReap, OwnStep, Runs, goto, CpuInv, RunInv
<1>2. PICK z \in ZombieChildren(p) :
        /\ state' = [state EXCEPT ![z] = "UNUSED"]
        /\ parent' = [parent EXCEPT ![z] = NoProc]
        /\ killed' = [killed EXCEPT ![z] = FALSE]
  BY DEF WaitReap
<1>3. /\ z \in Slot /\ z # initproc /\ z # p
      /\ parent[z] = p /\ state[z] = "ZOMBIE"
  BY <1>1 DEF ZombieChildren, InitAlive, Alive
<1> HIDE DEF p
<1>4. InitAlive'
  BY <1>2, <1>3 DEF InitAlive
<1>5. ParentInv'
  <2>1. \A s \in Slot : pc[s] \in ForkPC => arg[s] \in Slot /\ arg[s] # z
    BY <1>3 DEF ForkInv
  <2> QED
    BY <1>1, <1>2, <1>3, <2>1 DEF ParentInv, ForkPC
<1>6. ParentAlive'
  <2> SUFFICES ASSUME NEW s \in Slot \ {initproc}, state'[s] \in Live
               PROVE  parent'[s] # NoProc /\ state'[parent'[s]] \in Alive
    BY DEF ParentAlive, Live, Alive
  <2>1. s # z /\ state[s] \in Live
    BY <1>2, <1>3 DEF Live
  <2>2. parent[s] \in Slot /\ state[parent[s]] \in Alive /\ parent[s] # z
    BY <1>3, <2>1, LiveParent DEF Alive
  <2> QED
    BY <1>2, <1>3, <2>1, <2>2
<1>7. WaitNeverMisses'
  <2> SUFFICES ASSUME NEW s \in Slot, state'[s] = "SLEEPING", chan[s] = s
               PROVE  /\ ~killed'[s]
                      /\ ~ \E r \in Slot : /\ parent'[r] = s
                                         /\ state'[r] = "ZOMBIE"
                      /\ \E q \in Slot : parent'[q] = s
    BY <1>1, NoZombies DEF WaitNeverMisses
  <2>1. s # z /\ s # p /\ state[s] = "SLEEPING"
    BY <1>1, <1>2, <1>3
  <2>2. ~killed[s] /\ ZombieChildren(s) = {} /\ \E q \in Slot : parent[q] = s
    BY <2>1 DEF WaitNeverMisses
  <2>3. ~ \E r \in Slot : parent'[r] = s /\ state'[r] = "ZOMBIE"
    BY <1>2, <1>3, <2>1, <2>2 DEF ZombieChildren
  <2> QED
    BY <1>2, <1>3, <2>1, <2>2, <2>3
<1> QED
  BY <1>4, <1>5, <1>6, <1>7

LEMMA CallFamily ==
  ASSUME SafeInv, FamilyInv, NEW c \in CPU, CallStep(c)
  PROVE  FamilyInv'
<1> DEFINE p == cproc[c]
<1> USE Constants DEF SafeInv, TypeOK, Alive, ForkPC
<1>1. ASSUME Runs(c) PROVE p \in Slot /\ state[p] = "RUNNING"
  BY <1>1 DEF Runs, CpuInv, RunInv
<1>2. ASSUME UNCHANGED <<procvars, arg>>,
             \A s \in Slot : pc'[s] \in ForkPC => pc'[s] = pc[s]
      PROVE  FamilyInv'
  BY <1>2, FamilyFrame DEF procvars
<1>3. CASE InitExiting(c) \/ Panicked(c)
  BY <1>2, <1>3 DEF InitExiting, Panicked, vars, codevars
<1>4. CASE WaitFail(c)
  BY <1>1, <1>2, <1>4 DEF WaitFail, OwnStep, goto
<1>5. CASE WaitSleep(c)
  BY <1>1, <1>5, FamilyFrame DEF WaitSleep, OwnStep, goto, sched
<1>6. CASE kill(c)
  <2>1. Runs(c)
    BY <1>6 DEF kill, OwnStep
  <2>2. \/ UNCHANGED <<killed, state>>
        \/ \E s \in Slot :
              /\ killed' = [killed EXCEPT ![s] = TRUE]
              /\ state' = [state EXCEPT ![s] = KilledState(state[s])]
    BY <1>6 DEF kill
  <2>3. \A s \in Slot :
          /\ \/ state'[s] = state[s]
             \/ state[s] = "SLEEPING" /\ state'[s] = "RUNNABLE"
          /\ state'[s] = "SLEEPING" =>
                state[s] = "SLEEPING" /\ killed'[s] = killed[s]
    BY <2>2 DEF KilledState
  <2>4. \A s \in Slot : pc'[s] \in ForkPC => pc'[s] = pc[s]
    BY <1>1, <1>6, <2>1 DEF kill, goto
  <2>5. UNCHANGED <<parent, chan, arg>>
    BY <1>6 DEF kill
  <2> QED
    BY <2>3, <2>4, <2>5, FamilyFrame
<1>7. CASE SleepEnter(c) \/ SleepCheck(c) \/ SleepRelock(c)
  BY <1>1, <1>2, <1>7 DEF SleepEnter, SleepCheck, SleepRelock, OwnStep, goto
<1>8. CASE SleepOnTicks(c)
  <2>1. \A s \in Slot : TicksChan # s
    BY DEF TicksChan, Slot
  <2> QED
    BY <1>1, <1>8, <2>1, FamilyFrame DEF SleepOnTicks, OwnStep, sched
<1> QED
  BY <1>3, <1>4, <1>5, <1>6, <1>7, <1>8, exitFamily, WaitReapFamily
  DEF CallStep

LEMMA FamilyInit == Init => FamilyInv
  BY Constants
  DEF Init, FamilyInv, InitAlive, ParentInv, ParentAlive, WaitNeverMisses,
      Alive

LEMMA FamilyStep == SafeInv /\ FamilyInv /\ [Next]_vars => FamilyInv'
<1> SUFFICES ASSUME SafeInv, FamilyInv, [Next]_vars PROVE FamilyInv'
  OBVIOUS
<1>1. CASE UNCHANGED vars
  BY <1>1, FamilyFrame DEF vars, procvars, codevars
<1> QED
  BY <1>1, SchedulerFamily, TrapFamily, ForkFamily, CallFamily DEF Next

\* fork(), exit() and wait() keep the family relation of the process table.
THEOREM Family == Spec => []FamilyInv
<1> QED
  BY Safety, FamilyInit, FamilyStep, PTL DEF Spec

\* Every process but the first has a parent that can reap it: exit() hands its
\* children to initproc, which never exits.
THEOREM ParentTheorem == Spec => []ParentAlive
<1>1. FamilyInv => ParentAlive
  BY DEF FamilyInv
<1> QED
  BY <1>1, Family, PTL

\* No exit() and no kill() falls between wait()'s scan and its sleep(), and
\* none is missed while the parent sleeps.
THEOREM WaitTheorem == Spec => []WaitNeverMisses
<1>1. FamilyInv => WaitNeverMisses
  BY DEF FamilyInv
<1> QED
  BY <1>1, Family, PTL

-----------------------------------------------------------------------------
(* sys_sleep() and the tick counter.                                       *)

\* Unsigned subtraction and increment modulo TickMod.
LEMMA TickArithmetic ==
  ASSUME NEW a \in 0 .. TickMod - 1, NEW b \in 0 .. TickMod - 1
  PROVE  /\ (a - b) % TickMod = IF a >= b THEN a - b ELSE a - b + TickMod
         /\ (a + 1) % TickMod = IF a + 1 = TickMod THEN 0 ELSE a + 1
<1> USE ConstantsAssumption
<1>1. CASE a >= b
  BY <1>1
<1>2. CASE a < b
  BY <1>2
<1>3. (a + 1) % TickMod = IF a + 1 = TickMod THEN 0 ELSE a + 1
  OBVIOUS
<1> QED
  BY <1>1, <1>2, <1>3

LEMMA SchedulerStartSleep ==
  ASSUME SafeInv, TypeOK', SleepInv, NEW c \in CPU, SchedulerStart(c)
  PROVE  SleepInv'
<1> USE Constants DEF SafeInv, TypeOK, SleepInv, SchedulerStart, Dispatch,
     cpuvars, procvars, codevars
<1>2. TickLockInv'
  BY DEF TickLockInv, SwtchInv, OnCpuInv, CpuInv, RunInv, TimeLeft
<1>3. IdleInv'
  BY DEF IdleInv, ForkInv, ForkPC
<1>4. OffCpuInv'
  BY DEF OffCpuInv, IdleInv, TickLockInv, OnCpuInv, RunInv, ForkInv, ForkPC
<1>5. SwtchInv'
  BY DEF SwtchInv, OffCpuInv, OnCpuInv, RunInv, ForkInv, ForkPC
<1>6. TickSleepers'
  BY DEF TickSleepers, TickLockInv, TimeLeft
<1>7. SleptInv'
  BY DEF SleptInv, InSleep
<1> QED
  BY <1>2, <1>3, <1>4, <1>5, <1>6, <1>7

LEMMA SchedulerNextSleep ==
  ASSUME SafeInv, TypeOK', SleepInv, NEW c \in CPU, SchedulerNext(c)
  PROVE  SleepInv'
<1> USE Constants DEF SafeInv, TypeOK, SleepInv, SchedulerNext, Dispatch,
     cpuvars, procvars, codevars
<1>2. TickLockInv'
  BY DEF TickLockInv, SwtchInv, OnCpuInv, CpuInv, RunInv, TimeLeft
<1>3. IdleInv'
  BY DEF IdleInv, ForkInv, ForkPC
<1>4. OffCpuInv'
  BY DEF OffCpuInv, IdleInv, TickLockInv, OnCpuInv, RunInv, ForkInv, ForkPC
<1>5. SwtchInv'
  BY DEF SwtchInv, OffCpuInv, OnCpuInv, RunInv, ForkInv, ForkPC
<1>6. TickSleepers'
  BY DEF TickSleepers, TickLockInv, TimeLeft
<1>7. SleptInv'
  BY DEF SleptInv, InSleep
<1> QED
  BY <1>2, <1>3, <1>4, <1>5, <1>6, <1>7

LEMMA SchedulerEndSleep ==
  ASSUME SafeInv, TypeOK', SleepInv, NEW c \in CPU, SchedulerEnd(c)
  PROVE  SleepInv'
<1> USE Constants DEF SafeInv, TypeOK, SleepInv, SchedulerEnd,
     cpuvars, procvars, codevars
<1>2. TickLockInv'
  BY DEF TickLockInv, SwtchInv, OnCpuInv, CpuInv, RunInv, TimeLeft
<1>3. IdleInv'
  BY DEF IdleInv, ForkInv, ForkPC
<1>4. OffCpuInv'
  BY DEF OffCpuInv, IdleInv, TickLockInv, OnCpuInv, RunInv, ForkInv, ForkPC
<1>5. SwtchInv'
  BY DEF SwtchInv, OffCpuInv, OnCpuInv, RunInv, ForkInv, ForkPC
<1>6. TickSleepers'
  BY DEF TickSleepers, TickLockInv, TimeLeft
<1>7. SleptInv'
  BY DEF SleptInv, InSleep
<1> QED
  BY <1>2, <1>3, <1>4, <1>5, <1>6, <1>7

LEMMA ResumeSleep ==
  ASSUME SafeInv, TypeOK', SleepInv, NEW c \in CPU, Resume(c)
  PROVE  SleepInv'
<1> DEFINE p == cproc[c]
<1> USE Constants DEF SafeInv, TypeOK, SleepInv
<1>1. /\ p \in Slot /\ state[p] = "RUNNING"
      /\ \A d \in CPU \ {c} :
            cpu[d] # "loop" => cproc[d] \in Slot /\ cproc[d] # p
  BY DEF Resume, CpuInv, RunInv, OnCpuInv
<1>10. pc[p] # "timecheck" /\ (pc[p] = "dosleep" => context[p] = "sleep")
  BY <1>1 DEF Resume, SwtchInv
<1>2. /\ cpu[c] = "swtch" /\ cpu' = [cpu EXCEPT ![c] = "run"]
      /\ pc'[p] \notin {"timecheck", "dosleep"}
      /\ \/ pc'[p] \in {pc[p], "ret", "rescan"}
         \/ pc'[p] = "relock" /\ pc[p] = "dosleep"
      /\ \A s \in Slot \ {p} : pc'[s] = pc[s] /\ chan'[s] = chan[s]
      /\ UNCHANGED <<tickslock, cproc, irq, state, context, arg, ticks0, slept,
                     ticks>>
  <2>1. cpu[c] = "swtch" /\ cpu' = [cpu EXCEPT ![c] = "run"]
    BY <1>1, <1>10 DEF Resume, cpuvars, procvars, codevars
  <2>2. pc'[p] \notin {"timecheck", "dosleep"}
    BY <1>1, <1>10 DEF Resume, cpuvars, procvars, codevars
  <2>3. \/ pc'[p] \in {pc[p], "ret", "rescan"}
        \/ pc'[p] = "relock" /\ pc[p] = "dosleep"
    BY <1>1, <1>10 DEF Resume, cpuvars, procvars, codevars
  <2>4. \A s \in Slot \ {p} : pc'[s] = pc[s] /\ chan'[s] = chan[s]
    BY <1>1, <1>10 DEF Resume, cpuvars, procvars, codevars
  <2>5. UNCHANGED <<tickslock, cproc, irq, state, context, arg, ticks0, slept,
                    ticks>>
    BY <1>1, <1>10 DEF Resume, cpuvars, procvars, codevars
  <2> QED
    BY <2>1, <2>2, <2>3, <2>4, <2>5
<1> HIDE DEF p
<1>3. \A s \in Slot : (TimeLeft(s)' <=> TimeLeft(s))
  BY <1>1, <1>2 DEF TimeLeft
<1>4. TickLockInv'
  BY <1>1, <1>2, <1>3 DEF TickLockInv, SwtchInv, CpuInv, p
<1>5. IdleInv'
  BY <1>1, <1>2 DEF IdleInv
<1>6. OffCpuInv'
  BY <1>1, <1>2 DEF OffCpuInv, IdleInv, TickLockInv, p
<1>7. SwtchInv'
  <2> SUFFICES ASSUME NEW d \in CPU, NEW s \in Slot,
                      cproc'[d] = s, cpu'[d] = "swtch"
               PROVE  /\ pc'[s] # "timecheck"
                      /\ pc'[s] = "dosleep" => context'[s] = "sleep"
    BY DEF SwtchInv
  <2>1. cproc[d] = s /\ cpu[d] = "swtch" /\ s # p /\ state[s] = "RUNNING"
    BY <1>1, <1>2, Constants DEF RunInv
  <2> QED
    BY <1>1, <1>2, <2>1 DEF SwtchInv
<1>8. TickSleepers'
  BY <1>1, <1>2, <1>3 DEF TickSleepers, TickLockInv
<1>9. SleptInv'
  BY <1>1, <1>2 DEF SleptInv, InSleep
<1> QED
  BY <1>4, <1>5, <1>6, <1>7, <1>8, <1>9

LEMMA TimerWakeupSleep ==
  ASSUME SafeInv, TypeOK', SleepInv, NEW c \in CPU, TimerWakeup(c)
  PROVE  SleepInv'
<1> USE Constants DEF SafeInv, TypeOK, SleepInv
<1>1. /\ irq[c] = "tick" /\ irq'[c] # "tick" /\ tickslock' = NoCpu
      /\ \A d \in CPU \ {c} : irq'[d] = irq[d]
      /\ UNCHANGED <<cproc, cpu, chan, pc, context, arg, ticks0, slept, ticks>>
  BY DEF TimerWakeup, codevars
<1>2. \A s \in Slot :
         /\ \/ state'[s] = state[s]
            \/ state[s] = "SLEEPING" /\ state'[s] = "RUNNABLE"
         /\ state'[s] = "SLEEPING" => chan[s] # TicksChan
  BY DEF TimerWakeup, wakeup1
<1>3. \A s \in Slot : TimeLeft(s)' <=> TimeLeft(s)
  BY <1>1 DEF TimeLeft
<1>4. TickLockInv'
  BY <1>1, <1>3 DEF TickLockInv
<1>5. (IdleInv /\ OffCpuInv /\ SwtchInv)'
  BY <1>1, <1>2 DEF IdleInv, OffCpuInv, SwtchInv
<1>6. TickSleepers'
  BY <1>1, <1>2 DEF TickSleepers
<1>7. SleptInv'
  BY <1>1 DEF SleptInv, InSleep
<1> QED
  BY <1>4, <1>5, <1>6, <1>7

LEMMA TimerKilledSleep ==
  ASSUME SafeInv, TypeOK', SleepInv, NEW c \in CPU, TimerKilled(c)
  PROVE  SleepInv'
<1> USE Constants DEF SafeInv, TypeOK, SleepInv, TimerKilled,
     cpuvars, procvars, codevars
<1>1. cproc[c] \in Slot /\ state[cproc[c]] = "RUNNING"
  BY DEF CpuInv, RunInv
<1>2. TickLockInv'
  BY <1>1 DEF TickLockInv, SwtchInv, OnCpuInv, CpuInv, RunInv, TimeLeft
<1>3. IdleInv'
  BY <1>1 DEF IdleInv, ForkInv, ForkPC
<1>4. OffCpuInv'
  BY <1>1
  DEF OffCpuInv, IdleInv, TickLockInv, OnCpuInv, RunInv, ForkInv, ForkPC
<1>5. SwtchInv'
  BY <1>1 DEF SwtchInv, OffCpuInv, OnCpuInv, RunInv, ForkInv, ForkPC
<1>6. TickSleepers'
  BY <1>1 DEF TickSleepers, TickLockInv, TimeLeft
<1>7. SleptInv'
  BY <1>1 DEF SleptInv, InSleep
<1> QED
  BY <1>2, <1>3, <1>4, <1>5, <1>6, <1>7

LEMMA TimerYieldSleep ==
  ASSUME SafeInv, TypeOK', SleepInv, NEW c \in CPU, TimerYield(c)
  PROVE  SleepInv'
<1> DEFINE p == cproc[c]
<1> USE Constants DEF SafeInv, TypeOK, SleepInv
<1>1. /\ p \in Slot /\ state[p] = "RUNNING"
      /\ \A d \in CPU \ {c} :
            cpu[d] # "loop" => cproc[d] \in Slot /\ cproc[d] # p
  BY DEF TimerYield, sched, CpuInv, RunInv, OnCpuInv
<1>2. /\ cpu[c] = "run" /\ pc[p] \notin {"timecheck", "dosleep"}
      /\ cpu' = [cpu EXCEPT ![c] = "scan"]
      /\ \A d \in CPU : irq'[d] = "tick" <=> irq[d] = "tick"
      /\ \A d \in CPU : irq[d] = "none" => irq'[d] = "none"
      /\ state' = [state EXCEPT ![p] = "RUNNABLE"]
      /\ \A s \in Slot \ {p} : context'[s] = context[s]
      /\ UNCHANGED <<tickslock, cproc, chan, pc, arg, ticks0, slept, ticks>>
  <2>1. cpu[c] = "run" /\ pc[p] \notin {"timecheck", "dosleep"}
    BY <1>1
    DEF TimerYield, sched, cpuvars, procvars, codevars, TickLockInv, CpuInv
  <2>2. cpu' = [cpu EXCEPT ![c] = "scan"]
    BY <1>1
    DEF TimerYield, sched, cpuvars, procvars, codevars, TickLockInv, CpuInv
  <2>3. \A d \in CPU : irq'[d] = "tick" <=> irq[d] = "tick"
    BY <1>1
    DEF TimerYield, sched, cpuvars, procvars, codevars, TickLockInv, CpuInv
  <2>4. \A d \in CPU : irq[d] = "none" => irq'[d] = "none"
    BY <1>1
    DEF TimerYield, sched, cpuvars, procvars, codevars, TickLockInv, CpuInv
  <2>5. state' = [state EXCEPT ![p] = "RUNNABLE"]
    BY <1>1
    DEF TimerYield, sched, cpuvars, procvars, codevars, TickLockInv, CpuInv
  <2>6. \A s \in Slot \ {p} : context'[s] = context[s]
    BY <1>1
    DEF TimerYield, sched, cpuvars, procvars, codevars, TickLockInv, CpuInv
  <2>7. UNCHANGED <<tickslock, cproc, chan, pc, arg, ticks0, slept, ticks>>
    BY <1>1
    DEF TimerYield, sched, cpuvars, procvars, codevars, TickLockInv, CpuInv
  <2> QED
    BY <2>1, <2>2, <2>3, <2>4, <2>5, <2>6, <2>7
<1> HIDE DEF p
<1>3. \A s \in Slot : (TimeLeft(s)' <=> TimeLeft(s))
  BY <1>1, <1>2 DEF TimeLeft
<1>4. TickLockInv'
  <2>1. \A d \in CPU : irq'[d] = "tick" => tickslock' = d
    BY <1>2 DEF TickLockInv
  <2> SUFFICES ASSUME NEW d \in CPU, NEW s \in Slot,
                      cproc'[d] = s, cpu'[d] = "run",
                      pc'[s] \in {"timecheck", "dosleep"}
               PROVE  /\ tickslock' = d /\ irq'[d] = "none"
                      /\ pc'[s] = "dosleep" => TimeLeft(s)'
    BY <2>1 DEF TickLockInv
  <2>2. cproc[d] = s /\ cpu[d] = "run" /\ pc[s] \in {"timecheck", "dosleep"}
    BY <1>1, <1>2
  <2> QED
    BY <1>2, <1>3, <2>2 DEF TickLockInv
<1>5. IdleInv'
  BY <1>1, <1>2 DEF IdleInv
<1>6. OffCpuInv'
  BY <1>1, <1>2 DEF OffCpuInv, IdleInv, TickLockInv, p
<1>7. SwtchInv'
  <2> SUFFICES ASSUME NEW d \in CPU, NEW s \in Slot,
                      cproc'[d] = s, cpu'[d] = "swtch"
               PROVE  /\ pc'[s] # "timecheck"
                      /\ pc'[s] = "dosleep" => context'[s] = "sleep"
    BY DEF SwtchInv
  <2>1. cproc[d] = s /\ cpu[d] = "swtch" /\ s # p /\ state[s] = "RUNNING"
    BY <1>1, <1>2, Constants DEF RunInv
  <2> QED
    BY <1>1, <1>2, <2>1 DEF SwtchInv
<1>8. TickSleepers'
  BY <1>1, <1>2, <1>3 DEF TickSleepers, TickLockInv
<1>9. SleptInv'
  BY <1>1, <1>2 DEF SleptInv, InSleep
<1> QED
  BY <1>4, <1>5, <1>6, <1>7, <1>8, <1>9

LEMMA SyscallSleep ==
  ASSUME SafeInv, TypeOK', SleepInv, NEW c \in CPU, Syscall(c)
  PROVE  SleepInv'
<1> DEFINE p == cproc[c]
<1> USE Constants DEF SafeInv, TypeOK, SleepInv
<1>1. /\ p \in Slot /\ state[p] = "RUNNING"
      /\ \A d \in CPU \ {c} :
            cpu[d] # "loop" => cproc[d] \in Slot /\ cproc[d] # p
  BY DEF Syscall, OwnStep, Runs, goto, CpuInv, RunInv, OnCpuInv
<1>2. /\ pc[p] = "user" /\ cpu[c] = "run"
      /\ \/ pc'[p] \in {"exit", "fork", "wait", "kill"}
         \/ pc'[p] = "sleep" /\ arg'[p] < TickMod
      /\ \A s \in Slot \ {p} : pc'[s] = pc[s] /\ arg'[s] = arg[s]
      /\ UNCHANGED <<tickslock, cproc, irq, ticks0, slept, ticks, cpu,
                     state, chan, context>>
  BY <1>1, ConstantsAssumption
  DEF Syscall, OwnStep, Runs, goto, cpuvars, procvars, codevars
<1> HIDE DEF p
<1>3. \A s \in Slot : s # p => (TimeLeft(s)' <=> TimeLeft(s))
  BY <1>1, <1>2 DEF TimeLeft
<1>4. TickLockInv'
  BY <1>1, <1>2, <1>3 DEF TickLockInv, SwtchInv, CpuInv, p
<1>5. IdleInv'
  BY <1>1, <1>2 DEF IdleInv
<1>6. OffCpuInv'
  BY <1>1, <1>2 DEF OffCpuInv, IdleInv, TickLockInv, p
<1>7. SwtchInv'
  <2> SUFFICES ASSUME NEW d \in CPU, NEW s \in Slot,
                      cproc'[d] = s, cpu'[d] = "swtch"
               PROVE  /\ pc'[s] # "timecheck"
                      /\ pc'[s] = "dosleep" => context'[s] = "sleep"
    BY DEF SwtchInv
  <2>1. cproc[d] = s /\ cpu[d] = "swtch" /\ s # p /\ state[s] = "RUNNING"
    BY <1>1, <1>2, Constants DEF RunInv
  <2> QED
    BY <1>1, <1>2, <2>1 DEF SwtchInv
<1>8. TickSleepers'
  BY <1>1, <1>2, <1>3 DEF TickSleepers, TickLockInv
<1>9. SleptInv'
  BY <1>1, <1>2 DEF SleptInv, InSleep
<1> QED
  BY <1>4, <1>5, <1>6, <1>7, <1>8, <1>9

LEMMA FaultSleep ==
  ASSUME SafeInv, TypeOK', SleepInv, NEW c \in CPU, Fault(c)
  PROVE  SleepInv'
<1> USE Constants DEF SafeInv, TypeOK, SleepInv, Fault, OwnStep, Runs, goto,
     cpuvars, procvars, codevars
<1>1. cproc[c] \in Slot /\ state[cproc[c]] = "RUNNING"
  BY DEF CpuInv, RunInv
<1>2. TickLockInv'
  BY <1>1 DEF TickLockInv, SwtchInv, OnCpuInv, CpuInv, RunInv, TimeLeft
<1>3. IdleInv'
  BY <1>1 DEF IdleInv, ForkInv, ForkPC
<1>4. OffCpuInv'
  BY <1>1
  DEF OffCpuInv, IdleInv, TickLockInv, OnCpuInv, RunInv, ForkInv, ForkPC
<1>5. SwtchInv'
  BY <1>1 DEF SwtchInv, OffCpuInv, OnCpuInv, RunInv, ForkInv, ForkPC
<1>6. TickSleepers'
  BY <1>1 DEF TickSleepers, TickLockInv, TimeLeft
<1>7. SleptInv'
  BY <1>1 DEF SleptInv, InSleep
<1> QED
  BY <1>2, <1>3, <1>4, <1>5, <1>6, <1>7

LEMMA TrapReturnSleep ==
  ASSUME SafeInv, TypeOK', SleepInv, NEW c \in CPU, TrapReturn(c)
  PROVE  SleepInv'
<1> USE Constants DEF SafeInv, TypeOK, SleepInv, TrapReturn, OwnStep, Runs,
     goto,
     cpuvars, procvars, codevars
<1>1. cproc[c] \in Slot /\ state[cproc[c]] = "RUNNING"
  BY DEF CpuInv, RunInv
<1>2. TickLockInv'
  BY <1>1 DEF TickLockInv, SwtchInv, OnCpuInv, CpuInv, RunInv, TimeLeft
<1>3. IdleInv'
  BY <1>1 DEF IdleInv, ForkInv, ForkPC
<1>4. OffCpuInv'
  BY <1>1
  DEF OffCpuInv, IdleInv, TickLockInv, OnCpuInv, RunInv, ForkInv, ForkPC
<1>5. SwtchInv'
  BY <1>1 DEF SwtchInv, OffCpuInv, OnCpuInv, RunInv, ForkInv, ForkPC
<1>6. TickSleepers'
  BY <1>1 DEF TickSleepers, TickLockInv, TimeLeft
<1>7. SleptInv'
  BY <1>1 DEF SleptInv, InSleep
<1> QED
  BY <1>2, <1>3, <1>4, <1>5, <1>6, <1>7

LEMMA allocprocSleep ==
  ASSUME SafeInv, TypeOK', SleepInv, NEW c \in CPU, allocproc(c)
  PROVE  SleepInv'
<1> DEFINE p == cproc[c]
<1> USE Constants DEF SafeInv, TypeOK, SleepInv
<1>1. /\ p \in Slot /\ state[p] = "RUNNING"
      /\ \A d \in CPU \ {c} :
            cpu[d] # "loop" => cproc[d] \in Slot /\ cproc[d] # p
  BY DEF allocproc, OwnStep, Runs, goto, CpuInv, RunInv, OnCpuInv
<1>2. /\ pc[p] = "fork" /\ cpu[c] = "run" /\ pc'[p] \in {"ret", "kalloc"}
      /\ \A s \in Slot \ {p} : pc'[s] = pc[s] /\ arg'[s] = arg[s]
      /\ \A s \in Slot :
            \/ state'[s] = state[s]
            \/ state[s] = "UNUSED" /\ state'[s] = "EMBRYO"
      /\ context' = context
      /\ UNCHANGED <<tickslock, cproc, irq, ticks0, slept, ticks, cpu, chan>>
  <2>1. pc[p] = "fork" /\ cpu[c] = "run" /\ pc'[p] \in {"ret", "kalloc"}
    BY <1>1 DEF allocproc, OwnStep, Runs, goto, cpuvars, procvars, codevars
  <2>2. \A s \in Slot \ {p} : pc'[s] = pc[s] /\ arg'[s] = arg[s]
    BY <1>1 DEF allocproc, OwnStep, Runs, goto, cpuvars, procvars, codevars
  <2>3. \A s \in Slot :
           \/ state'[s] = state[s]
           \/ state[s] = "UNUSED" /\ state'[s] = "EMBRYO"
    BY <1>1 DEF allocproc, OwnStep, Runs, goto, cpuvars, procvars, codevars
  <2>4. context' = context
    BY <1>1 DEF allocproc, OwnStep, Runs, goto, cpuvars, procvars, codevars
  <2>5. UNCHANGED <<tickslock, cproc, irq, ticks0, slept, ticks, cpu, chan>>
    BY <1>1 DEF allocproc, OwnStep, Runs, goto, cpuvars, procvars, codevars
  <2> QED
    BY <2>1, <2>2, <2>3, <2>4, <2>5
<1> HIDE DEF p
<1>3. \A s \in Slot : s # p => (TimeLeft(s)' <=> TimeLeft(s))
  BY <1>1, <1>2 DEF TimeLeft
<1>4. TickLockInv'
  BY <1>1, <1>2, <1>3 DEF TickLockInv, SwtchInv, CpuInv, p
<1>5. IdleInv'
  BY <1>1, <1>2 DEF IdleInv
<1>6. OffCpuInv'
  BY <1>1, <1>2 DEF OffCpuInv, IdleInv, TickLockInv, p
<1>7. SwtchInv'
  <2> SUFFICES ASSUME NEW d \in CPU, NEW s \in Slot,
                      cproc'[d] = s, cpu'[d] = "swtch"
               PROVE  /\ pc'[s] # "timecheck"
                      /\ pc'[s] = "dosleep" => context'[s] = "sleep"
    BY DEF SwtchInv
  <2>1. cproc[d] = s /\ cpu[d] = "swtch" /\ s # p /\ state[s] = "RUNNING"
    BY <1>1, <1>2, Constants DEF RunInv
  <2> QED
    BY <1>1, <1>2, <2>1 DEF SwtchInv
<1>8. TickSleepers'
  BY <1>1, <1>2, <1>3 DEF TickSleepers, TickLockInv
<1>9. SleptInv'
  BY <1>1, <1>2 DEF SleptInv, InSleep
<1> QED
  BY <1>4, <1>5, <1>6, <1>7, <1>8, <1>9

LEMMA ForkKallocSleep ==
  ASSUME SafeInv, TypeOK', SleepInv, NEW c \in CPU, ForkKalloc(c)
  PROVE  SleepInv'
<1> DEFINE p == cproc[c]
<1> USE Constants DEF SafeInv, TypeOK, SleepInv
<1>1. /\ p \in Slot /\ state[p] = "RUNNING"
      /\ \A d \in CPU \ {c} :
            cpu[d] # "loop" => cproc[d] \in Slot /\ cproc[d] # p
  BY DEF ForkKalloc, OwnStep, Runs, goto, CpuInv, RunInv, OnCpuInv
<1>10. arg[p] \in Slot /\ state[arg[p]] = "EMBRYO"
  BY <1>1 DEF ForkKalloc, OwnStep, Runs, goto, ForkInv, ForkPC
<1>2. /\ pc[p] = "kalloc" /\ cpu[c] = "run" /\ pc'[p] \in {"ret", "copyuvm"}
      /\ \A s \in Slot \ {p} : pc'[s] = pc[s]
      /\ \A s \in Slot :
            \/ state'[s] = state[s]
            \/ state[s] = "EMBRYO" /\ state'[s] = "UNUSED"
      /\ \A s \in Slot : context'[s] = context[s] \/ state[s] = "EMBRYO"
      /\ arg' = arg
      /\ UNCHANGED <<tickslock, cproc, irq, ticks0, slept, ticks, cpu, chan>>
  <2>1. pc[p] = "kalloc" /\ cpu[c] = "run" /\ pc'[p] \in {"ret", "copyuvm"}
    BY <1>1, <1>10
    DEF ForkKalloc, OwnStep, Runs, goto, cpuvars, procvars, codevars
  <2>2. \A s \in Slot \ {p} : pc'[s] = pc[s]
    BY <1>1, <1>10
    DEF ForkKalloc, OwnStep, Runs, goto, cpuvars, procvars, codevars
  <2>3. \A s \in Slot :
           \/ state'[s] = state[s]
           \/ state[s] = "EMBRYO" /\ state'[s] = "UNUSED"
    BY <1>1, <1>10
    DEF ForkKalloc, OwnStep, Runs, goto, cpuvars, procvars, codevars
  <2>4. \A s \in Slot : context'[s] = context[s] \/ state[s] = "EMBRYO"
    BY <1>1, <1>10
    DEF ForkKalloc, OwnStep, Runs, goto, cpuvars, procvars, codevars
  <2>5. arg' = arg
    BY <1>1, <1>10
    DEF ForkKalloc, OwnStep, Runs, goto, cpuvars, procvars, codevars
  <2>6. UNCHANGED <<tickslock, cproc, irq, ticks0, slept, ticks, cpu, chan>>
    BY <1>1, <1>10
    DEF ForkKalloc, OwnStep, Runs, goto, cpuvars, procvars, codevars
  <2> QED
    BY <2>1, <2>2, <2>3, <2>4, <2>5, <2>6
<1> HIDE DEF p
<1>3. \A s \in Slot : (TimeLeft(s)' <=> TimeLeft(s))
  BY <1>1, <1>2 DEF TimeLeft
<1>4. TickLockInv'
  BY <1>1, <1>2, <1>3 DEF TickLockInv, SwtchInv, CpuInv, p
<1>5. IdleInv'
  BY <1>1, <1>2 DEF IdleInv
<1>6. OffCpuInv'
  BY <1>1, <1>2 DEF OffCpuInv, IdleInv, TickLockInv, p
<1>7. SwtchInv'
  <2> SUFFICES ASSUME NEW d \in CPU, NEW s \in Slot,
                      cproc'[d] = s, cpu'[d] = "swtch"
               PROVE  /\ pc'[s] # "timecheck"
                      /\ pc'[s] = "dosleep" => context'[s] = "sleep"
    BY DEF SwtchInv
  <2>1. cproc[d] = s /\ cpu[d] = "swtch" /\ s # p /\ state[s] = "RUNNING"
    BY <1>1, <1>2, Constants DEF RunInv
  <2> QED
    BY <1>1, <1>2, <2>1 DEF SwtchInv
<1>8. TickSleepers'
  BY <1>1, <1>2, <1>3 DEF TickSleepers, TickLockInv
<1>9. SleptInv'
  BY <1>1, <1>2 DEF SleptInv, InSleep
<1> QED
  BY <1>4, <1>5, <1>6, <1>7, <1>8, <1>9

LEMMA ForkCopySleep ==
  ASSUME SafeInv, TypeOK', SleepInv, NEW c \in CPU, ForkCopy(c)
  PROVE  SleepInv'
<1> DEFINE p == cproc[c]
<1> USE Constants DEF SafeInv, TypeOK, SleepInv
<1>1. /\ p \in Slot /\ state[p] = "RUNNING"
      /\ \A d \in CPU \ {c} :
            cpu[d] # "loop" => cproc[d] \in Slot /\ cproc[d] # p
  BY DEF ForkCopy, OwnStep, Runs, goto, CpuInv, RunInv, OnCpuInv
<1>10. arg[p] \in Slot /\ state[arg[p]] = "EMBRYO"
  BY <1>1 DEF ForkCopy, OwnStep, Runs, goto, ForkInv, ForkPC
<1>11. \/ pc' = [pc EXCEPT ![p] = "runnable", ![arg[p]] = "user"]
       \/ pc' = [pc EXCEPT ![p] = "ret"]
  BY DEF ForkCopy, goto
<1>2. /\ pc[p] = "copyuvm" /\ cpu[c] = "run" /\ pc'[p] \in {"ret", "runnable"}
      /\ \A s \in Slot \ {p} :
            pc'[s] = pc[s] \/ (state[s] = "EMBRYO" /\ pc'[s] = "user")
      /\ \A s \in Slot :
            \/ state'[s] = state[s]
            \/ state[s] = "EMBRYO" /\ state'[s] = "UNUSED"
      /\ UNCHANGED <<context, arg>>
      /\ UNCHANGED <<tickslock, cproc, irq, ticks0, slept, ticks, cpu, chan>>
  <2>1. pc[p] = "copyuvm" /\ cpu[c] = "run" /\ pc'[p] \in {"ret", "runnable"}
    BY <1>1, <1>10, <1>11
    DEF ForkCopy, OwnStep, Runs, goto, cpuvars, procvars, codevars
  <2>2. \A s \in Slot \ {p} :
           pc'[s] = pc[s] \/ (state[s] = "EMBRYO" /\ pc'[s] = "user")
    BY <1>1, <1>10, <1>11
  <2>3. \A s \in Slot :
           \/ state'[s] = state[s]
           \/ state[s] = "EMBRYO" /\ state'[s] = "UNUSED"
    BY <1>1, <1>10, <1>11
    DEF ForkCopy, OwnStep, Runs, goto, cpuvars, procvars, codevars
  <2>4. UNCHANGED <<context, arg>>
    BY <1>1, <1>10, <1>11
    DEF ForkCopy, OwnStep, Runs, goto, cpuvars, procvars, codevars
  <2>5. UNCHANGED <<tickslock, cproc, irq, ticks0, slept, ticks, cpu, chan>>
    BY <1>1, <1>10, <1>11
    DEF ForkCopy, OwnStep, Runs, goto, cpuvars, procvars, codevars
  <2> QED
    BY <2>1, <2>2, <2>3, <2>4, <2>5
<1> HIDE DEF p
<1>3. \A s \in Slot : (TimeLeft(s)' <=> TimeLeft(s))
  BY <1>1, <1>2 DEF TimeLeft
<1>4. TickLockInv'
  BY <1>1, <1>2, <1>3 DEF TickLockInv, SwtchInv, CpuInv, p
<1>5. IdleInv'
  BY <1>1, <1>2 DEF IdleInv
<1>6. OffCpuInv'
  BY <1>1, <1>2 DEF OffCpuInv, IdleInv, TickLockInv, p
<1>7. SwtchInv'
  <2> SUFFICES ASSUME NEW d \in CPU, NEW s \in Slot,
                      cproc'[d] = s, cpu'[d] = "swtch"
               PROVE  /\ pc'[s] # "timecheck"
                      /\ pc'[s] = "dosleep" => context'[s] = "sleep"
    BY DEF SwtchInv
  <2>1. cproc[d] = s /\ cpu[d] = "swtch" /\ s # p /\ state[s] = "RUNNING"
    BY <1>1, <1>2, Constants DEF RunInv
  <2> QED
    BY <1>1, <1>2, <2>1 DEF SwtchInv
<1>8. TickSleepers'
  BY <1>1, <1>2, <1>3 DEF TickSleepers, TickLockInv
<1>9. SleptInv'
  BY <1>1, <1>2 DEF SleptInv, InSleep
<1> QED
  BY <1>4, <1>5, <1>6, <1>7, <1>8, <1>9

LEMMA ForkRunnableSleep ==
  ASSUME SafeInv, TypeOK', SleepInv, NEW c \in CPU, ForkRunnable(c)
  PROVE  SleepInv'
<1> DEFINE p == cproc[c]
<1> USE Constants DEF SafeInv, TypeOK, SleepInv
<1>1. /\ p \in Slot /\ state[p] = "RUNNING"
      /\ \A d \in CPU \ {c} :
            cpu[d] # "loop" => cproc[d] \in Slot /\ cproc[d] # p
  BY DEF ForkRunnable, OwnStep, Runs, goto, CpuInv, RunInv, OnCpuInv
<1>10. arg[p] \in Slot /\ state[arg[p]] = "EMBRYO"
  BY <1>1 DEF ForkRunnable, OwnStep, Runs, goto, ForkInv, ForkPC
<1>2. /\ pc[p] = "runnable" /\ cpu[c] = "run" /\ pc'[p] = "ret"
      /\ \A s \in Slot \ {p} : pc'[s] = pc[s]
      /\ \A s \in Slot :
            \/ state'[s] = state[s]
            \/ state[s] = "EMBRYO" /\ state'[s] = "RUNNABLE"
      /\ UNCHANGED <<context, arg>>
      /\ UNCHANGED <<tickslock, cproc, irq, ticks0, slept, ticks, cpu, chan>>
  <2>1. pc[p] = "runnable" /\ cpu[c] = "run" /\ pc'[p] = "ret"
    BY <1>1, <1>10
    DEF ForkRunnable, OwnStep, Runs, goto, cpuvars, procvars, codevars
  <2>2. \A s \in Slot \ {p} : pc'[s] = pc[s]
    BY <1>1, <1>10
    DEF ForkRunnable, OwnStep, Runs, goto, cpuvars, procvars, codevars
  <2>3. \A s \in Slot :
           \/ state'[s] = state[s]
           \/ state[s] = "EMBRYO" /\ state'[s] = "RUNNABLE"
    BY <1>1, <1>10
    DEF ForkRunnable, OwnStep, Runs, goto, cpuvars, procvars, codevars
  <2>4. UNCHANGED <<context, arg>>
    BY <1>1, <1>10
    DEF ForkRunnable, OwnStep, Runs, goto, cpuvars, procvars, codevars
  <2>5. UNCHANGED <<tickslock, cproc, irq, ticks0, slept, ticks, cpu, chan>>
    BY <1>1, <1>10
    DEF ForkRunnable, OwnStep, Runs, goto, cpuvars, procvars, codevars
  <2> QED
    BY <2>1, <2>2, <2>3, <2>4, <2>5
<1> HIDE DEF p
<1>3. \A s \in Slot : (TimeLeft(s)' <=> TimeLeft(s))
  BY <1>1, <1>2 DEF TimeLeft
<1>4. TickLockInv'
  BY <1>1, <1>2, <1>3 DEF TickLockInv, SwtchInv, CpuInv, p
<1>5. IdleInv'
  BY <1>1, <1>2 DEF IdleInv
<1>6. OffCpuInv'
  BY <1>1, <1>2 DEF OffCpuInv, IdleInv, TickLockInv, p
<1>7. SwtchInv'
  <2> SUFFICES ASSUME NEW d \in CPU, NEW s \in Slot,
                      cproc'[d] = s, cpu'[d] = "swtch"
               PROVE  /\ pc'[s] # "timecheck"
                      /\ pc'[s] = "dosleep" => context'[s] = "sleep"
    BY DEF SwtchInv
  <2>1. cproc[d] = s /\ cpu[d] = "swtch" /\ s # p /\ state[s] = "RUNNING"
    BY <1>1, <1>2, Constants DEF RunInv
  <2> QED
    BY <1>1, <1>2, <2>1 DEF SwtchInv
<1>8. TickSleepers'
  BY <1>1, <1>2, <1>3 DEF TickSleepers, TickLockInv
<1>9. SleptInv'
  BY <1>1, <1>2 DEF SleptInv, InSleep
<1> QED
  BY <1>4, <1>5, <1>6, <1>7, <1>8, <1>9

LEMMA exitSleep ==
  ASSUME SafeInv, TypeOK', SleepInv, NEW c \in CPU, exit(c)
  PROVE  SleepInv'
<1> USE Constants DEF SafeInv, TypeOK, SleepInv, exit, OwnStep, Runs, sched,
     wakeup1,
     cpuvars, procvars, codevars
<1>1. cproc[c] \in Slot /\ state[cproc[c]] = "RUNNING"
  BY DEF CpuInv, RunInv
<1>2. TickLockInv'
  BY <1>1 DEF TickLockInv, SwtchInv, OnCpuInv, CpuInv, RunInv, TimeLeft
<1>3. IdleInv'
  BY <1>1 DEF IdleInv, ForkInv, ForkPC
<1>4. OffCpuInv'
  BY <1>1
  DEF OffCpuInv, IdleInv, TickLockInv, OnCpuInv, RunInv, ForkInv, ForkPC
<1>5. SwtchInv'
  BY <1>1 DEF SwtchInv, OffCpuInv, OnCpuInv, RunInv, ForkInv, ForkPC
<1>6. TickSleepers'
  BY <1>1 DEF TickSleepers, TickLockInv, TimeLeft
<1>7. SleptInv'
  BY <1>1 DEF SleptInv, InSleep
<1> QED
  BY <1>2, <1>3, <1>4, <1>5, <1>6, <1>7

LEMMA InitExitingSleep ==
  ASSUME SafeInv, TypeOK', SleepInv, NEW c \in CPU, InitExiting(c)
  PROVE  SleepInv'
<1> USE Constants DEF SafeInv, TypeOK, SleepInv, InitExiting, OwnStep, Runs,
     cpuvars, procvars, codevars
<1>1. cproc[c] \in Slot /\ state[cproc[c]] = "RUNNING"
  BY DEF CpuInv, RunInv
<1>2. TickLockInv'
  BY <1>1 DEF TickLockInv, SwtchInv, OnCpuInv, CpuInv, RunInv, TimeLeft
<1>3. IdleInv'
  BY <1>1 DEF IdleInv, ForkInv, ForkPC
<1>4. OffCpuInv'
  BY <1>1
  DEF OffCpuInv, IdleInv, TickLockInv, OnCpuInv, RunInv, ForkInv, ForkPC
<1>5. SwtchInv'
  BY <1>1 DEF SwtchInv, OffCpuInv, OnCpuInv, RunInv, ForkInv, ForkPC
<1>6. TickSleepers'
  BY <1>1 DEF TickSleepers, TickLockInv, TimeLeft
<1>7. SleptInv'
  BY <1>1 DEF SleptInv, InSleep
<1> QED
  BY <1>2, <1>3, <1>4, <1>5, <1>6, <1>7

LEMMA WaitReapSleep ==
  ASSUME SafeInv, TypeOK', SleepInv, NEW c \in CPU, WaitReap(c)
  PROVE  SleepInv'
<1> USE Constants DEF SafeInv, TypeOK, SleepInv, WaitReap, OwnStep, Runs,
     goto, InWait, ZombieChildren,
     cpuvars, procvars, codevars
<1>1. cproc[c] \in Slot /\ state[cproc[c]] = "RUNNING"
  BY DEF CpuInv, RunInv
<1>2. TickLockInv'
  BY <1>1 DEF TickLockInv, SwtchInv, OnCpuInv, CpuInv, RunInv, TimeLeft
<1>3. IdleInv'
  BY <1>1 DEF IdleInv, ForkInv, ForkPC
<1>4. OffCpuInv'
  BY <1>1
  DEF OffCpuInv, IdleInv, TickLockInv, OnCpuInv, RunInv, ForkInv, ForkPC
<1>5. SwtchInv'
  BY <1>1 DEF SwtchInv, OffCpuInv, OnCpuInv, RunInv, ForkInv, ForkPC
<1>6. TickSleepers'
  BY <1>1 DEF TickSleepers, TickLockInv, TimeLeft
<1>7. SleptInv'
  BY <1>1 DEF SleptInv, InSleep
<1> QED
  BY <1>2, <1>3, <1>4, <1>5, <1>6, <1>7

LEMMA WaitFailSleep ==
  ASSUME SafeInv, TypeOK', SleepInv, NEW c \in CPU, WaitFail(c)
  PROVE  SleepInv'
<1> USE Constants DEF SafeInv, TypeOK, SleepInv, WaitFail, OwnStep, Runs,
     goto, InWait,
     cpuvars, procvars, codevars
<1>1. cproc[c] \in Slot /\ state[cproc[c]] = "RUNNING"
  BY DEF CpuInv, RunInv
<1>2. TickLockInv'
  BY <1>1 DEF TickLockInv, SwtchInv, OnCpuInv, CpuInv, RunInv, TimeLeft
<1>3. IdleInv'
  BY <1>1 DEF IdleInv, ForkInv, ForkPC
<1>4. OffCpuInv'
  BY <1>1
  DEF OffCpuInv, IdleInv, TickLockInv, OnCpuInv, RunInv, ForkInv, ForkPC
<1>5. SwtchInv'
  BY <1>1 DEF SwtchInv, OffCpuInv, OnCpuInv, RunInv, ForkInv, ForkPC
<1>6. TickSleepers'
  BY <1>1 DEF TickSleepers, TickLockInv, TimeLeft
<1>7. SleptInv'
  BY <1>1 DEF SleptInv, InSleep
<1> QED
  BY <1>2, <1>3, <1>4, <1>5, <1>6, <1>7

LEMMA WaitSleepSleep ==
  ASSUME SafeInv, TypeOK', SleepInv, NEW c \in CPU, WaitSleep(c)
  PROVE  SleepInv'
<1> DEFINE p == cproc[c]
<1> USE Constants DEF SafeInv, TypeOK, SleepInv
<1>1. /\ p \in Slot /\ state[p] = "RUNNING"
      /\ \A d \in CPU \ {c} :
            cpu[d] # "loop" => cproc[d] \in Slot /\ cproc[d] # p
  BY
  DEF WaitSleep, OwnStep, Runs, goto, InWait, sched, CpuInv, RunInv, OnCpuInv
<1>2. /\ pc[p] \in {"wait", "rescan"} /\ pc'[p] = "wait"
      /\ cpu[c] = "run" /\ cpu' = [cpu EXCEPT ![c] = "scan"]
      /\ state'[p] = "SLEEPING" /\ chan'[p] # TicksChan
      /\ \A s \in Slot \ {p} : /\ pc'[s] = pc[s] /\ chan'[s] = chan[s]
                              /\ state'[s] = state[s]
                              /\ context'[s] = context[s]
      /\ UNCHANGED <<tickslock, cproc, irq, ticks0, slept, ticks, arg>>
  BY <1>1
  DEF WaitSleep, OwnStep, Runs, goto, InWait, sched, cpuvars, procvars,
       codevars, TicksChan, Slot
<1> HIDE DEF p
<1>3. \A s \in Slot : (TimeLeft(s)' <=> TimeLeft(s))
  BY <1>1, <1>2 DEF TimeLeft
<1>4. TickLockInv'
  BY <1>1, <1>2, <1>3 DEF TickLockInv, SwtchInv, CpuInv, p
<1>5. IdleInv'
  BY <1>1, <1>2 DEF IdleInv
<1>6. OffCpuInv'
  BY <1>1, <1>2 DEF OffCpuInv, IdleInv, TickLockInv, p
<1>7. SwtchInv'
  <2> SUFFICES ASSUME NEW d \in CPU, NEW s \in Slot,
                      cproc'[d] = s, cpu'[d] = "swtch"
               PROVE  /\ pc'[s] # "timecheck"
                      /\ pc'[s] = "dosleep" => context'[s] = "sleep"
    BY DEF SwtchInv
  <2>1. cproc[d] = s /\ cpu[d] = "swtch" /\ s # p /\ state[s] = "RUNNING"
    BY <1>1, <1>2, Constants DEF RunInv
  <2> QED
    BY <1>1, <1>2, <2>1 DEF SwtchInv
<1>8. TickSleepers'
  BY <1>1, <1>2, <1>3 DEF TickSleepers, TickLockInv
<1>9. SleptInv'
  BY <1>1, <1>2 DEF SleptInv, InSleep
<1> QED
  BY <1>4, <1>5, <1>6, <1>7, <1>8, <1>9

LEMMA killSleep ==
  ASSUME SafeInv, TypeOK', SleepInv, NEW c \in CPU, kill(c)
  PROVE  SleepInv'
<1> DEFINE p == cproc[c]
<1> USE Constants DEF SafeInv, TypeOK, SleepInv
<1>1. /\ p \in Slot /\ state[p] = "RUNNING"
      /\ \A d \in CPU \ {c} :
            cpu[d] # "loop" => cproc[d] \in Slot /\ cproc[d] # p
  BY DEF kill, OwnStep, Runs, goto, KilledState, CpuInv, RunInv, OnCpuInv
<1>2. /\ pc[p] = "kill" /\ cpu[c] = "run" /\ pc'[p] = "ret"
      /\ \A s \in Slot \ {p} : pc'[s] = pc[s]
      /\ \A s \in Slot :
            \/ state'[s] = state[s]
            \/ state[s] = "SLEEPING" /\ state'[s] = "RUNNABLE"
      /\ UNCHANGED <<tickslock, cproc, irq, ticks0, slept, ticks, cpu, chan,
                     context, arg>>
  BY <1>1
  DEF kill, OwnStep, Runs, goto, KilledState, cpuvars, procvars, codevars
<1> HIDE DEF p
<1>3. \A s \in Slot : (TimeLeft(s)' <=> TimeLeft(s))
  BY <1>1, <1>2 DEF TimeLeft
<1>4. TickLockInv'
  BY <1>1, <1>2, <1>3 DEF TickLockInv, SwtchInv, CpuInv, p
<1>5. IdleInv'
  BY <1>1, <1>2 DEF IdleInv
<1>6. OffCpuInv'
  BY <1>1, <1>2 DEF OffCpuInv, IdleInv, TickLockInv, p
<1>7. SwtchInv'
  <2> SUFFICES ASSUME NEW d \in CPU, NEW s \in Slot,
                      cproc'[d] = s, cpu'[d] = "swtch"
               PROVE  /\ pc'[s] # "timecheck"
                      /\ pc'[s] = "dosleep" => context'[s] = "sleep"
    BY DEF SwtchInv
  <2>1. cproc[d] = s /\ cpu[d] = "swtch" /\ s # p /\ state[s] = "RUNNING"
    BY <1>1, <1>2, Constants DEF RunInv
  <2> QED
    BY <1>1, <1>2, <2>1 DEF SwtchInv
<1>8. TickSleepers'
  BY <1>1, <1>2, <1>3 DEF TickSleepers, TickLockInv
<1>9. SleptInv'
  BY <1>1, <1>2 DEF SleptInv, InSleep
<1> QED
  BY <1>4, <1>5, <1>6, <1>7, <1>8, <1>9

LEMMA SleepEnterSleep ==
  ASSUME SafeInv, TypeOK', SleepInv, NEW c \in CPU, SleepEnter(c)
  PROVE  SleepInv'
<1> DEFINE p == cproc[c]
<1> USE Constants DEF SafeInv, TypeOK, SleepInv
<1>1. /\ p \in Slot /\ state[p] = "RUNNING"
      /\ \A d \in CPU \ {c} :
            cpu[d] # "loop" => cproc[d] \in Slot /\ cproc[d] # p
  BY DEF SleepEnter, OwnStep, Runs, goto, CpuInv, RunInv, OnCpuInv
<1>2. /\ pc[p] = "sleep" /\ pc'[p] = "timecheck" /\ tickslock = NoCpu
      /\ irq[c] = "none" /\ cpu[c] = "run"
      /\ tickslock' = c /\ ticks0'[p] = ticks /\ slept'[p] = 0
      /\ \A s \in Slot \ {p} : /\ pc'[s] = pc[s] /\ ticks0'[s] = ticks0[s]
                              /\ slept'[s] = slept[s]
      /\ UNCHANGED <<cproc, irq, ticks, cpu, state, chan, context, arg>>
      /\ (ticks - ticks) % TickMod = 0
  <2>1. pc[p] = "sleep" /\ pc'[p] = "timecheck" /\ tickslock = NoCpu
    BY <1>1, TickArithmetic
    DEF SleepEnter, OwnStep, Runs, goto, cpuvars, procvars, codevars
  <2>2. irq[c] = "none" /\ cpu[c] = "run"
    BY <1>1, TickArithmetic
    DEF SleepEnter, OwnStep, Runs, goto, cpuvars, procvars, codevars
  <2>3. tickslock' = c /\ ticks0'[p] = ticks /\ slept'[p] = 0
    BY <1>1, TickArithmetic
    DEF SleepEnter, OwnStep, Runs, goto, cpuvars, procvars, codevars
  <2>4. \A s \in Slot \ {p} : /\ pc'[s] = pc[s] /\ ticks0'[s] = ticks0[s]
                             /\ slept'[s] = slept[s]
    BY <1>1, TickArithmetic
    DEF SleepEnter, OwnStep, Runs, goto, cpuvars, procvars, codevars
  <2>5. UNCHANGED <<cproc, irq, ticks, cpu, state, chan, context, arg>>
    BY <1>1, TickArithmetic
    DEF SleepEnter, OwnStep, Runs, goto, cpuvars, procvars, codevars
  <2>6. (ticks - ticks) % TickMod = 0
    BY <1>1, TickArithmetic
    DEF SleepEnter, OwnStep, Runs, goto, cpuvars, procvars, codevars
  <2> QED
    BY <2>1, <2>2, <2>3, <2>4, <2>5, <2>6
<1> HIDE DEF p
<1>3. \A s \in Slot : s # p => (TimeLeft(s)' <=> TimeLeft(s))
  BY <1>1, <1>2 DEF TimeLeft
<1>4. TickLockInv'
  BY <1>1, <1>2, <1>3 DEF TickLockInv, SwtchInv, CpuInv, p
<1>5. IdleInv'
  BY <1>1, <1>2 DEF IdleInv
<1>6. OffCpuInv'
  BY <1>1, <1>2 DEF OffCpuInv, IdleInv, TickLockInv, p
<1>7. SwtchInv'
  <2> SUFFICES ASSUME NEW d \in CPU, NEW s \in Slot,
                      cproc'[d] = s, cpu'[d] = "swtch"
               PROVE  /\ pc'[s] # "timecheck"
                      /\ pc'[s] = "dosleep" => context'[s] = "sleep"
    BY DEF SwtchInv
  <2>1. cproc[d] = s /\ cpu[d] = "swtch" /\ s # p /\ state[s] = "RUNNING"
    BY <1>1, <1>2, Constants DEF RunInv
  <2> QED
    BY <1>1, <1>2, <2>1 DEF SwtchInv
<1>8. TickSleepers'
  BY <1>1, <1>2, <1>3 DEF TickSleepers, TickLockInv
<1>9. SleptInv'
  BY <1>1, <1>2 DEF SleptInv, InSleep
<1> QED
  BY <1>4, <1>5, <1>6, <1>7, <1>8, <1>9

LEMMA SleepCheckSleep ==
  ASSUME SafeInv, TypeOK', SleepInv, NEW c \in CPU, SleepCheck(c)
  PROVE  SleepInv'
<1> DEFINE p == cproc[c]
<1> USE Constants DEF SafeInv, TypeOK, SleepInv
<1>1. /\ p \in Slot /\ state[p] = "RUNNING"
      /\ \A d \in CPU \ {c} :
            cpu[d] # "loop" => cproc[d] \in Slot /\ cproc[d] # p
  BY DEF SleepCheck, OwnStep, Runs, goto, CpuInv, RunInv, OnCpuInv
<1>2. /\ pc[p] = "timecheck" /\ cpu[c] = "run" /\ tickslock = c
      /\ irq[c] = "none"
      /\ \/ pc'[p] = "dosleep" /\ tickslock' = c /\ TimeLeft(p)
         \/ pc'[p] = "ret" /\ tickslock' = NoCpu
      /\ \A s \in Slot \ {p} : pc'[s] = pc[s]
      /\ UNCHANGED <<cproc, irq, ticks0, slept, ticks, cpu, state, chan,
                     context, arg>>
  BY <1>1 DEF SleepCheck, OwnStep, Runs, goto, cpuvars, procvars, codevars
<1> HIDE DEF p
<1>3. \A s \in Slot : (TimeLeft(s)' <=> TimeLeft(s))
  BY <1>1, <1>2 DEF TimeLeft
<1>4. TickLockInv'
  BY <1>1, <1>2, <1>3 DEF TickLockInv, SwtchInv, CpuInv, p
<1>5. IdleInv'
  BY <1>1, <1>2 DEF IdleInv
<1>6. OffCpuInv'
  BY <1>1, <1>2 DEF OffCpuInv, IdleInv, TickLockInv, p
<1>7. SwtchInv'
  <2> SUFFICES ASSUME NEW d \in CPU, NEW s \in Slot,
                      cproc'[d] = s, cpu'[d] = "swtch"
               PROVE  /\ pc'[s] # "timecheck"
                      /\ pc'[s] = "dosleep" => context'[s] = "sleep"
    BY DEF SwtchInv
  <2>1. cproc[d] = s /\ cpu[d] = "swtch" /\ s # p /\ state[s] = "RUNNING"
    BY <1>1, <1>2, Constants DEF RunInv
  <2> QED
    BY <1>1, <1>2, <2>1 DEF SwtchInv
<1>8. TickSleepers'
  BY <1>1, <1>2, <1>3 DEF TickSleepers, TickLockInv
<1>9. SleptInv'
  BY <1>1, <1>2 DEF SleptInv, InSleep
<1> QED
  BY <1>4, <1>5, <1>6, <1>7, <1>8, <1>9

LEMMA SleepOnTicksSleep ==
  ASSUME SafeInv, TypeOK', SleepInv, NEW c \in CPU, SleepOnTicks(c)
  PROVE  SleepInv'
<1> DEFINE p == cproc[c]
<1> USE Constants DEF SafeInv, TypeOK, SleepInv
<1>1. /\ p \in Slot /\ state[p] = "RUNNING"
      /\ \A d \in CPU \ {c} :
            cpu[d] # "loop" => cproc[d] \in Slot /\ cproc[d] # p
  BY DEF SleepOnTicks, OwnStep, Runs, sched, CpuInv, RunInv, OnCpuInv
<1>2. /\ pc[p] = "dosleep" /\ cpu[c] = "run"
      /\ cpu' = [cpu EXCEPT ![c] = "scan"]
      /\ tickslock = c /\ tickslock' = NoCpu
      /\ irq[c] = "none"
      /\ \A s \in Slot : s = p => TimeLeft(s)
      /\ state'[p] = "SLEEPING" /\ context'[p] = "sleep"
      /\ \A s \in Slot \ {p} : /\ chan'[s] = chan[s] /\ state'[s] = state[s]
                              /\ context'[s] = context[s]
      /\ UNCHANGED <<cproc, irq, ticks0, slept, ticks, pc, arg>>
  <2>1. pc[p] = "dosleep" /\ cpu[c] = "run"
    BY <1>1
    DEF SleepOnTicks, OwnStep, Runs, sched, cpuvars, procvars, codevars,
         TickLockInv
  <2>2. cpu' = [cpu EXCEPT ![c] = "scan"]
    BY <1>1
    DEF SleepOnTicks, OwnStep, Runs, sched, cpuvars, procvars, codevars,
         TickLockInv
  <2>3. tickslock = c /\ tickslock' = NoCpu
    BY <1>1
    DEF SleepOnTicks, OwnStep, Runs, sched, cpuvars, procvars, codevars,
         TickLockInv
  <2>4. irq[c] = "none"
    BY <1>1
    DEF SleepOnTicks, OwnStep, Runs, sched, cpuvars, procvars, codevars,
         TickLockInv
  <2>5. \A s \in Slot : s = p => TimeLeft(s)
    BY <1>1
    DEF SleepOnTicks, OwnStep, Runs, sched, cpuvars, procvars, codevars,
         TickLockInv
  <2>6. state'[p] = "SLEEPING" /\ context'[p] = "sleep"
    BY <1>1
    DEF SleepOnTicks, OwnStep, Runs, sched, cpuvars, procvars, codevars,
         TickLockInv
  <2>7. \A s \in Slot \ {p} : /\ chan'[s] = chan[s] /\ state'[s] = state[s]
                             /\ context'[s] = context[s]
    BY <1>1
    DEF SleepOnTicks, OwnStep, Runs, sched, cpuvars, procvars, codevars,
         TickLockInv
  <2>8. UNCHANGED <<cproc, irq, ticks0, slept, ticks, pc, arg>>
    BY <1>1
    DEF SleepOnTicks, OwnStep, Runs, sched, cpuvars, procvars, codevars,
         TickLockInv
  <2> QED
    BY <2>1, <2>2, <2>3, <2>4, <2>5, <2>6, <2>7, <2>8
<1> HIDE DEF p
<1>3. \A s \in Slot : (TimeLeft(s)' <=> TimeLeft(s))
  BY <1>1, <1>2 DEF TimeLeft
<1>4. TickLockInv'
  BY <1>1, <1>2, <1>3 DEF TickLockInv, SwtchInv, CpuInv, p
<1>5. IdleInv'
  BY <1>1, <1>2 DEF IdleInv
<1>6. OffCpuInv'
  BY <1>1, <1>2 DEF OffCpuInv, IdleInv, TickLockInv, p
<1>7. SwtchInv'
  <2> SUFFICES ASSUME NEW d \in CPU, NEW s \in Slot,
                      cproc'[d] = s, cpu'[d] = "swtch"
               PROVE  /\ pc'[s] # "timecheck"
                      /\ pc'[s] = "dosleep" => context'[s] = "sleep"
    BY DEF SwtchInv
  <2>1. cproc[d] = s /\ cpu[d] = "swtch" /\ s # p /\ state[s] = "RUNNING"
    BY <1>1, <1>2, Constants DEF RunInv
  <2> QED
    BY <1>1, <1>2, <2>1 DEF SwtchInv
<1>8. TickSleepers'
  BY <1>1, <1>2, <1>3 DEF TickSleepers, TickLockInv
<1>9. SleptInv'
  BY <1>1, <1>2 DEF SleptInv, InSleep
<1> QED
  BY <1>4, <1>5, <1>6, <1>7, <1>8, <1>9

LEMMA SleepRelockSleep ==
  ASSUME SafeInv, TypeOK', SleepInv, NEW c \in CPU, SleepRelock(c)
  PROVE  SleepInv'
<1> USE Constants DEF SafeInv, TypeOK, SleepInv, SleepRelock, OwnStep, Runs,
     goto,
     cpuvars, procvars, codevars
<1>1. cproc[c] \in Slot /\ state[cproc[c]] = "RUNNING"
  BY DEF CpuInv, RunInv
<1>2. TickLockInv'
  BY <1>1 DEF TickLockInv, SwtchInv, OnCpuInv, CpuInv, RunInv, TimeLeft
<1>3. IdleInv'
  BY <1>1 DEF IdleInv, ForkInv, ForkPC
<1>4. OffCpuInv'
  BY <1>1
  DEF OffCpuInv, IdleInv, TickLockInv, OnCpuInv, RunInv, ForkInv, ForkPC
<1>5. SwtchInv'
  BY <1>1 DEF SwtchInv, OffCpuInv, OnCpuInv, RunInv, ForkInv, ForkPC
<1>6. TickSleepers'
  BY <1>1 DEF TickSleepers, TickLockInv, TimeLeft
<1>7. SleptInv'
  BY <1>1 DEF SleptInv, InSleep
<1> QED
  BY <1>2, <1>3, <1>4, <1>5, <1>6, <1>7

\* A tick counts for whoever has read ticks0, and finds nobody between
\* sys_sleep()'s test and its sleep().
LEMMA TimerInterruptSleep ==
  ASSUME SafeInv, TypeOK', SleepInv, NEW c \in CPU, TimerInterrupt(c)
  PROVE  SleepInv'
<1> USE Constants DEF SafeInv, TypeOK, SleepInv
<1>1. /\ tickslock # c
      /\ UNCHANGED <<cproc, cpu, state, chan, context, pc, arg, ticks0>>
      /\ \A d \in CPU \ {c} : irq'[d] = irq[d]
  BY DEF TimerInterrupt, IF_on, procvars
<1>2. (IdleInv /\ OffCpuInv /\ SwtchInv)'
  BY <1>1 DEF IdleInv, OffCpuInv, SwtchInv
<1>3. CASE c # 0 /\ irq' = [irq EXCEPT ![c] = "yield"]
           /\ UNCHANGED <<tickslock, ticks, slept>>
  <2>1. \A s \in Slot : TimeLeft(s)' <=> TimeLeft(s)
    BY <1>1, <1>3 DEF TimeLeft
  <2>2. TickLockInv'
    BY <1>1, <1>3, <2>1 DEF TickLockInv
  <2>3. TickSleepers'
    <3>1. irq[c] # "tick"
      BY DEF TimerInterrupt, IF_on
    <3> QED
      BY <1>1, <1>3, <2>1, <3>1 DEF TickSleepers
  <2>4. SleptInv'
    BY <1>1, <1>3 DEF SleptInv
  <2> QED
    BY <1>2, <2>2, <2>3, <2>4
<1>4. CASE /\ tickslock = NoCpu /\ tickslock' = c
           /\ irq' = [irq EXCEPT ![c] = "tick"]
           /\ ticks' = TickPlusOne
           /\ slept' = [s \in Slot |->
                          IF pc[s] \in InSleep /\ slept[s] < TickMod
                          THEN slept[s] + 1 ELSE slept[s]]
  <2>1. TickLockInv'
    BY <1>1, <1>4 DEF TickLockInv
  <2>2. TickSleepers'
    BY <1>4 DEF TickSleepers
  <2>3. ASSUME NEW s \in Slot, pc[s] \in InSleep, slept[s] # TickMod
        PROVE  slept'[s] = TickMod \/ (ticks' - ticks0[s]) % TickMod = slept'[s]
    <3> DEFINE t0 == ticks0[s]
    <3>1. t0 \in 0 .. TickMod - 1 /\ slept'[s] = slept[s] + 1
      <4>1. slept[s] \in 0 .. TickMod /\ ticks0[s] \in 0 .. TickMod - 1
        OBVIOUS
      <4>2. slept[s] < TickMod
        BY <2>3, <4>1, ConstantsAssumption
      <4> QED
        BY <1>4, <2>3, <4>1, <4>2
    <3>2. (ticks - t0) % TickMod = slept[s]
      BY <2>3 DEF SleptInv
    <3>3. slept[s] = IF ticks >= t0 THEN ticks - t0 ELSE ticks - t0 + TickMod
      BY <3>1, <3>2, TickArithmetic
    <3>4. ticks' = IF ticks + 1 = TickMod THEN 0 ELSE ticks + 1
      BY <1>4, TickArithmetic DEF TickPlusOne
    <3>5. (ticks' - t0) % TickMod =
            IF ticks' >= t0 THEN ticks' - t0 ELSE ticks' - t0 + TickMod
      BY <3>1, TickArithmetic
    <3> HIDE DEF t0
    <3> QED
      BY <3>1, <3>3, <3>4, <3>5, ConstantsAssumption DEF t0
  <2>4. ASSUME NEW s \in Slot, slept[s] = TickMod PROVE slept'[s] = TickMod
    BY <1>4, <2>4, ConstantsAssumption
  <2>5. SleptInv'
    BY <1>1, <2>3, <2>4 DEF SleptInv
  <2> QED
    BY <1>2, <2>1, <2>2, <2>5
<1> QED
  BY <1>3, <1>4 DEF TimerInterrupt

LEMMA SleepInit == Init => SleepInv
  BY Constants
  DEF Init, SleepInv, TickLockInv, IdleInv, OffCpuInv, SwtchInv, TickSleepers,
      SleptInv, InSleep

LEMMA SleepStep == SafeInv /\ TypeOK' /\ SleepInv /\ [Next]_vars => SleepInv'
<1> SUFFICES ASSUME SafeInv, TypeOK', SleepInv, [Next]_vars PROVE SleepInv'
  OBVIOUS
<1>1. CASE UNCHANGED vars
  BY <1>1 DEF vars, cpuvars, procvars, codevars, SleepInv, TickLockInv, IdleInv,
     OffCpuInv, SwtchInv, TickSleepers, SleptInv, TimeLeft
<1>2. ASSUME NEW c \in CPU, SchedulerStep(c) \/ Resume(c) PROVE SleepInv'
  BY <1>2, SchedulerStartSleep, SchedulerNextSleep, SchedulerEndSleep,
     ResumeSleep DEF SchedulerStep
<1>3. ASSUME NEW c \in CPU, TrapStep(c) PROVE SleepInv'
  BY <1>3, TimerInterruptSleep, TimerWakeupSleep, TimerKilledSleep,
     TimerYieldSleep, SyscallSleep, FaultSleep, TrapReturnSleep DEF TrapStep
<1>4. ASSUME NEW c \in CPU, ForkStep(c) PROVE SleepInv'
  BY <1>4, allocprocSleep, ForkKallocSleep, ForkCopySleep, ForkRunnableSleep
     DEF ForkStep
<1>5. ASSUME NEW c \in CPU, CallStep(c) PROVE SleepInv'
  BY <1>1, <1>5, exitSleep, InitExitingSleep, WaitReapSleep, WaitFailSleep,
     WaitSleepSleep, killSleep, SleepEnterSleep, SleepCheckSleep,
     SleepOnTicksSleep, SleepRelockSleep DEF CallStep, Panicked
<1> QED
  BY <1>1, <1>2, <1>3, <1>4, <1>5 DEF Next

\* sys_sleep() and the timer interrupt keep their agreement on tickslock.
THEOREM Sleeping == Spec => []SleepInv
<1>1. SafeInv /\ [Next]_vars => TypeOK'
  BY TypeStep DEF SafeInv
<1> QED
  BY <1>1, Safety, SleepInit, SleepStep, PTL DEF Spec

\* No tick falls between sys_sleep()'s test of the time and its sleep(): the
\* wakeup of every tick finds all who wait for it.
THEOREM TickTheorem == Spec => []TickNeverMissed
<1>1. SleepInv => TickNeverMissed
  BY Constants DEF SleepInv, TickNeverMissed, TickSleepers, TickLockInv
<1> QED
  BY <1>1, Sleeping, PTL

\* Only the loop of sys_sleep() itself leaves its test for the return.
LEMMA TimecheckLeft ==
  ASSUME SafeInv, SleepInv, [Next]_vars, NEW s \in Slot,
         pc[s] = "timecheck", pc'[s] = "ret"
  PROVE  \E c \in CPU : cproc[c] = s /\ SleepCheck(c)
<1> USE Constants DEF SafeInv, TypeOK
<1>1. CASE UNCHANGED vars
  BY <1>1 DEF vars, codevars
<1>2. ASSUME NEW c \in CPU, SchedulerStep(c) \/ Resume(c) PROVE FALSE
  <2>1. CASE SchedulerStep(c)
    BY <1>2, <2>1 DEF SchedulerStep, SchedulerStart, SchedulerNext,
       SchedulerEnd, Dispatch, codevars
  <2>2. CASE Resume(c)
    <3>1. cproc[c] \in Slot
      BY <2>2 DEF Resume, CpuInv
    <3> QED
      BY <2>2, <3>1 DEF Resume
  <2> QED
    BY <1>2, <2>1, <2>2
<1>3. ASSUME NEW c \in CPU, Runs(c) PROVE cproc[c] \in Slot
  BY <1>3 DEF Runs, CpuInv
<1>4. ASSUME NEW c \in CPU, TrapStep(c) PROVE FALSE
  <2>1. CASE TimerInterrupt(c) \/ TimerWakeup(c) \/ TimerYield(c)
    BY <1>4, <2>1 DEF TimerInterrupt, TimerWakeup, TimerYield, codevars
  <2>2. CASE TimerKilled(c)
    BY <1>4, <2>2 DEF TimerKilled, CpuInv
  <2>3. CASE Syscall(c)
    BY <1>3, <1>4, <2>3 DEF Syscall, OwnStep, goto
  <2>4. CASE Fault(c) \/ TrapReturn(c)
    BY <1>3, <1>4, <2>4 DEF Fault, TrapReturn, OwnStep, goto
  <2> QED
    BY <1>4, <2>1, <2>2, <2>3, <2>4 DEF TrapStep
<1>5. ASSUME NEW c \in CPU, ForkStep(c) PROVE FALSE
  <2>1. CASE allocproc(c) \/ ForkKalloc(c) \/ ForkRunnable(c)
    BY <1>3, <1>5, <2>1 DEF allocproc, ForkKalloc, ForkRunnable, OwnStep, goto
  <2>2. CASE ForkCopy(c)
    BY <1>3, <1>5, <2>2 DEF ForkCopy, OwnStep, goto
  <2> QED
    BY <1>5, <2>1, <2>2 DEF ForkStep
<1>6. ASSUME NEW c \in CPU, CallStep(c) PROVE cproc[c] = s /\ SleepCheck(c)
  <2>1. CASE exit(c) \/ InitExiting(c) \/ Panicked(c) \/ SleepOnTicks(c)
    BY <1>6, <2>1 DEF exit, InitExiting, Panicked, SleepOnTicks, vars, codevars
  <2>2. CASE WaitReap(c) \/ WaitFail(c) \/ WaitSleep(c)
    BY <1>3, <1>6, <2>2 DEF WaitReap, WaitFail, WaitSleep, InWait, OwnStep, goto
  <2>3. CASE kill(c) \/ SleepEnter(c) \/ SleepRelock(c)
    BY <1>3, <1>6, <2>3 DEF kill, SleepEnter, SleepRelock, OwnStep, goto
  <2>4. CASE SleepCheck(c)
    BY <1>3, <1>6, <2>4 DEF SleepCheck, OwnStep, goto
  <2> QED
    BY <1>6, <2>1, <2>2, <2>3, <2>4 DEF CallStep
<1> QED
  BY <1>1, <1>2, <1>4, <1>5, <1>6 DEF Next

\* sleep(n) returns early only to a killed process, also when the unsigned
\* counter ticks wraps while the process sleeps.
THEOREM SleepNotEarlyTheorem == Spec => SleepNotEarly
<1>1. ASSUME SafeInv, SleepInv, [Next]_vars
      PROVE  [\A s \in Slot :
                pc[s] = "timecheck" /\ pc'[s] = "ret" =>
                   killed[s] \/ slept[s] >= arg[s]]_vars
  <2> SUFFICES ASSUME NEW s \in Slot, pc[s] = "timecheck", pc'[s] = "ret",
                      ~killed[s]
               PROVE  slept[s] >= arg[s]
    OBVIOUS
  <2>1. PICK c \in CPU : cproc[c] = s /\ SleepCheck(c)
    BY <1>1, TimecheckLeft
  <2>2. ~TimeLeft(s)
    BY <1>1, <2>1 DEF SleepCheck, goto, SafeInv, TypeOK
  <2>3. /\ slept[s] = TickMod \/ (ticks - ticks0[s]) % TickMod = slept[s]
        /\ arg[s] < TickMod
    BY <1>1 DEF SleepInv, SleptInv, InSleep
  <2>4. slept[s] \in Nat /\ arg[s] \in Nat
    BY <1>1, ConstantsAssumption DEF SafeInv, TypeOK
  <2> QED
    BY <2>2, <2>3, <2>4, ConstantsAssumption DEF TimeLeft
<1> QED
  BY <1>1, Safety, Sleeping, PTL DEF Spec, SleepNotEarly
=============================================================================
