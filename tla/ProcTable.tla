----------------------------- MODULE ProcTable -----------------------------
(***************************************************************************)
(* The process table of the kernel in Assignment 3/G17/Part_B: proc.c, the *)
(* timer and kill paths of trap.c, and fork, wait, kill, sleep of          *)
(* sysproc.c.                                                              *)
(*                                                                         *)
(* Every CPU runs either scheduler() or the kernel thread of one process.  *)
(* ptable.lock is an explicit variable because the code hands it over      *)
(* across swtch(): the thread that calls sched() acquires it and a         *)
(* different thread, on the same CPU, releases it.  A critical section     *)
(* that does not switch threads is one step; the accesses that proc.c      *)
(* makes without the lock are steps of their own.                          *)
(***************************************************************************)
EXTENDS Integers

CONSTANTS
    NPROC,      \* slots of ptable.proc
    NCPU,       \* processors that run scheduler()
    MaxPid,     \* bound: no fork is started once nextpid exceeds it
    TickMod,    \* the modulus of the unsigned counter ticks (2^32 in C)
    Calls,      \* the system calls and faults user code makes
    KillArgs,   \* the arguments of kill()
    SleepArgs   \* the arguments of sleep()

AllCalls == {"fork", "exit", "wait", "kill", "sleep", "fault"}

ASSUME ConstantsAssumption ==
    /\ NPROC \in Nat \ {0}
    /\ NCPU \in Nat \ {0}
    /\ MaxPid \in Nat
    /\ TickMod \in Nat \ {0}
    /\ Calls \subseteq AllCalls
    /\ KillArgs \subseteq Nat
    /\ SleepArgs \subseteq 0 .. TickMod - 1

Slot     == 1 .. NPROC       \* &ptable.proc[0] .. &ptable.proc[NPROC-1]
CPU      == 0 .. NCPU - 1
initproc == 1
NoProc   == 0                \* the null struct proc*
NoCpu    == -1               \* nobody holds the lock
NoChan   == 0
TicksChan == -1              \* &ticks; the other channels are struct proc*

VARIABLES
    lock,      \* the CPU holding ptable.lock, or NoCpu
    tickslock, \* the CPU holding tickslock, or NoCpu
    cproc,     \* cpus[c].proc
    cpu,       \* what the CPU executes: see CpuMode
    irq,       \* how far the timer interrupt on the CPU has got
    state, pid, parent, chan, killed, kstack, pgdir,   \* struct proc
    context,   \* where swtch() into the process resumes
    pc,        \* where the process's own code is
    arg,       \* fork: np; kill: pid; sleep: n
    ticks0,    \* the local variable of sys_sleep
    slept,     \* history: ticks since ticks0 was read, at most TickMod
    nextpid,
    ticks

cpuvars  == <<lock, tickslock, cproc, cpu, irq>>
procvars == <<state, pid, parent, chan, killed, kstack, pgdir>>
codevars == <<context, pc, arg, ticks0, slept>>
vars     == <<cpuvars, procvars, codevars, nextpid, ticks>>

ProcState == {"UNUSED", "EMBRYO", "SLEEPING", "RUNNABLE", "RUNNING", "ZOMBIE"}

\* "loop": scheduler(), interrupts enabled, lock not held; "scan": back in
\* scheduler() from swtch(), lock held; "swtch": switched to a process that
\* has not yet released the lock; "run": running a process; "panic".
CpuMode == {"loop", "scan", "swtch", "run", "panic"}
Irq     == {"none", "tick", "yield"}
Context == {"forkret", "yield", "sleep"}
PC == {"user", "ret", "fork", "kalloc", "copyuvm", "runnable", "exit", "wait",
       "rescan", "kill", "sleep", "timecheck", "dosleep", "relock"}
InSleep == {"timecheck", "dosleep", "relock"}    \* after ticks0 = ticks

(***************************************************************************)
(* The state after userinit(): initproc is RUNNABLE and every CPU has      *)
(* entered scheduler().                                                    *)
(***************************************************************************)
Init ==
    /\ lock = NoCpu /\ tickslock = NoCpu
    /\ cproc = [c \in CPU |-> NoProc]
    /\ cpu = [c \in CPU |-> "loop"]
    /\ irq = [c \in CPU |-> "none"]
    /\ state = [s \in Slot |-> IF s = initproc THEN "RUNNABLE" ELSE "UNUSED"]
    /\ pid = [s \in Slot |-> IF s = initproc THEN 1 ELSE 0]
    /\ parent = [s \in Slot |-> NoProc]
    /\ chan = [s \in Slot |-> NoChan]
    /\ killed = [s \in Slot |-> FALSE]
    /\ kstack = [s \in Slot |-> s = initproc]
    /\ pgdir = [s \in Slot |-> s = initproc]
    /\ context = [s \in Slot |-> "forkret"]
    /\ pc = [s \in Slot |-> "user"]
    /\ arg = [s \in Slot |-> 0]
    /\ ticks0 = [s \in Slot |-> 0]
    /\ slept = [s \in Slot |-> 0]
    /\ nextpid = 2
    /\ ticks = 0

-----------------------------------------------------------------------------
(* Locks, channels and the scheduler.                                      *)

\* Mutant: the sleepers on ch are not found.
wakeup1_none(st, ch) == st

\* wakeup1(ch): the process table's states once all sleepers on ch are
\* runnable.
wakeup1(st, ch) ==
    [s \in Slot |-> IF st[s] = "SLEEPING" /\ chan[s] = ch
                    THEN "RUNNABLE" ELSE st[s]]

\* The CPU executes the process's code and no interrupt handler.
Runs(c) == cpu[c] = "run" /\ irq[c] = "none"

\* Interrupts are enabled: pushcli() of a held spinlock turns them off.
IF_on(c) ==
    /\ cpu[c] \in {"loop", "run"} /\ irq[c] = "none"
    /\ lock # c /\ tickslock # c

\* Mutant: the lock is released before swtch().
sched_unlocked(c, how) ==
    /\ lock' = NoCpu
    /\ cpu' = [cpu EXCEPT ![c] = "scan"]
    /\ context' = [context EXCEPT ![cproc[c]] = how]

\* sched(): with the lock held, leave the thread for this CPU's scheduler().
sched(c, how) ==
    /\ lock' = c
    /\ cpu' = [cpu EXCEPT ![c] = "scan"]
    /\ context' = [context EXCEPT ![cproc[c]] = how]

\* Switch from scheduler() to p; switchuvm() panics without a kernel stack
\* or a page directory.
Dispatch(c, p) ==
    /\ lock' = c
    /\ cproc' = [cproc EXCEPT ![c] = p]
    /\ state' = [state EXCEPT ![p] = "RUNNING"]
    /\ cpu' = [cpu EXCEPT ![c] =
                 IF kstack[p] /\ pgdir[p] THEN "swtch" ELSE "panic"]
    /\ UNCHANGED <<tickslock, irq, pid, parent, chan, killed, kstack, pgdir,
                   codevars, nextpid, ticks>>

\* A pass of scheduler() starts at the first slot.  A pass that finds
\* nothing acquires and releases the lock and is no step here.
SchedulerStart(c) ==
    /\ cpu[c] = "loop" /\ irq[c] = "none" /\ lock = NoCpu
    /\ \E p \in Slot :
          /\ state[p] = "RUNNABLE"
          /\ \A q \in Slot : q < p => state[q] # "RUNNABLE"
          /\ Dispatch(c, p)

\* Mutant: every switch starts the pass again.
SchedulerNext_restart(c) ==
    /\ cpu[c] = "scan"
    /\ \E p \in Slot :
          /\ state[p] = "RUNNABLE"
          /\ \A q \in Slot : q < p => state[q] # "RUNNABLE"
          /\ Dispatch(c, p)

\* Back from swtch(): the pass goes on after the process that just ran, and
\* at the end of the table gives the lock back.
SchedulerNext(c) ==
    /\ cpu[c] = "scan"
    /\ \E p \in Slot :
          /\ p > cproc[c] /\ state[p] = "RUNNABLE"
          /\ \A q \in Slot : cproc[c] < q /\ q < p => state[q] # "RUNNABLE"
          /\ Dispatch(c, p)

SchedulerEnd(c) ==
    /\ cpu[c] = "scan"
    /\ \A q \in Slot : q > cproc[c] => state[q] # "RUNNABLE"
    /\ lock' = NoCpu
    /\ cproc' = [cproc EXCEPT ![c] = NoProc]
    /\ cpu' = [cpu EXCEPT ![c] = "loop"]
    /\ UNCHANGED <<tickslock, irq, procvars, codevars, nextpid, ticks>>

\* The thread resumes holding the lock its scheduler acquired: forkret(),
\* the rest of yield() and the rest of sleep().  A sleep() on ptable.lock
\* (wait) keeps the lock, a sleep() on tickslock goes on to re-acquire that.
Resume(c) ==
    LET p == cproc[c] IN
    /\ cpu[c] = "swtch"
    /\ cpu' = [cpu EXCEPT ![c] = "run"]
    /\ \/ /\ context[p] = "forkret"
          /\ lock' = NoCpu
          /\ UNCHANGED <<pc, chan>>
       \/ /\ context[p] = "yield"
          /\ lock' = NoCpu
          /\ pc' = [pc EXCEPT ![p] = IF @ = "user" THEN "ret" ELSE @]
          /\ UNCHANGED chan
       \/ /\ context[p] = "sleep"
          /\ chan' = [chan EXCEPT ![p] = NoChan]
          /\ \/ pc[p] = "wait" /\ pc' = [pc EXCEPT ![p] = "rescan"]
                /\ UNCHANGED lock
             \/ pc[p] = "dosleep" /\ pc' = [pc EXCEPT ![p] = "relock"]
                /\ lock' = NoCpu
    /\ UNCHANGED <<tickslock, cproc, irq, state, pid, parent, killed, kstack,
                   pgdir, context, arg, ticks0, slept, nextpid, ticks>>

-----------------------------------------------------------------------------
(* trap(): the timer interrupt, the faults, and the way in and out of a    *)
(* system call.                                                            *)

\* ticks++ on an unsigned int.
TickPlusOne == (ticks + 1) % TickMod

\* The interrupt arrives.  CPU 0 counts the tick under tickslock; on every
\* CPU a running process then gets to yield().
TimerInterrupt(c) ==
    /\ IF_on(c)
    /\ \/ /\ c = 0 /\ tickslock = NoCpu
          /\ tickslock' = c
          /\ ticks' = TickPlusOne
          /\ slept' = [s \in Slot |->
                         IF pc[s] \in InSleep /\ slept[s] < TickMod
                         THEN slept[s] + 1 ELSE slept[s]]
          /\ irq' = [irq EXCEPT ![c] = "tick"]
       \/ /\ c # 0 /\ cpu[c] = "run"
          /\ irq' = [irq EXCEPT ![c] = "yield"]
          /\ UNCHANGED <<tickslock, ticks, slept>>
    /\ UNCHANGED <<lock, cproc, cpu, procvars, context, pc, arg, ticks0,
                   nextpid>>

\* wakeup(&ticks), then release(&tickslock).
TimerWakeup(c) ==
    /\ irq[c] = "tick" /\ lock = NoCpu
    /\ state' = wakeup1(state, TicksChan)
    /\ tickslock' = NoCpu
    /\ irq' = [irq EXCEPT ![c] = IF cpu[c] = "run" THEN "yield" ELSE "none"]
    /\ UNCHANGED <<lock, cproc, cpu, pid, parent, chan, killed, kstack, pgdir,
                   codevars, nextpid, ticks>>

\* The end of trap() for a timer interrupt: a killed process that was in
\* user mode exits, any other one yields.
TimerKilled(c) ==
    LET p == cproc[c] IN
    /\ irq[c] = "yield" /\ killed[p] /\ pc[p] = "user"
    /\ pc' = [pc EXCEPT ![p] = "exit"]
    /\ irq' = [irq EXCEPT ![c] = "none"]
    /\ UNCHANGED <<lock, tickslock, cproc, cpu, procvars, context, arg,
                   ticks0, slept, nextpid, ticks>>

TimerYield(c) ==
    LET p == cproc[c] IN
    /\ irq[c] = "yield" /\ ~(killed[p] /\ pc[p] = "user")
    /\ state[p] = "RUNNING" /\ lock = NoCpu
    /\ state' = [state EXCEPT ![p] = "RUNNABLE"]
    /\ sched(c, "yield")
    /\ irq' = [irq EXCEPT ![c] = "none"]
    /\ UNCHANGED <<tickslock, cproc, pid, parent, chan, killed, kstack, pgdir,
                   pc, arg, ticks0, slept, nextpid, ticks>>

\* What a step of the process's own code leaves alone.
OwnStep(c) ==
    /\ Runs(c)
    /\ UNCHANGED <<cproc, irq, ticks>>

goto(c, l) == pc' = [pc EXCEPT ![cproc[c]] = l]

\* User code makes a system call: trap() tests killed before syscall().
\* initproc runs a program that never exits.
Syscall(c) ==
    LET p == cproc[c] IN
    /\ OwnStep(c) /\ pc[p] = "user"
    /\ \/ killed[p] /\ goto(c, "exit") /\ UNCHANGED arg
       \/ /\ ~killed[p]
          /\ \/ "fork" \in Calls /\ nextpid <= MaxPid
                /\ goto(c, "fork") /\ UNCHANGED arg
             \/ "exit" \in Calls /\ p # initproc
                /\ goto(c, "exit") /\ UNCHANGED arg
             \/ "wait" \in Calls /\ goto(c, "wait") /\ UNCHANGED arg
             \/ "kill" \in Calls /\ goto(c, "kill")
                /\ \E n \in KillArgs : arg' = [arg EXCEPT ![p] = n]
             \/ "sleep" \in Calls /\ goto(c, "sleep")
                /\ \E n \in SleepArgs : arg' = [arg EXCEPT ![p] = n]
    /\ UNCHANGED <<lock, tickslock, cpu, procvars, context, ticks0, slept,
                   nextpid>>

\* A trap no case of trap() handles: the process kills itself and exits.
Fault(c) ==
    LET p == cproc[c] IN
    /\ OwnStep(c) /\ pc[p] = "user" /\ "fault" \in Calls /\ p # initproc
    /\ killed' = [killed EXCEPT ![p] = TRUE]
    /\ goto(c, "exit")
    /\ UNCHANGED <<lock, tickslock, cpu, state, pid, parent, chan, kstack,
                   pgdir, context, arg, ticks0, slept, nextpid>>

\* Return to user mode: the last test of killed in trap().  The locals of
\* the system call are gone.
TrapReturn(c) ==
    LET p == cproc[c] IN
    /\ OwnStep(c) /\ pc[p] = "ret"
    /\ goto(c, IF killed[p] THEN "exit" ELSE "user")
    /\ arg' = [arg EXCEPT ![p] = 0]
    /\ ticks0' = [ticks0 EXCEPT ![p] = 0]
    /\ slept' = [slept EXCEPT ![p] = 0]
    /\ UNCHANGED <<lock, tickslock, cpu, procvars, context, nextpid>>

-----------------------------------------------------------------------------
(* fork(): the new slot is claimed under the lock, filled in without it,   *)
(* and made RUNNABLE under it.                                             *)

\* p->pid = nextpid++
NewPid(s) ==
    /\ pid' = [pid EXCEPT ![s] = nextpid]
    /\ nextpid' = nextpid + 1

allocproc(c) ==
    /\ OwnStep(c) /\ pc[cproc[c]] = "fork" /\ lock = NoCpu
    /\ \/ /\ \A s \in Slot : state[s] # "UNUSED"
          /\ goto(c, "ret")
          /\ UNCHANGED <<state, pid, nextpid, arg>>
       \/ \E s \in Slot :
             /\ state[s] = "UNUSED"
             /\ \A r \in Slot : r < s => state[r] # "UNUSED"
             /\ state' = [state EXCEPT ![s] = "EMBRYO"]
             /\ NewPid(s)
             /\ arg' = [arg EXCEPT ![cproc[c]] = s]
             /\ goto(c, "kalloc")
    /\ UNCHANGED <<lock, tickslock, cpu, parent, chan, killed, kstack, pgdir,
                   context, ticks0, slept>>

\* kalloc() of the kernel stack: a failure gives the slot back without the
\* lock and leaves its pid behind.
ForkKalloc(c) ==
    LET np == arg[cproc[c]] IN
    /\ OwnStep(c) /\ pc[cproc[c]] = "kalloc"
    /\ \/ /\ kstack' = [kstack EXCEPT ![np] = TRUE]
          /\ context' = [context EXCEPT ![np] = "forkret"]
          /\ goto(c, "copyuvm")
          /\ UNCHANGED state
       \/ /\ state' = [state EXCEPT ![np] = "UNUSED"]
          /\ kstack' = [kstack EXCEPT ![np] = FALSE]
          /\ goto(c, "ret")
          /\ UNCHANGED context
    /\ UNCHANGED <<lock, tickslock, cpu, pid, parent, chan, killed, pgdir, arg,
                   ticks0, slept, nextpid>>

\* copyuvm() and the copies of the parent's fields.  Its trap frame makes the
\* child start in user mode.
ForkCopy(c) ==
    LET p == cproc[c]
        np == arg[p] IN
    /\ OwnStep(c) /\ pc[p] = "copyuvm"
    /\ \/ /\ pgdir' = [pgdir EXCEPT ![np] = TRUE]
          /\ parent' = [parent EXCEPT ![np] = p]
          /\ pc' = [pc EXCEPT ![p] = "runnable", ![np] = "user"]
          /\ UNCHANGED <<state, kstack>>
       \/ /\ pgdir' = [pgdir EXCEPT ![np] = FALSE]
          /\ kstack' = [kstack EXCEPT ![np] = FALSE]
          /\ state' = [state EXCEPT ![np] = "UNUSED"]
          /\ goto(c, "ret")
          /\ UNCHANGED parent
    /\ UNCHANGED <<lock, tickslock, cpu, pid, chan, killed, context, arg,
                   ticks0, slept, nextpid>>

ForkRunnable(c) ==
    /\ OwnStep(c) /\ pc[cproc[c]] = "runnable" /\ lock = NoCpu
    /\ state' = [state EXCEPT ![arg[cproc[c]]] = "RUNNABLE"]
    /\ goto(c, "ret")
    /\ UNCHANGED <<lock, tickslock, cpu, pid, parent, chan, killed, kstack,
                   pgdir, context, arg, ticks0, slept, nextpid>>

-----------------------------------------------------------------------------
(* exit(), wait() and kill().                                              *)

\* Mutant: only the zombies among them are passed on.
Orphans_zombies(p) == {s \in Slot : parent[s] = p /\ state[s] = "ZOMBIE"}

\* The children that exit() passes to initproc.
Orphans(p) == {s \in Slot : parent[s] = p}

\* Files and cwd are closed before the lock is taken; the process then leaves
\* its children to initproc and goes to the scheduler still holding the lock.
exit(c) ==
    LET p == cproc[c]
        woken == wakeup1(state, parent[p])
        all == IF \E s \in Orphans(p) : woken[s] = "ZOMBIE"
               THEN wakeup1(woken, initproc) ELSE woken IN
    /\ OwnStep(c) /\ pc[p] = "exit" /\ p # initproc /\ lock = NoCpu
    /\ state' = [all EXCEPT ![p] = "ZOMBIE"]
    /\ parent' = [s \in Slot |-> IF s \in Orphans(p) THEN initproc ELSE parent[s]]
    /\ sched(c, "sleep")
    /\ UNCHANGED <<tickslock, pid, chan, killed, kstack, pgdir, pc, arg,
                   ticks0, slept, nextpid>>

\* panic("init exiting"): the CPU stops with interrupts off.
InitExiting(c) ==
    /\ OwnStep(c) /\ pc[cproc[c]] = "exit" /\ cproc[c] = initproc
    /\ cpu' = [cpu EXCEPT ![c] = "panic"]
    /\ UNCHANGED <<lock, tickslock, procvars, codevars, nextpid>>

\* panic() ends in for(;;).
Panicked(c) == cpu[c] = "panic" /\ UNCHANGED vars

ZombieChildren(p) == {s \in Slot : parent[s] = p /\ state[s] = "ZOMBIE"}

\* wait() has the lock: from its own acquire(), or kept through sleep().
InWait(c) ==
    \/ pc[cproc[c]] = "wait" /\ lock = NoCpu
    \/ pc[cproc[c]] = "rescan" /\ lock = c

\* The first zombie child is freed, slot and all.
WaitReap(c) ==
    /\ OwnStep(c) /\ InWait(c)
    /\ \E z \in ZombieChildren(cproc[c]) :
          /\ \A s \in ZombieChildren(cproc[c]) : z <= s
          /\ state' = [state EXCEPT ![z] = "UNUSED"]
          /\ pid' = [pid EXCEPT ![z] = 0]
          /\ parent' = [parent EXCEPT ![z] = NoProc]
          /\ killed' = [killed EXCEPT ![z] = FALSE]
          /\ kstack' = [kstack EXCEPT ![z] = FALSE]
          /\ pgdir' = [pgdir EXCEPT ![z] = FALSE]
    /\ lock' = NoCpu
    /\ goto(c, "ret")
    /\ UNCHANGED <<tickslock, cpu, chan, context, arg, ticks0, slept, nextpid>>

\* No child to wait for, or killed: wait() returns -1.
WaitFail(c) ==
    LET p == cproc[c] IN
    /\ OwnStep(c) /\ InWait(c) /\ ZombieChildren(p) = {}
    /\ (\A s \in Slot : parent[s] # p) \/ killed[p]
    /\ lock' = NoCpu
    /\ goto(c, "ret")
    /\ UNCHANGED <<tickslock, cpu, procvars, context, arg, ticks0, slept,
                   nextpid>>

\* sleep(curproc, &ptable.lock).
WaitSleep(c) ==
    LET p == cproc[c] IN
    /\ OwnStep(c) /\ InWait(c) /\ ZombieChildren(p) = {}
    /\ (\E s \in Slot : parent[s] = p) /\ ~killed[p]
    /\ chan' = [chan EXCEPT ![p] = p]
    /\ state' = [state EXCEPT ![p] = "SLEEPING"]
    /\ sched(c, "sleep")
    /\ goto(c, "wait")
    /\ UNCHANGED <<tickslock, pid, parent, killed, kstack, pgdir, arg, ticks0,
                   slept, nextpid>>

\* Mutant: any killed process is made runnable.
KilledState_any(st) == "RUNNABLE"

\* kill() wakes a sleeping process.
KilledState(st) == IF st = "SLEEPING" THEN "RUNNABLE" ELSE st

\* The first slot with the pid, whatever its state, is marked and woken.
kill(c) ==
    LET n == arg[cproc[c]]
        named == {s \in Slot : pid[s] = n} IN
    /\ OwnStep(c) /\ pc[cproc[c]] = "kill" /\ lock = NoCpu
    /\ \/ named = {} /\ UNCHANGED <<killed, state>>
       \/ \E s \in named :
             /\ \A r \in named : s <= r
             /\ killed' = [killed EXCEPT ![s] = TRUE]
             /\ state' = [state EXCEPT ![s] = KilledState(@)]
    /\ goto(c, "ret")
    /\ UNCHANGED <<lock, tickslock, cpu, pid, parent, chan, kstack, pgdir,
                   context, arg, ticks0, slept, nextpid>>

-----------------------------------------------------------------------------
(* sys_sleep(): its loop runs under tickslock; killed is read without      *)
(* ptable.lock.                                                            *)

SleepEnter(c) ==
    LET p == cproc[c] IN
    /\ OwnStep(c) /\ pc[p] = "sleep" /\ tickslock = NoCpu
    /\ tickslock' = c
    /\ ticks0' = [ticks0 EXCEPT ![p] = ticks]
    /\ slept' = [slept EXCEPT ![p] = 0]
    /\ goto(c, "timecheck")
    /\ UNCHANGED <<lock, cpu, procvars, context, arg, nextpid>>

\* Mutant: compare with the deadline instead of the elapsed time.
TimeLeft_deadline(p) == ticks < (ticks0[p] + arg[p]) % TickMod

\* ticks - ticks0 < n in unsigned arithmetic.
TimeLeft(p) == (ticks - ticks0[p]) % TickMod < arg[p]

\* Mutant: the loop does not look at killed.
SleepCheck_deaf(c) ==
    LET p == cproc[c] IN
    /\ OwnStep(c) /\ pc[p] = "timecheck" /\ tickslock = c
    /\ IF TimeLeft(p)
       THEN goto(c, "dosleep") /\ UNCHANGED tickslock
       ELSE goto(c, "ret") /\ tickslock' = NoCpu
    /\ UNCHANGED <<lock, cpu, procvars, context, arg, ticks0, slept, nextpid>>

SleepCheck(c) ==
    LET p == cproc[c] IN
    /\ OwnStep(c) /\ pc[p] = "timecheck" /\ tickslock = c
    /\ IF TimeLeft(p) /\ ~killed[p]
       THEN goto(c, "dosleep") /\ UNCHANGED tickslock
       ELSE goto(c, "ret") /\ tickslock' = NoCpu
    /\ UNCHANGED <<lock, cpu, procvars, context, arg, ticks0, slept, nextpid>>

\* sleep(&ticks, &tickslock): ptable.lock is acquired before tickslock goes.
SleepOnTicks(c) ==
    LET p == cproc[c] IN
    /\ OwnStep(c) /\ pc[p] = "dosleep" /\ lock = NoCpu
    /\ chan' = [chan EXCEPT ![p] = TicksChan]
    /\ state' = [state EXCEPT ![p] = "SLEEPING"]
    /\ sched(c, "sleep")
    /\ tickslock' = NoCpu
    /\ UNCHANGED <<pid, parent, killed, kstack, pgdir, pc, arg, ticks0, slept,
                   nextpid>>

\* The end of sleep(): acquire(lk).
SleepRelock(c) ==
    /\ OwnStep(c) /\ pc[cproc[c]] = "relock" /\ tickslock = NoCpu
    /\ tickslock' = c
    /\ goto(c, "timecheck")
    /\ UNCHANGED <<lock, cpu, procvars, context, arg, ticks0, slept, nextpid>>

-----------------------------------------------------------------------------
SchedulerStep(c) == SchedulerStart(c) \/ SchedulerNext(c) \/ SchedulerEnd(c)

TrapStep(c) ==
    \/ TimerInterrupt(c) \/ TimerWakeup(c) \/ TimerKilled(c) \/ TimerYield(c)
    \/ Syscall(c) \/ Fault(c) \/ TrapReturn(c)

ForkStep(c) == allocproc(c) \/ ForkKalloc(c) \/ ForkCopy(c) \/ ForkRunnable(c)

CallStep(c) ==
    \/ exit(c) \/ InitExiting(c) \/ Panicked(c)
    \/ WaitReap(c) \/ WaitFail(c) \/ WaitSleep(c)
    \/ kill(c)
    \/ SleepEnter(c) \/ SleepCheck(c) \/ SleepOnTicks(c) \/ SleepRelock(c)

Next ==
    \E c \in CPU :
       SchedulerStep(c) \/ Resume(c) \/ TrapStep(c) \/ ForkStep(c) \/ CallStep(c)

Spec == Init /\ [][Next]_vars

(***************************************************************************)
(* Fairness.  A CPU in its scheduler or holding ptable.lock keeps          *)
(* executing; a spinning acquire() eventually wins the lock; the timer     *)
(* keeps interrupting a CPU that has interrupts enabled; a process that is *)
(* on a CPU again and again executes its kernel code.  Nothing is assumed  *)
(* of user code: Syscall and Fault are not fair.                           *)
(***************************************************************************)
KernelStep(c) ==
    \/ TrapReturn(c) \/ ForkStep(c) \/ exit(c)
    \/ WaitReap(c) \/ WaitFail(c) \/ WaitSleep(c) \/ kill(c)
    \/ SleepEnter(c) \/ SleepCheck(c) \/ SleepOnTicks(c) \/ SleepRelock(c)

Fairness ==
    /\ \A c \in CPU :
          /\ WF_vars(SchedulerNext(c) \/ SchedulerEnd(c) \/ Resume(c))
          /\ SF_vars(SchedulerStart(c))
          /\ SF_vars(TimerInterrupt(c))
          /\ SF_vars(TimerWakeup(c) \/ TimerKilled(c) \/ TimerYield(c))
    /\ \A s \in Slot : SF_vars(\E c \in CPU : cproc[c] = s /\ KernelStep(c))

FairSpec == Spec /\ Fairness

-----------------------------------------------------------------------------
TypeOK ==
    /\ lock \in CPU \cup {NoCpu}
    /\ tickslock \in CPU \cup {NoCpu}
    /\ cproc \in [CPU -> Slot \cup {NoProc}]
    /\ cpu \in [CPU -> CpuMode]
    /\ irq \in [CPU -> Irq]
    /\ state \in [Slot -> ProcState]
    /\ pid \in [Slot -> Nat]
    /\ parent \in [Slot -> Slot \cup {NoProc}]
    /\ chan \in [Slot -> Slot \cup {NoChan, TicksChan}]
    /\ killed \in [Slot -> BOOLEAN]
    /\ kstack \in [Slot -> BOOLEAN]
    /\ pgdir \in [Slot -> BOOLEAN]
    /\ context \in [Slot -> Context]
    /\ pc \in [Slot -> PC]
    /\ arg \in [Slot -> Nat]
    /\ ticks0 \in [Slot -> 0 .. TickMod - 1]
    /\ slept \in [Slot -> 0 .. TickMod]
    /\ nextpid \in Nat \ {0}
    /\ ticks \in 0 .. TickMod - 1

\* A CPU executes on a process's kernel stack and page directory, and nobody
\* frees them: wait() cannot reap a zombie before its CPU has left it.
StackInUse ==
    \A c \in CPU : cproc[c] # NoProc => kstack[cproc[c]] /\ pgdir[cproc[c]]

\* No process is on two CPUs, and off the lock a CPU's process is exactly a
\* RUNNING one: scheduler() and sched() agree although the lock is acquired
\* by one thread and released by another.
OneCpuEach ==
    /\ \A c, d \in CPU : cproc[c] = cproc[d] /\ cproc[c] # NoProc => c = d
    /\ \A s \in Slot :
          state[s] = "RUNNING" <=>
            \E c \in CPU : cproc[c] = s /\ cpu[c] # "scan"

\* A parent asleep in wait() has a child, has no zombie to reap, and has not
\* been killed: neither exit() nor kill() can slip in between wait()'s scan
\* and its sleep().
WaitNeverMisses ==
    \A s \in Slot :
       state[s] = "SLEEPING" /\ chan[s] = s =>
          /\ ~killed[s]
          /\ ZombieChildren(s) = {}
          /\ \E q \in Slot : parent[q] = s

\* Every process but initproc has a parent that can still reap it: exit()
\* leaves no child behind, whatever fork() and wait() do meanwhile.
ParentAlive ==
    \A s \in Slot \ {initproc} :
       state[s] \in {"SLEEPING", "RUNNABLE", "RUNNING", "ZOMBIE"} =>
          /\ parent[s] # NoProc
          /\ state[parent[s]] \in {"SLEEPING", "RUNNABLE", "RUNNING"}

\* The only panic() a sequence of these calls reaches is "init exiting".
OnlyInitPanics ==
    \A c \in CPU :
       cpu[c] = "panic" => cproc[c] = initproc /\ pc[initproc] = "exit"

\* A process asleep on &ticks has time left to sleep once the tick is
\* announced: no tick falls between sys_sleep()'s test and its sleep().
TickNeverMissed ==
    \A s \in Slot :
       state[s] = "SLEEPING" /\ chan[s] = TicksChan /\ tickslock = NoCpu =>
          TimeLeft(s)

\* sleep(n) returns early only to a killed process, also when ticks wraps.
SleepNotEarly ==
    [][\A s \in Slot :
          pc[s] = "timecheck" /\ pc'[s] = "ret" =>
             killed[s] \/ slept[s] >= arg[s]]_vars

\* kill(pid) marks a process: it never marks a slot that holds none.
KillNamesAProcess ==
    [][\A s \in Slot :
          killed'[s] /\ ~killed[s] => state[s] # "UNUSED"]_vars

\* Every runnable process is run: scheduler() goes round the whole table.
RunnableRuns ==
    \A s \in Slot : state[s] = "RUNNABLE" ~> state[s] # "RUNNABLE"

\* A killed process exits, wherever in wait(), sleep(), fork() or user code
\* the kill found it.
KilledExits ==
    \A s \in Slot \ {initproc} :
       killed[s] /\ state[s] \in {"SLEEPING", "RUNNABLE", "RUNNING"}
          ~> state[s] \in {"ZOMBIE", "UNUSED"}

-----------------------------------------------------------------------------
(***************************************************************************)
(* The inductive invariant behind StackInUse, OneCpuEach and               *)
(* OnlyInitPanics.  Its parts say what the scheduler's thread hand-over    *)
(* relies on: who may be between two threads, whose state nobody else may  *)
(* change, and which slot a fork() in progress owns.                       *)
(***************************************************************************)
Live     == {"SLEEPING", "RUNNABLE", "RUNNING", "ZOMBIE"}
ForkPC   == {"kalloc", "copyuvm", "runnable"}

\* A CPU between two threads holds ptable.lock.
HandoverInv == \A c \in CPU : cpu[c] \in {"scan", "swtch"} => lock = c

CpuInv ==
    \A c \in CPU :
       /\ cpu[c] = "loop" <=> cproc[c] = NoProc
       /\ irq[c] # "none" => cpu[c] \in {"loop", "run"}
       /\ irq[c] = "yield" => cpu[c] = "run"

OnCpuInv ==
    \A c, d \in CPU : cproc[c] = cproc[d] /\ cproc[c] # NoProc => c = d

\* The state of a process on a CPU.
RunInv ==
    \A c \in CPU :
       cproc[c] # NoProc =>
          IF cpu[c] = "scan"
          THEN state[cproc[c]] \in {"SLEEPING", "RUNNABLE", "ZOMBIE"}
          ELSE state[cproc[c]] = "RUNNING"

RunningInv ==
    \A s \in Slot :
       state[s] = "RUNNING" => \E c \in CPU : cproc[c] = s /\ cpu[c] # "scan"

\* A fork() in progress owns its EMBRYO slot and has built this much of it.
ForkInv ==
    \A s \in Slot :
       pc[s] \in ForkPC =>
          /\ state[s] \in {"RUNNING", "RUNNABLE"}
          /\ arg[s] \in Slot /\ state[arg[s]] = "EMBRYO"
          /\ pc[s] # "kalloc" => kstack[arg[s]]
          /\ pc[s] = "runnable" => pgdir[arg[s]]

EmbryoInv ==
    \A s, r \in Slot :
       pc[s] \in ForkPC /\ pc[r] \in ForkPC /\ arg[s] = arg[r] => s = r

StackInv == \A s \in Slot : state[s] \in Live => kstack[s] /\ pgdir[s]

SafeInv ==
    /\ TypeOK /\ HandoverInv /\ CpuInv /\ OnCpuInv /\ RunInv /\ RunningInv
    /\ ForkInv /\ EmbryoInv /\ StackInv /\ OnlyInitPanics

(***************************************************************************)
(* The inductive invariant behind ParentAlive and WaitNeverMisses: what    *)
(* the parent field of a slot says at every stage of fork(), exit() and    *)
(* wait().                                                                 *)
(***************************************************************************)
Alive == {"SLEEPING", "RUNNABLE", "RUNNING"}

InitAlive == state[initproc] \in Alive /\ parent[initproc] = NoProc

\* A slot has no parent before copyuvm() is done, and never itself.
ParentInv ==
    \A s \in Slot :
       /\ parent[s] # s
       /\ state[s] = "UNUSED" => parent[s] = NoProc
       /\ pc[s] \in {"kalloc", "copyuvm"} => parent[arg[s]] = NoProc
       /\ pc[s] = "runnable" => parent[arg[s]] = s

FamilyInv == InitAlive /\ ParentInv /\ ParentAlive /\ WaitNeverMisses

(***************************************************************************)
(* The inductive invariant behind TickNeverMissed and SleepNotEarly.       *)
(***************************************************************************)
\* A process between sys_sleep()'s test and its sleep() holds tickslock with
\* interrupts off, and so does the timer interrupt until its wakeup().
TickLockInv ==
    \A c \in CPU :
       /\ irq[c] = "tick" => tickslock = c
       /\ \A s \in Slot :
             cproc[c] = s /\ cpu[c] = "run" /\ pc[s] \in {"timecheck", "dosleep"} =>
                /\ tickslock = c /\ irq[c] = "none"
                /\ pc[s] = "dosleep" => TimeLeft(s)

\* Where a process that is not running, or not yet, can be in sys_sleep().
IdleInv ==
    \A s \in Slot :
       state[s] \in {"UNUSED", "EMBRYO", "ZOMBIE"} => pc[s] \in {"user", "exit"}

OffCpuInv ==
    \A s \in Slot :
       state[s] \in {"SLEEPING", "RUNNABLE"} =>
          pc[s] # "timecheck" /\ (pc[s] = "dosleep" => context[s] = "sleep")

SwtchInv ==
    \A c \in CPU, s \in Slot :
       cproc[c] = s /\ cpu[c] = "swtch" =>
          pc[s] # "timecheck" /\ (pc[s] = "dosleep" => context[s] = "sleep")

TickSleepers ==
    (\A c \in CPU : irq[c] # "tick") =>
       \A s \in Slot : state[s] = "SLEEPING" /\ chan[s] = TicksChan => TimeLeft(s)

\* The elapsed time that sys_sleep() computes, against the real one.
SleptInv ==
    \A s \in Slot :
       /\ pc[s] \in InSleep =>
             slept[s] = TickMod \/ (ticks - ticks0[s]) % TickMod = slept[s]
       /\ pc[s] \in InSleep \cup {"sleep"} => arg[s] < TickMod

SleepInv ==
    /\ TickLockInv /\ IdleInv /\ OffCpuInv /\ SwtchInv /\ TickSleepers
    /\ SleptInv
=============================================================================
