------------------------------ MODULE Spinlock ------------------------------
(***************************************************************************)
(* Spin locks and interrupts of Part_B: acquire(), release(), pushcli()    *)
(* and popcli() of spinlock.c, on CPUs that interrupts and sched() take    *)
(* away from a kernel thread.  A thread is a process in the kernel or the  *)
(* scheduler of a CPU; an interrupt handler runs on the thread's stack.    *)
(* One step of the model reads or writes memory that others use once.      *)
(***************************************************************************)
EXTENDS Integers, FiniteSets

CONSTANTS
    CPU, Process,
    NLOCK      \* locks; a thread takes them in order, ptable.lock last

Lock   == 1 .. NLOCK
ptable == NLOCK
Thread == CPU \cup Process
NoCpu  == "none"
NoLock == 0

ASSUME SpinlockAssumption ==
    /\ CPU \cap Process = {} /\ NoCpu \notin CPU \cup Process
    /\ NLOCK \in Nat \ {0}

VARIABLES
    on,           \* the thread that each CPU runs
    FL_IF,        \* eflags of each CPU
    ncli, intena, \* of struct cpu
    lock,         \* locked and cpu of each struct spinlock
    where, lk,    \* of each thread: where it is, and the lock it is about
    held,         \* the locks that it has taken
    mode,         \* "kernel", in an interrupt "handler", or "born" and not
                  \* yet in user code
    saved,        \* sched()'s local intena
    panicked

spinvars == <<on, FL_IF, ncli, intena, lock, where, lk, held, mode, saved, panicked>>

SpinInit ==
    /\ on = [c \in CPU |-> c]
    /\ FL_IF = [c \in CPU |-> TRUE]
    /\ ncli = [c \in CPU |-> 0] /\ intena = [c \in CPU |-> FALSE]
    /\ lock = [l \in Lock |-> [locked |-> FALSE, cpu |-> NoCpu]]
    /\ where = [t \in Thread |-> IF t \in Process THEN "off" ELSE "run"]
    /\ lk = [t \in Thread |-> NoLock]
    /\ held = [t \in Thread |-> {}]
    /\ mode = [t \in Thread |-> IF t \in Process THEN "born" ELSE "kernel"]
    /\ saved = [t \in Thread |-> FALSE]
    /\ panicked = FALSE

\* The thread of CPU c is at l.
At(c, l) == ~panicked /\ where[on[c]] = l
jump(c, l) == where' = [where EXCEPT ![on[c]] = l]

holding(c, l) == lock[l].locked /\ lock[l].cpu = c

-----------------------------------------------------------------------------
(* spinlock.c                                                              *)

cli(c) == FL_IF' = [FL_IF EXCEPT ![c] = FALSE]

pushcli(c) ==
    /\ cli(c)
    /\ intena' = [intena EXCEPT ![c] = IF ncli[c] = 0 THEN FL_IF[c] ELSE @]
    /\ ncli' = [ncli EXCEPT ![c] = @ + 1]

\* acquire(l) up to the loop.
acquire(c, l) ==
    /\ At(c, "run") /\ \A i \in held[on[c]] : i < l
    /\ pushcli(c)
    /\ lk' = [lk EXCEPT ![on[c]] = l]
    /\ jump(c, "spin")
    /\ panicked' = holding(c, l)
    /\ UNCHANGED <<on, lock, held, mode, saved>>

\* The exchange that finds the lock free.
xchg(c) ==
    /\ At(c, "spin") /\ ~lock[lk[on[c]]].locked
    /\ lock' = [lock EXCEPT ![lk[on[c]]].locked = TRUE]
    /\ held' = [held EXCEPT ![on[c]] = @ \cup {lk[on[c]]}]
    /\ jump(c, "got")
    /\ UNCHANGED <<on, FL_IF, ncli, intena, lk, mode, saved, panicked>>

acquired(c) ==
    /\ At(c, "got")
    /\ lock' = [lock EXCEPT ![lk[on[c]]].cpu = c]
    /\ lk' = [lk EXCEPT ![on[c]] = NoLock]
    /\ jump(c, "run")
    /\ UNCHANGED <<on, FL_IF, ncli, intena, held, mode, saved, panicked>>

\* release(l), in any order.
release(c, l) ==
    /\ At(c, "run") /\ l \in held[on[c]]
    /\ panicked' = ~holding(c, l)
    /\ lock' = [lock EXCEPT ![l].cpu = NoCpu]
    /\ lk' = [lk EXCEPT ![on[c]] = l]
    /\ jump(c, "drop")
    /\ UNCHANGED <<on, FL_IF, ncli, intena, held, mode, saved>>

unlock(c) ==
    /\ At(c, "drop")
    /\ lock' = [lock EXCEPT ![lk[on[c]]].locked = FALSE]
    /\ held' = [held EXCEPT ![on[c]] = @ \ {lk[on[c]]}]
    /\ lk' = [lk EXCEPT ![on[c]] = NoLock]
    /\ jump(c, "pop")
    /\ UNCHANGED <<on, FL_IF, ncli, intena, mode, saved, panicked>>

popcli(c) ==
    /\ At(c, "pop")
    /\ panicked' = (FL_IF[c] \/ ncli[c] = 0)
    /\ ncli' = [ncli EXCEPT ![c] = @ - 1]
    /\ FL_IF' = [FL_IF EXCEPT ![c] = @ \/ (ncli[c] = 1 /\ intena[c])]
    /\ jump(c, "run")
    /\ UNCHANGED <<on, intena, lock, lk, held, mode, saved>>

-----------------------------------------------------------------------------
(* Interrupts and the change of threads.                                   *)

\* The gate of an interrupt turns interrupts off.
Interrupt(c) ==
    /\ At(c, "run") /\ FL_IF[c] /\ mode[on[c]] = "kernel"
    /\ mode' = [mode EXCEPT ![on[c]] = "handler"]
    /\ FL_IF' = [FL_IF EXCEPT ![c] = FALSE]
    /\ UNCHANGED <<on, ncli, intena, lock, where, lk, held, saved, panicked>>

\* The flags that were pushed come back; a new process gets those of user code.
iret(c) ==
    /\ At(c, "run") /\ mode[on[c]] # "kernel" /\ held[on[c]] = {}
    /\ mode' = [mode EXCEPT ![on[c]] = "kernel"]
    /\ FL_IF' = [FL_IF EXCEPT ![c] = TRUE]
    /\ UNCHANGED <<on, ncli, intena, lock, where, lk, held, saved, panicked>>

\* ptable.lock goes from thread to thread.
swtch(c, t) ==
    /\ on' = [on EXCEPT ![c] = t]
    /\ held' = [held EXCEPT ![on[c]] = {}, ![t] = held[on[c]]]

\* sched() up to swtch().
sched(c) ==
    /\ At(c, "run") /\ on[c] \in Process /\ held[on[c]] = {ptable}
    /\ panicked' = (~holding(c, ptable) \/ ncli[c] # 1 \/ FL_IF[c])
    /\ saved' = [saved EXCEPT ![on[c]] = intena[c]]
    /\ swtch(c, c)
    /\ where' = [where EXCEPT ![on[c]] = "off", ![c] = "run"]
    /\ UNCHANGED <<FL_IF, ncli, intena, lock, lk, mode>>

\* Mutant: the CPU keeps what the thread that it ran before has left.
Restored_not(c, p) == intena[c]

\* sched() after swtch(); a new process comes from forkret() instead.
Restored(c, p) == IF mode[p] = "born" THEN intena[c] ELSE saved[p]

\* scheduler() up to swtch(), and the process it switches to.
scheduler(c, p) ==
    /\ At(c, "run") /\ on[c] = c /\ mode[c] = "kernel" /\ held[c] = {ptable}
    /\ where[p] = "off"
    /\ intena' = [intena EXCEPT ![c] = Restored(c, p)]
    /\ swtch(c, p)
    /\ where' = [where EXCEPT ![c] = "off", ![p] = "run"]
    /\ UNCHANGED <<FL_IF, ncli, lock, lk, mode, saved, panicked>>

\* The start of scheduler()'s loop.
sti(c) ==
    /\ At(c, "run") /\ on[c] = c /\ mode[c] = "kernel" /\ held[c] = {}
    /\ FL_IF' = [FL_IF EXCEPT ![c] = TRUE]
    /\ UNCHANGED <<on, ncli, intena, lock, where, lk, held, mode, saved, panicked>>

SpinNext == \E c \in CPU :
    \/ \E l \in Lock : acquire(c, l) \/ release(c, l)
    \/ xchg(c) \/ acquired(c) \/ unlock(c) \/ popcli(c)
    \/ Interrupt(c) \/ iret(c) \/ sched(c) \/ sti(c)
    \/ \E p \in Process : scheduler(c, p)

SpinSpec == SpinInit /\ [][SpinNext]_spinvars

-----------------------------------------------------------------------------
SpinTypeOK ==
    /\ on \in [CPU -> Thread] /\ FL_IF \in [CPU -> BOOLEAN]
    /\ ncli \in [CPU -> Nat] /\ intena \in [CPU -> BOOLEAN]
    /\ lock \in [Lock -> [locked : BOOLEAN, cpu : CPU \cup {NoCpu}]]
    /\ where \in [Thread -> {"off", "run", "spin", "got", "drop", "pop"}]
    /\ lk \in [Thread -> Lock \cup {NoLock}] /\ held \in [Thread -> SUBSET Lock]
    /\ mode \in [Thread -> {"kernel", "handler", "born"}]
    /\ saved \in [Thread -> BOOLEAN]

\* A thread is on one CPU or off, and a scheduler on no CPU but its own; only
\* a thread that runs holds locks, and it is about one exactly in acquire()
\* and release().
Threads ==
    /\ \A c \in CPU : on[c] \in {c} \cup Process /\ where[on[c]] # "off"
    /\ \A c, e \in CPU : on[c] = on[e] => c = e
    /\ \A t \in Thread : where[t] # "off" => \E c \in CPU : on[c] = t
    /\ \A t \in Thread : where[t] = "off" => held[t] = {}
    /\ \A t \in Thread : lk[t] # NoLock <=> where[t] \in {"spin", "got", "drop"}

\* The end of acquire() and the start of release(), where the lock is taken
\* and does not say by whom.
Between(t, l) == where[t] \in {"got", "drop"} /\ lk[t] = l

\* A lock is taken if some thread holds it, which no other does, and names the
\* CPU of that thread.
Holders ==
    /\ \A l \in Lock : lock[l].locked <=> \E t \in Thread : l \in held[t]
    /\ \A l \in Lock : \A t, u \in Thread : l \in held[t] /\ l \in held[u] => t = u
    /\ \A l \in Lock : ~lock[l].locked => lock[l].cpu = NoCpu
    /\ \A c \in CPU : \A l \in held[on[c]] :
          lock[l].cpu = IF Between(on[c], l) THEN NoCpu ELSE c
    /\ \A t \in Thread : where[t] \in {"got", "drop"} => lk[t] \in held[t]

\* The pushcli() that has not had its popcli() is that of a lock that is held,
\* or not yet, or no longer.
Pushed(t) == Cardinality(held[t]) + (IF where[t] \in {"spin", "pop"} THEN 1 ELSE 0)

\* The interrupts as they are or will be once the last popcli() has been done.
Flags(c) == IF ncli[c] = 0 THEN FL_IF[c] ELSE intena[c]

\* Interrupts are off from the first pushcli() on, and where they will go back
\* to is kept: in the CPU, or for a process that is off in its intena.
Interrupts ==
    /\ \A c \in CPU : ncli[c] = Pushed(on[c]) /\ (ncli[c] > 0 => ~FL_IF[c])
    /\ \A c \in CPU : on[c] \in Process /\ mode[on[c]] # "born" =>
          Flags(c) = (mode[on[c]] = "kernel")
    /\ \A p \in Process : where[p] = "off" /\ mode[p] # "born" =>
          saved[p] = (mode[p] = "kernel")

SpinInv == SpinTypeOK /\ ~panicked /\ Threads /\ Holders /\ Interrupts

\* acquire() and release() with interrupts and sched(): a lock has one holder,
\* which is on a CPU and knows it; no check of the code panics; and once a
\* process holds no lock its interrupts are as they were before it took the
\* first one, on whichever CPU that was: on in the kernel, off in a handler.
LocksHold ==
    /\ ~panicked
    /\ \A l \in Lock :
          LET holders == {t \in Thread : l \in held[t]} IN
          /\ Cardinality(holders) = IF lock[l].locked THEN 1 ELSE 0
          /\ \A t \in holders : \E c \in CPU : on[c] = t /\ lock[l].cpu \in {c, NoCpu}
    /\ \A c \in CPU : LET t == on[c] IN
          t \in Process /\ where[t] = "run" /\ held[t] = {} /\ mode[t] # "born" =>
             FL_IF[c] = (mode[t] = "kernel") /\ ncli[c] = 0
=============================================================================
