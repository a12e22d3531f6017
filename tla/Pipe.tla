-------------------------------- MODULE Pipe --------------------------------
(***************************************************************************)
(* A pipe of Part_B/pipe.c between the processes that have its two ends    *)
(* open, with the reference counts of file.c, and with kill().             *)
(*                                                                         *)
(* The pipe's lock is held over several steps: kill() takes another lock   *)
(* and can come between a test of p->killed and the sleep() after it.      *)
(***************************************************************************)
EXTENDS Integers, Sequences, FiniteSets

CONSTANTS
    Proc,       \* processes
    Readers,    \* the processes with the reading end open at first
    Writers,    \* the processes with the writing end open at first
    Byte,
    PIPESIZE,
    WIDTH,      \* nread and nwrite count modulo WIDTH (2^32 in C)
    MaxCall,    \* the largest n of read() and write() tried
    Killable,   \* processes that may be killed
    UserFaults  \* whether user memory may have been swapped out

None  == <<"none">>
Error == <<"error">>
Free  == "free"

ASSUME PipeAssumption ==
    /\ IsFiniteSet(Proc) /\ Readers \subseteq Proc /\ Writers \subseteq Proc
    /\ Readers # {} /\ Writers # {} /\ Byte # {} /\ Free \notin Proc
    /\ PIPESIZE \in Nat \ {0} /\ MaxCall \in Nat \ {0}
    /\ WIDTH \in Nat /\ WIDTH % PIPESIZE = 0 /\ WIDTH > PIPESIZE
    /\ Killable \subseteq Proc /\ UserFaults \in BOOLEAN

VARIABLES
    data, nread, nwrite, readopen, writeopen,   \* struct pipe
    lock,       \* who holds p->lock
    freed,      \* how often the pipe has been given to kfree()
    ref,        \* the processes that have each end open: f->ref
    pc,         \* where each process is
    left,       \* bytes its call is still to transfer
    killed,     \* p->killed
    result      \* what its last call returned: bytes read, or none or an error

pipevars == <<data, nread, nwrite, readopen, writeopen>>
vars == <<pipevars, lock, freed, ref, pc, left, killed, result>>

PC == {"user", "read", "rsleep", "rasleep", "write", "wsleep", "wasleep",
       "rclose", "wclose", "dead", "panic"}

Ends == {"read", "write"}

Init ==
    /\ data \in [0 .. PIPESIZE - 1 -> {CHOOSE b \in Byte : TRUE}]
    /\ nread = 0 /\ nwrite = 0
    /\ readopen = TRUE /\ writeopen = TRUE
    /\ lock = Free /\ freed = 0
    /\ ref = [e \in Ends |-> IF e = "read" THEN Readers ELSE Writers]
    /\ pc = [p \in Proc |-> "user"]
    /\ left = [p \in Proc |-> 0]
    /\ killed = [p \in Proc |-> FALSE]
    /\ result = [p \in Proc |-> None]

-----------------------------------------------------------------------------
\* Mutant: no reader is woken.
WakeReaders_none(f) == f

\* wakeup(&p->nread) and wakeup(&p->nwrite).
WakeReaders(f) == [p \in Proc |-> IF f[p] = "rasleep" THEN "read" ELSE f[p]]
WakeWriters(f) == [p \in Proc |-> IF f[p] = "wasleep" THEN "write" ELSE f[p]]

Empty == nread = nwrite

Full == nwrite = (nread + PIPESIZE) % WIDTH

Return(p, r) ==
    /\ result' = [result EXCEPT ![p] = r]
    /\ left' = [left EXCEPT ![p] = 0]
    /\ lock' = Free

\* acquire(&p->lock), or the process has it since an earlier step.
Locks(p) == lock \in {Free, p}

-----------------------------------------------------------------------------
(* read() and write().                                                     *)

Begin(p, call, n) ==
    /\ pc[p] = "user" /\ ~killed[p] /\ p \in ref[call]
    /\ pc' = [pc EXCEPT ![p] = call]
    /\ left' = [left EXCEPT ![p] = n]
    /\ result' = [result EXCEPT ![p] = None]
    /\ UNCHANGED <<pipevars, lock, freed, ref, killed>>

\* piperead() finds the pipe empty with a writer left.
ReadEmpty(p) ==
    /\ pc[p] = "read" /\ Locks(p)
    /\ Empty /\ writeopen
    /\ IF killed[p]
       THEN Return(p, Error) /\ pc' = [pc EXCEPT ![p] = "user"]
       ELSE lock' = p /\ pc' = [pc EXCEPT ![p] = "rsleep"]
            /\ UNCHANGED <<left, result>>
    /\ UNCHANGED <<pipevars, freed, ref, killed>>

\* Bytes in the pipe, in the order they are read.
Queue == [i \in 1 .. (nwrite - nread) % WIDTH |->
            data[((nread + i - 1) % WIDTH) % PIPESIZE]]

\* Mutant: data[] is indexed from its start.
ReadByte_first(i) == data[i - 1]

\* The i-th byte that a read takes: p->data[p->nread++ % PIPESIZE].
ReadByte(i) == data[((nread + i - 1) % WIDTH) % PIPESIZE]

\* piperead()'s copy.
ReadCopy(p) ==
    LET there == (nwrite - nread) % WIDTH
        n == IF there < left[p] THEN there ELSE left[p] IN
    /\ pc[p] = "read" /\ Locks(p)
    /\ ~Empty \/ ~writeopen
    /\ nread' = (nread + n) % WIDTH
    /\ Return(p, [i \in 1 .. n |-> ReadByte(i)])
    /\ pc' = WakeWriters([pc EXCEPT ![p] = "user"])
    /\ UNCHANGED <<data, nwrite, readopen, writeopen, freed, ref, killed>>

\* pipewrite() finds the pipe full.
WriteFull(p) ==
    /\ pc[p] = "write" /\ Locks(p) /\ Full
    /\ IF ~readopen \/ killed[p]
       THEN Return(p, Error) /\ pc' = [pc EXCEPT ![p] = "user"]
       ELSE /\ lock' = p
            /\ pc' = WakeReaders([pc EXCEPT ![p] = "wsleep"])
            /\ UNCHANGED <<left, result>>
    /\ UNCHANGED <<pipevars, freed, ref, killed>>

\* pipewrite() stores a byte; after the last one it wakes the readers.
WriteByte(p) ==
    /\ pc[p] = "write" /\ Locks(p) /\ ~Full
    /\ \E b \in Byte : data' = [data EXCEPT ![nwrite % PIPESIZE] = b]
    /\ nwrite' = (nwrite + 1) % WIDTH
    /\ IF left[p] = 1
       THEN /\ Return(p, <<>>)
            /\ pc' = WakeReaders([pc EXCEPT ![p] = "user"])
       ELSE /\ lock' = p
            /\ left' = [left EXCEPT ![p] = @ - 1]
            /\ UNCHANGED <<pc, result>>
    /\ UNCHANGED <<nread, readopen, writeopen, freed, ref, killed>>

\* sleep(): ptable.lock is taken before p->lock is released.
sleep(p) ==
    /\ pc[p] \in {"rsleep", "wsleep"}
    /\ lock' = Free
    /\ pc' = [pc EXCEPT ![p] = IF @ = "rsleep" THEN "rasleep" ELSE "wasleep"]
    /\ UNCHANGED <<pipevars, freed, ref, left, killed, result>>

\* The copy touches a page of user memory that is swapped out. The fault is
\* handled with p->lock held and has to sleep: sched() panics.
CopyFaults(p) ==
    /\ UserFaults /\ Locks(p)
    /\ \/ pc[p] = "read" /\ ~Empty
       \/ pc[p] = "write" /\ ~Full
    /\ pc' = [pc EXCEPT ![p] = "panic"]
    /\ lock' = p
    /\ UNCHANGED <<pipevars, freed, ref, left, killed, result>>

-----------------------------------------------------------------------------
(* close(), fork(), kill() and exit().                                     *)

\* Mutant: every reference that goes reaches pipeclose().
fileclose_each(p, e) ==
    /\ pc[p] = "user" /\ p \in ref[e]
    /\ ref' = [ref EXCEPT ![e] = @ \ {p}]
    /\ pc' = [pc EXCEPT ![p] = IF e = "read" THEN "rclose" ELSE "wclose"]
    /\ UNCHANGED <<pipevars, lock, freed, left, killed, result>>

\* fileclose(): only the last reference reaches pipeclose(), later.
fileclose(p, e) ==
    /\ pc[p] = "user" /\ p \in ref[e]
    /\ ref' = [ref EXCEPT ![e] = @ \ {p}]
    /\ pc' = [pc EXCEPT ![p] =
                IF ref[e] # {p} THEN "user"
                ELSE IF e = "read" THEN "rclose" ELSE "wclose"]
    /\ UNCHANGED <<pipevars, lock, freed, left, killed, result>>

\* Mutant: whoever closes the reading end frees the pipe.
LastEnd_read(e) == e = "read" \/ ~readopen

\* The other end has been closed.
LastEnd(e) == IF e = "read" THEN ~writeopen ELSE ~readopen

pipeclose(p) ==
    LET e == IF pc[p] = "rclose" THEN "read" ELSE "write" IN
    /\ pc[p] \in {"rclose", "wclose"} /\ lock = Free
    /\ IF e = "read"
       THEN /\ readopen' = FALSE /\ UNCHANGED writeopen
            /\ pc' = WakeWriters([pc EXCEPT ![p] = "user"])
       ELSE /\ writeopen' = FALSE /\ UNCHANGED readopen
            /\ pc' = WakeReaders([pc EXCEPT ![p] = "user"])
    /\ freed' = IF LastEnd(e) THEN freed + 1 ELSE freed
    /\ UNCHANGED <<data, nread, nwrite, lock, ref, left, killed, result>>

\* fork(): a child, in a slot of its own, inherits the ends that p has open.
fork(p, c) ==
    /\ pc[p] = "user" /\ pc[c] = "user" /\ ~killed[p] /\ ~killed[c]
    /\ \A e \in Ends : c \notin ref[e]
    /\ \E e \in Ends : p \in ref[e]
    /\ ref' = [e \in Ends |-> IF p \in ref[e] THEN ref[e] \cup {c} ELSE ref[e]]
    /\ UNCHANGED <<pipevars, lock, freed, pc, left, killed, result>>

\* kill() makes a process runnable that is asleep, not one about to sleep.
kill(p) ==
    /\ p \in Killable /\ ~killed[p] /\ pc[p] \notin {"dead", "panic"}
    /\ killed' = [killed EXCEPT ![p] = TRUE]
    /\ pc' = [pc EXCEPT ![p] = CASE @ = "rasleep" -> "read"
                                 [] @ = "wasleep" -> "write"
                                 [] OTHER -> @]
    /\ UNCHANGED <<pipevars, lock, freed, ref, left, result>>

\* exit() of a killed process that has closed its files.
exit(p) ==
    /\ pc[p] = "user" /\ killed[p] /\ \A e \in Ends : p \notin ref[e]
    /\ pc' = [pc EXCEPT ![p] = "dead"]
    /\ UNCHANGED <<pipevars, lock, freed, ref, left, killed, result>>

-----------------------------------------------------------------------------
\* What a process does on its own once it is in the kernel.
Kernel(p) ==
    \/ ReadEmpty(p) \/ ReadCopy(p) \/ WriteFull(p) \/ WriteByte(p) \/ sleep(p)
    \/ pipeclose(p) \/ exit(p)
    \/ killed[p] /\ \E e \in Ends : fileclose(p, e)

User(p) ==
    \/ \E n \in 1 .. MaxCall, e \in Ends : Begin(p, e, n)
    \/ \E e \in Ends : fileclose(p, e)
    \/ \E c \in Proc : fork(p, c)

Next == \E p \in Proc : Kernel(p) \/ User(p) \/ kill(p) \/ CopyFaults(p)

Spec == Init /\ [][Next]_vars

(***************************************************************************)
(* The kernel goes on executing a call, and acquire() is granted to one    *)
(* who asks for the pipe's lock again and again. Nobody has to read or     *)
(* write.                                                                  *)
(***************************************************************************)
Fairness == \A p \in Proc : SF_vars(Kernel(p))

FairSpec == Spec /\ Fairness

-----------------------------------------------------------------------------
TypeOK ==
    /\ data \in [0 .. PIPESIZE - 1 -> Byte]
    /\ nread \in 0 .. WIDTH - 1 /\ nwrite \in 0 .. WIDTH - 1
    /\ (nwrite - nread) % WIDTH <= PIPESIZE
    /\ readopen \in BOOLEAN /\ writeopen \in BOOLEAN
    /\ lock \in Proc \cup {Free}
    /\ freed \in 0 .. 1
    /\ ref \in [Ends -> SUBSET Proc]
    /\ pc \in [Proc -> PC]
    /\ left \in [Proc -> 0 .. MaxCall]
    /\ killed \in [Proc -> BOOLEAN]
    /\ result \in [Proc -> Seq(Byte) \cup {None, Error}]

\* Nobody sleeps on a pipe that has something for it: data or the end of the
\* data for a reader, room or the loss of all readers for a writer.
SleepersMustWait ==
    TypeOK /\ (lock = Free => \A p \in Proc :
       /\ pc[p] = "rasleep" => Empty /\ writeopen
       /\ pc[p] = "wasleep" => Full /\ readopen)

\* A pipe is freed once, and when nobody is or ever gets inside it.
FreedOnce ==
    /\ freed > 0 =>
          \A p \in Proc : pc[p] \in {"user", "dead"} /\ \A e \in Ends : p \notin ref[e]
    /\ (readopen = FALSE /\ writeopen = FALSE) = (freed = 1)

\* read() reports the end of the data only when no process can write any more.
EofMeansNoWriter ==
    [][\A p \in Proc :
          pc[p] = "read" /\ pc'[p] = "user" /\ result'[p] = <<>> =>
             ref["write"] = {}]_vars

\* A killed process leaves read() and write().
KilledLeaves == \A p \in Proc : killed[p] ~> pc[p] \in {"user", "dead"}

\* A reader with data or the end of the data before it returns, and so does
\* a writer that has lost its readers.
BlockedReturns ==
    \A p \in Proc :
       /\ pc[p] \in {"read", "rsleep", "rasleep"} /\ ref["write"] = {} ~> pc[p] = "user"
       /\ pc[p] \in {"write", "wsleep", "wasleep"} /\ ref["read"] = {} ~> pc[p] = "user"

\* Nobody sleeps, or faults on memory that must be read in, holding p->lock.
NoSleepWithLock == \A p \in Proc : pc[p] # "panic"

B == INSTANCE ByteStream WITH
       Size <- PIPESIZE,
       q <- Queue,
       open <- (IF readopen THEN {"read"} ELSE {}) \cup
               (IF writeopen THEN {"write"} ELSE {})

\* A pipe implements a byte stream.
ImplementsByteStream == B!BSpec

-----------------------------------------------------------------------------
(***************************************************************************)
(* The inductive invariant behind the properties above.                    *)
(***************************************************************************)
Reading == {"read", "rsleep", "rasleep"}
Writing == {"write", "wsleep", "wasleep"}

\* A process inside a call has the end open and bytes left to transfer.
CallInv ==
    \A p \in Proc :
       /\ pc[p] \in Reading => p \in ref["read"] /\ left[p] >= 1
       /\ pc[p] \in Writing => p \in ref["write"] /\ left[p] >= 1
       /\ pc[p] = "panic" => p \in ref["read"] \cup ref["write"]

\* An end counts as open while somebody refers to it or is about to run
\* pipeclose() for it, and only one process ever is.
ClosedBy(e, l, open) ==
    /\ open <=> ref[e] # {} \/ \E p \in Proc : pc[p] = l
    /\ \A p \in Proc : pc[p] = l => ref[e] = {}
    /\ \A p, q \in Proc : pc[p] = l /\ pc[q] = l => p = q

EndsInv ==
    /\ ClosedBy("read", "rclose", readopen)
    /\ ClosedBy("write", "wclose", writeopen)
    /\ freed = IF readopen \/ writeopen THEN 0 ELSE 1

PipeInv == TypeOK /\ CallInv /\ EndsInv

\* The lock between the test of a call and its sleep().
LockInv ==
    /\ lock # Free => pc[lock] \in {"write", "rsleep", "wsleep", "panic"}
    /\ \A p \in Proc : pc[p] \in {"rsleep", "wsleep", "panic"} => lock = p

\* Who has decided to sleep, or sleeps, has nothing to do. A writer that holds
\* the lock has stored bytes it has not yet announced.
SleepInv ==
    \A p \in Proc :
       /\ pc[p] = "rsleep" => Empty /\ writeopen
       /\ pc[p] = "rasleep" =>
             \/ Empty /\ writeopen
             \/ lock # Free /\ pc[lock] \in {"write", "panic"}
       /\ pc[p] \in {"wsleep", "wasleep"} => Full /\ readopen

NobodyKilled == \A p \in Proc : ~killed[p]
=============================================================================
