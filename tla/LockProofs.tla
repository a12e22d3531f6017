----------------------------- MODULE LockProofs -----------------------------
(***************************************************************************)
(* What is proved of the two modules about locks of Part_B, for any number *)
(* of processes and of what they lock.                                     *)
(*                                                                         *)
(* Spin locks (spinlock.c), for any number of CPUs: SpinInv is the         *)
(* inductive invariant, and says where each thread is between acquire()    *)
(* and release(), and what pushcli() has pushed for it.                    *)
(*                                                                         *)
(* The buffer cache and its sleep locks (bio.c, sleeplock.c): CacheInv is  *)
(* inductive, and says that whoever has a block locked sees its last       *)
(* contents.                                                               *)
(***************************************************************************)
EXTENDS Spinlock, BufferCache, FiniteSetTheorems, TLAPS

-----------------------------------------------------------------------------
(* Counting the locks that a thread holds.                                 *)

\* What Cardinality() is of a set of locks and of one with a lock more or less.
LEMMA Counting ==
    ASSUME NEW s \in SUBSET Lock
    PROVE  /\ Cardinality(s) \in Nat /\ (Cardinality(s) = 0 <=> s = {})
           /\ \A l \in Lock \ s : Cardinality(s \cup {l}) = Cardinality(s) + 1
           /\ \A l \in s : Cardinality(s \ {l}) = Cardinality(s) - 1
<1>1. IsFiniteSet(s)
  <2>1. IsFiniteSet(1 .. NLOCK)
    <3>1. 1 \in Int /\ NLOCK \in Int
      BY SpinlockAssumption
    <3> QED  BY <3>1, FS_Interval, Zenon
  <2> QED  BY <2>1, FS_Subset DEF Lock
<1> QED
  BY <1>1, FS_CardinalityType, FS_EmptySet, FS_AddElement, FS_RemoveElement

LEMMA OneLock == ptable \in Lock /\ Cardinality({ptable}) = 1
<1>1. Cardinality({ptable}) = 1
  BY FS_Singleton, Zenon
<1> QED  BY <1>1, SpinlockAssumption DEF ptable, Lock

\* holding() is true of the locks of the thread that runs.
LEMMA HeldByCpu ==
    ASSUME SpinInv, NEW c \in CPU, NEW l \in Lock
    PROVE  holding(c, l) <=> l \in held[on[c]] /\ ~Between(on[c], l)
<1> USE SpinlockAssumption DEF NoCpu, holding
<1>1. ASSUME holding(c, l) PROVE l \in held[on[c]] /\ ~Between(on[c], l)
  <2>1. PICK u \in Thread : l \in held[u]
    BY <1>1 DEF SpinInv, Holders
  <2>2. PICK e \in CPU : on[e] = u
    BY <2>1 DEF SpinInv, Threads
  <2>3. e = c /\ ~Between(u, l)
    BY <1>1, <2>1, <2>2 DEF SpinInv, Holders
  <2> QED  BY <2>1, <2>2, <2>3
<1>2. ASSUME l \in held[on[c]], ~Between(on[c], l) PROVE holding(c, l)
  <2>1. on[c] \in Thread
    BY DEF SpinInv, SpinTypeOK
  <2> QED  BY <1>2, <2>1 DEF SpinInv, Holders
<1> QED  BY <1>1, <1>2

-----------------------------------------------------------------------------
LEMMA SpinInitially == SpinInit => SpinInv
<1> SUFFICES ASSUME SpinInit PROVE SpinInv
  OBVIOUS
<1> USE SpinlockAssumption DEF SpinInit, NoCpu, NoLock, Thread, Lock
<1>1. SpinTypeOK
  BY DEF SpinTypeOK
<1>2. Threads
  BY DEF Threads
<1>3. Holders
  BY DEF Holders, Between
<1>4. Cardinality({}) = 0
  BY FS_EmptySet
<1>5. Interrupts
  BY <1>4 DEF Interrupts, Pushed
<1> QED  BY <1>1, <1>2, <1>3, <1>5 DEF SpinInv

\* A step of the thread that CPU c runs keeps Interrupts if it keeps what that
\* says of c and of the thread, and changes nothing of the others.
LEMMA OnOneCpu ==
    ASSUME SpinInv, NEW c \in CPU, NEW t \in Thread, t = on[c],
           UNCHANGED <<on, saved>>, where'[t] # "off",
           \A e \in CPU \ {c} : /\ ncli'[e] = ncli[e] /\ FL_IF'[e] = FL_IF[e]
                                /\ intena'[e] = intena[e],
           \A u \in Thread \ {t} : /\ held'[u] = held[u] /\ where'[u] = where[u]
                                   /\ mode'[u] = mode[u],
           ncli'[c] = Pushed(t)', ncli'[c] > 0 => ~FL_IF'[c],
           t \in Process /\ mode'[t] # "born" => Flags(c)' = (mode'[t] = "kernel")
    PROVE  Interrupts'
<1> USE DEF Thread
<1>1. ASSUME NEW e \in CPU \ {c}, NEW u \in Thread, u = on[e]
      PROVE  u # t /\ Pushed(u)' = Pushed(u) /\ Flags(e)' = Flags(e)
  <2>1. u # t
    BY <1>1 DEF SpinInv, Threads
  <2> QED  BY <2>1, <1>1 DEF Pushed, Flags
<1>2. ASSUME NEW e \in CPU
      PROVE  /\ ncli'[e] = Pushed(on[e])' /\ (ncli'[e] > 0 => ~FL_IF'[e])
             /\ on[e] \in Process /\ mode'[on[e]] # "born" =>
                   Flags(e)' = (mode'[on[e]] = "kernel")
  <2>1. PICK u \in Thread : u = on[e]
    BY DEF SpinInv, SpinTypeOK
  <2>2. CASE e = c
    BY <2>1, <2>2
  <2>3. CASE e # c
    <3>1. /\ ncli[e] = Pushed(u) /\ (ncli[e] > 0 => ~FL_IF[e])
          /\ u \in Process /\ mode[u] # "born" => Flags(e) = (mode[u] = "kernel")
      BY <2>1 DEF SpinInv, Interrupts
    <3> QED  BY <1>1, <2>1, <2>3, <3>1
  <2> QED  BY <2>2, <2>3
<1>3. ASSUME NEW p \in Process, where'[p] = "off", mode'[p] # "born"
      PROVE  saved'[p] = (mode'[p] = "kernel")
  BY <1>3 DEF SpinInv, Interrupts
<1> QED  BY <1>2, <1>3 DEF Interrupts

\* acquire() pushes before it takes: nothing is taken yet.
LEMMA TakeStep ==
    ASSUME SpinInv, NEW c \in CPU, NEW l \in Lock, acquire(c, l)
    PROVE  SpinInv'
<1> USE SpinlockAssumption DEF NoLock, Thread, NoCpu, At, jump, acquire, pushcli, cli
<1>1. PICK t \in Thread : t = on[c]
  BY DEF SpinInv, SpinTypeOK
<1>2. /\ where[t] = "run" /\ l \notin held[t]
      /\ FL_IF' = [FL_IF EXCEPT ![c] = FALSE]
      /\ intena' = [intena EXCEPT ![c] = IF ncli[c] = 0 THEN FL_IF[c] ELSE @]
      /\ ncli' = [ncli EXCEPT ![c] = @ + 1]
      /\ lk' = [lk EXCEPT ![t] = l] /\ where' = [where EXCEPT ![t] = "spin"]
      /\ UNCHANGED <<on, lock, held, mode, saved>>
  BY <1>1 DEF Lock, SpinInv, SpinTypeOK
<1>3. ~holding(c, l)
  BY <1>1, <1>2, HeldByCpu DEF SpinInv, SpinTypeOK
<1>4. SpinTypeOK'
  BY <1>2 DEF SpinInv, SpinTypeOK
<1>5. Threads'
  BY <1>1, <1>2 DEF SpinInv, SpinTypeOK, Threads, Lock
<1>6. Holders'
  BY <1>1, <1>2 DEF SpinInv, SpinTypeOK, Holders, Between, Threads
<1>7. Interrupts'
  <2>1. ncli'[c] = Pushed(t)' /\ ncli'[c] > 0 /\ ~FL_IF'[c]
    BY <1>1, <1>2, Counting DEF SpinInv, SpinTypeOK, Interrupts, Pushed
  <2>2. t \in Process /\ mode'[t] # "born" => Flags(c)' = (mode'[t] = "kernel")
    <3>1. ncli'[c] # 0 /\ intena'[c] = Flags(c) /\ mode' = mode
      BY <1>2, <2>1 DEF SpinInv, SpinTypeOK, Flags
    <3>2. Flags(c)' = Flags(c)
      BY <3>1 DEF Flags
    <3> QED  BY <1>1, <3>1, <3>2 DEF SpinInv, Interrupts
  <2>3. /\ \A e \in CPU \ {c} : /\ ncli'[e] = ncli[e] /\ FL_IF'[e] = FL_IF[e]
                                 /\ intena'[e] = intena[e]
        /\ \A u \in Thread \ {t} : /\ held'[u] = held[u] /\ where'[u] = where[u]
                                    /\ mode'[u] = mode[u]
        /\ where'[t] # "off" /\ UNCHANGED <<on, saved>>
    BY <1>2 DEF SpinInv, SpinTypeOK
  <2> QED  BY <1>1, <2>1, <2>2, <2>3, OnOneCpu, Zenon
<1>8. ~panicked'
  BY <1>3
<1> QED  BY <1>4, <1>5, <1>6, <1>7, <1>8 DEF SpinInv

\* The exchange takes a lock that nobody holds.
LEMMA XchgStep ==
    ASSUME SpinInv, NEW c \in CPU, xchg(c)
    PROVE  SpinInv'
<1> USE SpinlockAssumption DEF NoLock, Thread, NoCpu, At, jump, xchg
<1>1. PICK t \in Thread : t = on[c]
  BY DEF SpinInv, SpinTypeOK
<1>2. /\ where[t] = "spin" /\ ~lock[lk[t]].locked
      /\ lock' = [lock EXCEPT ![lk[t]].locked = TRUE]
      /\ held' = [held EXCEPT ![t] = @ \cup {lk[t]}]
      /\ where' = [where EXCEPT ![t] = "got"]
      /\ UNCHANGED <<on, FL_IF, ncli, intena, lk, mode, saved, panicked>>
  BY <1>1 DEF SpinInv, SpinTypeOK
<1>3. PICK k \in Lock : k = lk[t] /\ \A u \in Thread : k \notin held[u]
  BY <1>2 DEF SpinInv, SpinTypeOK, Threads, Holders
<1>4. SpinTypeOK'
  <2>1. lock' \in [Lock -> [locked : BOOLEAN, cpu : CPU \cup {NoCpu}]]
    <3> DEFINE LockType == [locked : BOOLEAN, cpu : CPU \cup {NoCpu}]
    <3>1. lock \in [Lock -> LockType]
      BY DEF SpinInv, SpinTypeOK
    <3>2. [lock[k] EXCEPT !.locked = TRUE] \in LockType
      BY <1>3, <3>1
    <3>3. lock' = [lock EXCEPT ![k] = [lock[k] EXCEPT !.locked = TRUE]]
      BY <1>2, <1>3
    <3> HIDE DEF LockType
    <3>4. lock' \in [Lock -> LockType]
      BY <3>1, <3>2, <3>3
    <3> QED  BY <3>4 DEF LockType
  <2>2. held' \in [Thread -> SUBSET Lock]
    BY <1>2, <1>3 DEF SpinInv, SpinTypeOK
  <2>3. where' \in [Thread -> {"off", "run", "spin", "got", "drop", "pop"}]
    BY <1>2 DEF SpinInv, SpinTypeOK
  <2>4. lk' \in [Thread -> Lock \cup {NoLock}]
    BY <1>2 DEF SpinInv, SpinTypeOK
  <2> QED  BY <1>2, <2>1, <2>2, <2>3, <2>4 DEF SpinInv, SpinTypeOK
<1>5. Threads'
  BY <1>1, <1>2, <1>3 DEF SpinInv, SpinTypeOK, Threads, Lock
<1>6. Holders'
  BY <1>1, <1>2, <1>3 DEF SpinInv, SpinTypeOK, Holders, Between, Threads
<1>7. Interrupts'
  <2>1. ncli'[c] = Pushed(t)' /\ (ncli'[c] > 0 => ~FL_IF'[c])
    <3>1. Cardinality(held'[t]) = Cardinality(held[t]) + 1
      BY <1>2, <1>3, Counting DEF SpinInv, SpinTypeOK
    <3> QED
      BY <1>1, <1>2, <3>1, Counting DEF SpinInv, SpinTypeOK, Interrupts, Pushed
  <2>2. t \in Process /\ mode'[t] # "born" => Flags(c)' = (mode'[t] = "kernel")
    <3>1. Flags(c)' = Flags(c) /\ mode' = mode
      BY <1>2 DEF Flags
    <3> QED  BY <1>1, <3>1 DEF SpinInv, Interrupts
  <2>3. /\ \A e \in CPU \ {c} : /\ ncli'[e] = ncli[e] /\ FL_IF'[e] = FL_IF[e]
                                 /\ intena'[e] = intena[e]
        /\ \A u \in Thread \ {t} : /\ held'[u] = held[u] /\ where'[u] = where[u]
                                    /\ mode'[u] = mode[u]
        /\ where'[t] # "off" /\ UNCHANGED <<on, saved>>
    BY <1>2 DEF SpinInv, SpinTypeOK
  <2> QED  BY <1>1, <2>1, <2>2, <2>3, OnOneCpu, Zenon
<1>8. ~panicked'
  BY <1>2 DEF SpinInv
<1> QED  BY <1>4, <1>5, <1>6, <1>7, <1>8 DEF SpinInv

\* The end of acquire() says which CPU has the lock.
LEMMA AcquiredStep ==
    ASSUME SpinInv, NEW c \in CPU, acquired(c)
    PROVE  SpinInv'
<1> USE SpinlockAssumption DEF NoLock, Thread, NoCpu, At, jump, acquired
<1>1. PICK t \in Thread : t = on[c]
  BY DEF SpinInv, SpinTypeOK
<1>2. /\ where[t] = "got"
      /\ lock' = [lock EXCEPT ![lk[t]].cpu = c]
      /\ lk' = [lk EXCEPT ![t] = NoLock]
      /\ where' = [where EXCEPT ![t] = "run"]
      /\ UNCHANGED <<on, FL_IF, ncli, intena, held, mode, saved, panicked>>
  BY <1>1 DEF SpinInv, SpinTypeOK
<1>3. PICK k \in Lock : k = lk[t] /\ k \in held[t]
  BY <1>2 DEF SpinInv, SpinTypeOK, Threads, Holders
<1>4. SpinTypeOK'
  BY <1>2, <1>3 DEF SpinInv, SpinTypeOK
<1>5. Threads'
  BY <1>1, <1>2, <1>3 DEF SpinInv, SpinTypeOK, Threads, Lock
<1>6. Holders'
  BY <1>1, <1>2, <1>3 DEF SpinInv, SpinTypeOK, Holders, Between, Threads, Lock
<1>7. Interrupts'
  <2>1. ncli'[c] = Pushed(t)' /\ (ncli'[c] > 0 => ~FL_IF'[c])
    BY <1>1, <1>2 DEF SpinInv, SpinTypeOK, Interrupts, Pushed
  <2>2. t \in Process /\ mode'[t] # "born" => Flags(c)' = (mode'[t] = "kernel")
    <3>1. Flags(c)' = Flags(c) /\ mode' = mode
      BY <1>2 DEF Flags
    <3> QED  BY <1>1, <3>1 DEF SpinInv, Interrupts
  <2>3. /\ \A e \in CPU \ {c} : /\ ncli'[e] = ncli[e] /\ FL_IF'[e] = FL_IF[e]
                                 /\ intena'[e] = intena[e]
        /\ \A u \in Thread \ {t} : /\ held'[u] = held[u] /\ where'[u] = where[u]
                                    /\ mode'[u] = mode[u]
        /\ where'[t] # "off" /\ UNCHANGED <<on, saved>>
    BY <1>2 DEF SpinInv, SpinTypeOK
  <2> QED  BY <1>1, <2>1, <2>2, <2>3, OnOneCpu, Zenon
<1>8. ~panicked'
  BY <1>2 DEF SpinInv
<1> QED  BY <1>4, <1>5, <1>6, <1>7, <1>8 DEF SpinInv

\* release() finds the lock held by its CPU.
LEMMA GiveStep ==
    ASSUME SpinInv, NEW c \in CPU, NEW l \in Lock, release(c, l)
    PROVE  SpinInv'
<1> USE SpinlockAssumption DEF NoLock, Thread, NoCpu, At, jump, release
<1>1. PICK t \in Thread : t = on[c]
  BY DEF SpinInv, SpinTypeOK
<1>2. /\ where[t] = "run" /\ l \in held[t]
      /\ lock' = [lock EXCEPT ![l].cpu = NoCpu]
      /\ lk' = [lk EXCEPT ![t] = l]
      /\ where' = [where EXCEPT ![t] = "drop"]
      /\ UNCHANGED <<on, FL_IF, ncli, intena, held, mode, saved>>
  BY <1>1 DEF SpinInv, SpinTypeOK
<1>3. holding(c, l)
  BY <1>1, <1>2, HeldByCpu DEF Between
<1>4. SpinTypeOK'
  BY <1>2 DEF SpinInv, SpinTypeOK
<1>5. Threads'
  BY <1>1, <1>2 DEF SpinInv, SpinTypeOK, Threads, Lock
<1>6. Holders'
  BY <1>1, <1>2 DEF SpinInv, SpinTypeOK, Holders, Between, Threads, Lock
<1>7. Interrupts'
  <2>1. ncli'[c] = Pushed(t)' /\ (ncli'[c] > 0 => ~FL_IF'[c])
    BY <1>1, <1>2 DEF SpinInv, SpinTypeOK, Interrupts, Pushed
  <2>2. t \in Process /\ mode'[t] # "born" => Flags(c)' = (mode'[t] = "kernel")
    <3>1. Flags(c)' = Flags(c) /\ mode' = mode
      BY <1>2 DEF Flags
    <3> QED  BY <1>1, <3>1 DEF SpinInv, Interrupts
  <2>3. /\ \A e \in CPU \ {c} : /\ ncli'[e] = ncli[e] /\ FL_IF'[e] = FL_IF[e]
                                 /\ intena'[e] = intena[e]
        /\ \A u \in Thread \ {t} : /\ held'[u] = held[u] /\ where'[u] = where[u]
                                    /\ mode'[u] = mode[u]
        /\ where'[t] # "off" /\ UNCHANGED <<on, saved>>
    BY <1>2 DEF SpinInv, SpinTypeOK
  <2> QED  BY <1>1, <2>1, <2>2, <2>3, OnOneCpu, Zenon
<1>8. ~panicked'
  BY <1>3
<1> QED  BY <1>4, <1>5, <1>6, <1>7, <1>8 DEF SpinInv

\* The lock is let go, and its pushcli() not yet undone.
LEMMA UnlockStep ==
    ASSUME SpinInv, NEW c \in CPU, unlock(c)
    PROVE  SpinInv'
<1> USE SpinlockAssumption DEF NoLock, Thread, NoCpu, At, jump, unlock
<1>1. PICK t \in Thread : t = on[c]
  BY DEF SpinInv, SpinTypeOK
<1>2. /\ where[t] = "drop"
      /\ lock' = [lock EXCEPT ![lk[t]].locked = FALSE]
      /\ held' = [held EXCEPT ![t] = @ \ {lk[t]}]
      /\ lk' = [lk EXCEPT ![t] = NoLock]
      /\ where' = [where EXCEPT ![t] = "pop"]
      /\ UNCHANGED <<on, FL_IF, ncli, intena, mode, saved, panicked>>
  BY <1>1 DEF SpinInv, SpinTypeOK
<1>3. PICK k \in Lock : k = lk[t] /\ k \in held[t]
  BY <1>2 DEF SpinInv, SpinTypeOK, Threads, Holders
<1>4. SpinTypeOK'
  <2>1. lock' \in [Lock -> [locked : BOOLEAN, cpu : CPU \cup {NoCpu}]]
    <3> DEFINE LockType == [locked : BOOLEAN, cpu : CPU \cup {NoCpu}]
    <3>1. lock \in [Lock -> LockType]
      BY DEF SpinInv, SpinTypeOK
    <3>2. [lock[k] EXCEPT !.locked = FALSE] \in LockType
      BY <1>3, <3>1
    <3>3. lock' = [lock EXCEPT ![k] = [lock[k] EXCEPT !.locked = FALSE]]
      BY <1>2, <1>3
    <3> HIDE DEF LockType
    <3>4. lock' \in [Lock -> LockType]
      BY <3>1, <3>2, <3>3
    <3> QED  BY <3>4 DEF LockType
  <2>2. held' \in [Thread -> SUBSET Lock]
    BY <1>2, <1>3 DEF SpinInv, SpinTypeOK
  <2>3. where' \in [Thread -> {"off", "run", "spin", "got", "drop", "pop"}]
    BY <1>2 DEF SpinInv, SpinTypeOK
  <2>4. lk' \in [Thread -> Lock \cup {NoLock}]
    BY <1>2 DEF SpinInv, SpinTypeOK
  <2> QED  BY <1>2, <2>1, <2>2, <2>3, <2>4 DEF SpinInv, SpinTypeOK
<1>5. Threads'
  BY <1>1, <1>2, <1>3 DEF SpinInv, SpinTypeOK, Threads, Lock
<1>6. Holders'
  BY <1>1, <1>2, <1>3 DEF SpinInv, SpinTypeOK, Holders, Between, Threads, Lock
<1>7. Interrupts'
  <2>1. ncli'[c] = Pushed(t)' /\ (ncli'[c] > 0 => ~FL_IF'[c])
    <3>1. Cardinality(held'[t]) = Cardinality(held[t]) - 1
      BY <1>2, <1>3, Counting DEF SpinInv, SpinTypeOK
    <3> QED
      BY <1>1, <1>2, <3>1, Counting DEF SpinInv, SpinTypeOK, Interrupts, Pushed
  <2>2. t \in Process /\ mode'[t] # "born" => Flags(c)' = (mode'[t] = "kernel")
    <3>1. Flags(c)' = Flags(c) /\ mode' = mode
      BY <1>2 DEF Flags
    <3> QED  BY <1>1, <3>1 DEF SpinInv, Interrupts
  <2>3. /\ \A e \in CPU \ {c} : /\ ncli'[e] = ncli[e] /\ FL_IF'[e] = FL_IF[e]
                                 /\ intena'[e] = intena[e]
        /\ \A u \in Thread \ {t} : /\ held'[u] = held[u] /\ where'[u] = where[u]
                                    /\ mode'[u] = mode[u]
        /\ where'[t] # "off" /\ UNCHANGED <<on, saved>>
    BY <1>2 DEF SpinInv, SpinTypeOK
  <2> QED  BY <1>1, <2>1, <2>2, <2>3, OnOneCpu, Zenon
<1>8. ~panicked'
  BY <1>2 DEF SpinInv
<1> QED  BY <1>4, <1>5, <1>6, <1>7, <1>8 DEF SpinInv

\* popcli() finds a pushcli() to undo.
LEMMA PopcliStep ==
    ASSUME SpinInv, NEW c \in CPU, popcli(c)
    PROVE  SpinInv'
<1> USE SpinlockAssumption DEF NoLock, Thread, NoCpu, At, jump, popcli
<1>1. PICK t \in Thread : t = on[c]
  BY DEF SpinInv, SpinTypeOK
<1>2. /\ where[t] = "pop"
      /\ panicked' = (FL_IF[c] \/ ncli[c] = 0)
      /\ ncli' = [ncli EXCEPT ![c] = @ - 1]
      /\ FL_IF' = [FL_IF EXCEPT ![c] = @ \/ (ncli[c] = 1 /\ intena[c])]
      /\ where' = [where EXCEPT ![t] = "run"]
      /\ UNCHANGED <<on, intena, lock, lk, held, mode, saved>>
  BY <1>1 DEF SpinInv, SpinTypeOK
<1>3. ncli[c] \in Nat \ {0} /\ ~FL_IF[c] /\ ncli[c] = Cardinality(held[t]) + 1
  BY <1>1, <1>2, Counting DEF SpinInv, SpinTypeOK, Interrupts, Pushed
<1>4. SpinTypeOK'
  <2>1. ncli' \in [CPU -> Nat]
    <3>1. ncli[c] - 1 \in Nat
      BY <1>3
    <3> QED  BY <1>2, <3>1 DEF SpinInv, SpinTypeOK
  <2>2. FL_IF' \in [CPU -> BOOLEAN] /\ panicked' \in BOOLEAN
    BY <1>2 DEF SpinInv, SpinTypeOK
  <2>3. where' \in [Thread -> {"off", "run", "spin", "got", "drop", "pop"}]
    BY <1>2 DEF SpinInv, SpinTypeOK
  <2> QED  BY <1>2, <2>1, <2>2, <2>3 DEF SpinInv, SpinTypeOK
<1>5. Threads'
  <2>1. /\ \A u \in Thread \ {t} : where'[u] = where[u]
        /\ where'[t] = "run" /\ UNCHANGED <<on, held, lk>>
    BY <1>2 DEF SpinInv, SpinTypeOK
  <2> QED  BY <1>1, <1>2, <2>1 DEF SpinInv, Threads, SpinTypeOK
<1>6. Holders'
  BY <1>1, <1>2 DEF SpinInv, SpinTypeOK, Holders, Between, Threads
<1>7. Interrupts'
  <2>1. ncli'[c] = Pushed(t)' /\ (ncli'[c] > 0 => ~FL_IF'[c])
    BY <1>1, <1>2, <1>3, Counting DEF SpinInv, SpinTypeOK, Pushed
  <2>2. t \in Process /\ mode'[t] # "born" => Flags(c)' = (mode'[t] = "kernel")
    <3>1. Flags(c) = intena[c]
      BY <1>3 DEF Flags
    <3>2. CASE ncli[c] = 1
      <4>1. ncli'[c] = 0 /\ (FL_IF'[c] <=> intena[c])
        BY <1>2, <1>3, <3>2 DEF SpinInv, SpinTypeOK
      <4> QED
        BY <1>1, <1>2, <3>1, <4>1 DEF SpinInv, SpinTypeOK, Interrupts, Flags
    <3>3. CASE ncli[c] # 1
      <4>1. ncli'[c] # 0
        BY <1>2, <1>3, <3>3 DEF SpinInv, SpinTypeOK
      <4> QED  BY <1>1, <1>2, <3>1, <4>1 DEF SpinInv, Interrupts, Flags
    <3> QED  BY <3>2, <3>3
  <2>3. /\ \A e \in CPU \ {c} : /\ ncli'[e] = ncli[e] /\ FL_IF'[e] = FL_IF[e]
                                 /\ intena'[e] = intena[e]
        /\ \A u \in Thread \ {t} : /\ held'[u] = held[u] /\ where'[u] = where[u]
                                    /\ mode'[u] = mode[u]
        /\ where'[t] # "off" /\ UNCHANGED <<on, saved>>
    BY <1>2 DEF SpinInv, SpinTypeOK
  <2> QED  BY <1>1, <2>1, <2>2, <2>3, OnOneCpu, Zenon
<1>8. ~panicked'
  BY <1>2, <1>3
<1> QED  BY <1>4, <1>5, <1>6, <1>7, <1>8 DEF SpinInv

\* An interrupt comes while no lock is held.
LEMMA InterruptStep ==
    ASSUME SpinInv, NEW c \in CPU, Interrupt(c)
    PROVE  SpinInv'
<1> USE SpinlockAssumption DEF NoLock, Thread, NoCpu, At, jump, Interrupt
<1>1. PICK t \in Thread : t = on[c]
  BY DEF SpinInv, SpinTypeOK
<1>2. /\ where[t] = "run" /\ FL_IF[c] /\ mode[t] = "kernel"
      /\ mode' = [mode EXCEPT ![t] = "handler"]
      /\ FL_IF' = [FL_IF EXCEPT ![c] = FALSE]
      /\ UNCHANGED <<on, ncli, intena, lock, where, lk, held, saved, panicked>>
  BY <1>1 DEF SpinInv, SpinTypeOK
<1>3. ncli[c] = 0
  BY <1>1, <1>2, Counting DEF SpinInv, SpinTypeOK, Interrupts, Pushed
<1>4. SpinTypeOK'
  BY <1>2 DEF SpinInv, SpinTypeOK
<1>5. Threads'
  BY <1>1, <1>2 DEF SpinInv, SpinTypeOK, Threads, Lock
<1>6. Holders'
  BY <1>1, <1>2 DEF SpinInv, SpinTypeOK, Holders, Between, Threads
<1>7. Interrupts'
  <2>1. ncli'[c] = Pushed(t)' /\ (ncli'[c] > 0 => ~FL_IF'[c])
    BY <1>1, <1>2, <1>3 DEF SpinInv, SpinTypeOK, Interrupts, Pushed
  <2>2. t \in Process /\ mode'[t] # "born" => Flags(c)' = (mode'[t] = "kernel")
    <3>1. mode'[t] = "handler" /\ FL_IF'[c] = FALSE
      BY <1>2 DEF SpinInv, SpinTypeOK
    <3> QED  BY <1>2, <1>3, <3>1 DEF Flags
  <2>3. /\ \A e \in CPU \ {c} : /\ ncli'[e] = ncli[e] /\ FL_IF'[e] = FL_IF[e]
                                 /\ intena'[e] = intena[e]
        /\ \A u \in Thread \ {t} : /\ held'[u] = held[u] /\ where'[u] = where[u]
                                    /\ mode'[u] = mode[u]
        /\ where'[t] # "off" /\ UNCHANGED <<on, saved>>
    BY <1>2 DEF SpinInv, SpinTypeOK
  <2> QED  BY <1>1, <2>1, <2>2, <2>3, OnOneCpu, Zenon
<1>8. ~panicked'
  BY <1>2 DEF SpinInv
<1> QED  BY <1>4, <1>5, <1>6, <1>7, <1>8 DEF SpinInv

\* The end of a handler, and a new process's way to user code.
LEMMA IretStep ==
    ASSUME SpinInv, NEW c \in CPU, iret(c)
    PROVE  SpinInv'
<1> USE SpinlockAssumption DEF NoLock, Thread, NoCpu, At, jump, iret
<1>1. PICK t \in Thread : t = on[c]
  BY DEF SpinInv, SpinTypeOK
<1>2. /\ where[t] = "run" /\ held[t] = {}
      /\ mode' = [mode EXCEPT ![t] = "kernel"]
      /\ FL_IF' = [FL_IF EXCEPT ![c] = TRUE]
      /\ UNCHANGED <<on, ncli, intena, lock, where, lk, held, saved, panicked>>
  BY <1>1 DEF SpinInv, SpinTypeOK
<1>3. ncli[c] = 0
  BY <1>1, <1>2, Counting DEF SpinInv, SpinTypeOK, Interrupts, Pushed
<1>4. SpinTypeOK'
  BY <1>2 DEF SpinInv, SpinTypeOK
<1>5. Threads'
  BY <1>1, <1>2 DEF SpinInv, SpinTypeOK, Threads, Lock
<1>6. Holders'
  BY <1>1, <1>2 DEF SpinInv, SpinTypeOK, Holders, Between, Threads
<1>7. Interrupts'
  <2>1. ncli'[c] = Pushed(t)' /\ (ncli'[c] > 0 => ~FL_IF'[c])
    BY <1>1, <1>2, <1>3 DEF SpinInv, SpinTypeOK, Interrupts, Pushed
  <2>2. t \in Process /\ mode'[t] # "born" => Flags(c)' = (mode'[t] = "kernel")
    <3>1. mode'[t] = "kernel" /\ FL_IF'[c] = TRUE
      BY <1>2 DEF SpinInv, SpinTypeOK
    <3> QED  BY <1>2, <1>3, <3>1 DEF Flags
  <2>3. /\ \A e \in CPU \ {c} : /\ ncli'[e] = ncli[e] /\ FL_IF'[e] = FL_IF[e]
                                 /\ intena'[e] = intena[e]
        /\ \A u \in Thread \ {t} : /\ held'[u] = held[u] /\ where'[u] = where[u]
                                    /\ mode'[u] = mode[u]
        /\ where'[t] # "off" /\ UNCHANGED <<on, saved>>
    BY <1>2 DEF SpinInv, SpinTypeOK
  <2> QED  BY <1>1, <2>1, <2>2, <2>3, OnOneCpu, Zenon
<1>8. ~panicked'
  BY <1>2 DEF SpinInv
<1> QED  BY <1>4, <1>5, <1>6, <1>7, <1>8 DEF SpinInv

\* The scheduler lets interrupts in while it holds no lock.
LEMMA StiStep ==
    ASSUME SpinInv, NEW c \in CPU, sti(c)
    PROVE  SpinInv'
<1> USE SpinlockAssumption DEF NoLock, Thread, NoCpu, At, jump, sti
<1>1. PICK t \in Thread : t = on[c]
  BY DEF SpinInv, SpinTypeOK
<1>2. /\ where[t] = "run" /\ t = c /\ held[t] = {}
      /\ FL_IF' = [FL_IF EXCEPT ![c] = TRUE]
      /\ UNCHANGED <<on, ncli, intena, lock, where, lk, held, mode, saved, panicked>>
  BY <1>1 DEF SpinInv, SpinTypeOK
<1>3. ncli[c] = 0
  BY <1>1, <1>2, Counting DEF SpinInv, SpinTypeOK, Interrupts, Pushed
<1>4. SpinTypeOK'
  BY <1>2 DEF SpinInv, SpinTypeOK
<1>5. Threads'
  BY <1>1, <1>2 DEF SpinInv, SpinTypeOK, Threads, Lock
<1>6. Holders'
  BY <1>1, <1>2 DEF SpinInv, SpinTypeOK, Holders, Between, Threads
<1>7. Interrupts'
  <2>1. ncli'[c] = Pushed(t)' /\ (ncli'[c] > 0 => ~FL_IF'[c])
    BY <1>1, <1>2, <1>3 DEF SpinInv, SpinTypeOK, Interrupts, Pushed
  <2>2. t \in Process /\ mode'[t] # "born" => Flags(c)' = (mode'[t] = "kernel")
    BY <1>2
  <2>3. /\ \A e \in CPU \ {c} : /\ ncli'[e] = ncli[e] /\ FL_IF'[e] = FL_IF[e]
                                 /\ intena'[e] = intena[e]
        /\ \A u \in Thread \ {t} : /\ held'[u] = held[u] /\ where'[u] = where[u]
                                    /\ mode'[u] = mode[u]
        /\ where'[t] # "off" /\ UNCHANGED <<on, saved>>
    BY <1>2 DEF SpinInv, SpinTypeOK
  <2> QED  BY <1>1, <2>1, <2>2, <2>3, OnOneCpu, Zenon
<1>8. ~panicked'
  BY <1>2 DEF SpinInv
<1> QED  BY <1>4, <1>5, <1>6, <1>7, <1>8 DEF SpinInv

-----------------------------------------------------------------------------
(* The change of threads.                                                  *)

\* CPU c goes from thread t to thread u, which was off, and ptable.lock with
\* it.
LEMMA Switch ==
    ASSUME SpinInv, NEW c \in CPU, NEW t \in Thread, NEW u \in Thread,
           t = on[c], where[t] = "run", held[t] = {ptable}, where[u] = "off",
           u \in {c} \cup Process,
           on' = [on EXCEPT ![c] = u],
           held' = [held EXCEPT ![t] = {}, ![u] = {ptable}],
           where' = [where EXCEPT ![t] = "off", ![u] = "run"],
           UNCHANGED <<FL_IF, ncli, lock, lk, mode>>,
           intena' \in [CPU -> BOOLEAN], saved' \in [Thread -> BOOLEAN],
           \A e \in CPU \ {c} : intena'[e] = intena[e],
           u \in Process /\ mode[u] # "born" => intena'[c] = (mode[u] = "kernel"),
           \A p \in Process \ {t} : saved'[p] = saved[p],
           t \in Process /\ mode[t] # "born" => saved'[t] = (mode[t] = "kernel"),
           ~panicked'
    PROVE  SpinInv'
<1> USE SpinlockAssumption DEF NoLock, Thread, NoCpu
<1>1. ptable \in Lock /\ t # u /\ held[u] = {}
  BY DEF ptable, Lock, SpinInv, Threads
<1>2. /\ on'[c] = u /\ where'[t] = "off" /\ where'[u] = "run"
      /\ held'[t] = {} /\ held'[u] = {ptable}
      /\ \A e \in CPU \ {c} : on'[e] = on[e] /\ on[e] # t /\ on[e] # u
      /\ \A v \in Thread \ {t, u} : held'[v] = held[v] /\ where'[v] = where[v]
  BY <1>1 DEF SpinInv, SpinTypeOK, Threads
<1>3. SpinTypeOK'
  BY <1>1 DEF SpinInv, SpinTypeOK
<1>4. Threads'
  <2>1. \A e \in CPU : on'[e] \in {e} \cup Process /\ where'[on'[e]] # "off"
    BY <1>1, <1>2 DEF SpinInv, SpinTypeOK, Threads
  <2>2. \A e, f \in CPU : on'[e] = on'[f] => e = f
    BY <1>2 DEF SpinInv, Threads
  <2>3. \A v \in Thread : where'[v] # "off" => \E e \in CPU : on'[e] = v
    BY <1>2 DEF SpinInv, Threads
  <2>4. ASSUME NEW v \in Thread, where'[v] = "off" PROVE held'[v] = {}
    <3>1. CASE v = t \/ v = u
      BY <1>2, <2>4, <3>1
    <3>2. CASE v # t /\ v # u
      BY <1>2, <2>4, <3>2 DEF SpinInv, Threads
    <3> QED  BY <3>1, <3>2
  <2>5. \A v \in Thread : lk'[v] # NoLock <=> where'[v] \in {"spin", "got", "drop"}
    BY <1>2 DEF SpinInv, Threads
  <2> QED  BY <2>1, <2>2, <2>3, <2>4, <2>5 DEF Threads
<1>5. Holders'
  <2>1. \A l \in Lock, v \in Thread :
           l \in held'[v] <=> IF v = u THEN l \in held[t]
                             ELSE v # t /\ l \in held[v]
    BY <1>1, <1>2
  <2>2. \A l \in Lock : lock'[l].locked <=> \E v \in Thread : l \in held'[v]
    BY <1>1, <2>1 DEF SpinInv, Holders
  <2>3. \A l \in Lock : \A v, w \in Thread : l \in held'[v] /\ l \in held'[w] => v = w
    BY <1>1, <2>1 DEF SpinInv, Holders
  <2>4. \A e \in CPU : \A l \in held'[on'[e]] :
          lock'[l].cpu = IF Between(on[e], l)' THEN NoCpu ELSE e
    <3> SUFFICES ASSUME NEW e \in CPU, NEW l \in held'[on'[e]]
                 PROVE  lock'[l].cpu = IF Between(on[e], l)' THEN NoCpu ELSE e
      OBVIOUS
    <3>1. CASE e = c
      <4>1. l \in held[t] /\ ~Between(t, l) /\ ~Between(on[e], l)'
        BY <1>2, <3>1 DEF Between
      <4> QED  BY <3>1, <4>1 DEF SpinInv, Holders
    <3>2. CASE e # c
      BY <1>2, <3>2 DEF SpinInv, SpinTypeOK, Holders, Between
    <3> QED  BY <3>1, <3>2
  <2>5. \A v \in Thread : where'[v] \in {"got", "drop"} => lk'[v] \in held'[v]
    BY <1>2 DEF SpinInv, Holders
  <2> QED  BY <2>2, <2>3, <2>4, <2>5 DEF SpinInv, Holders
<1>6. ncli[c] = 1 /\ Cardinality({ptable}) = 1
  <2>1. Pushed(t) = 1
    BY OneLock DEF Pushed
  <2> QED  BY <2>1, OneLock DEF SpinInv, Interrupts
<1>7. Interrupts'
  <2>1. ASSUME NEW e \in CPU
        PROVE  ncli'[e] = Pushed(on[e])' /\ (ncli'[e] > 0 => ~FL_IF'[e])
    <3>1. CASE e = c
      <4>1. Cardinality(held'[u]) = 1 /\ where'[u] = "run"
        BY <1>2, <1>6, Zenon
      <4> QED  BY <1>2, <1>6, <3>1, <4>1 DEF SpinInv, Interrupts, Pushed
    <3>2. CASE e # c
      BY <1>2, <3>2 DEF SpinInv, SpinTypeOK, Interrupts, Pushed
    <3> QED  BY <3>1, <3>2
  <2>2. ASSUME NEW e \in CPU, on'[e] \in Process, mode'[on'[e]] # "born"
        PROVE  Flags(e)' = (mode'[on'[e]] = "kernel")
    <3>1. CASE e = c
      <4>1. ncli'[c] # 0
        BY <1>6
      <4> QED  BY <1>2, <2>2, <3>1, <4>1 DEF Flags
    <3>2. CASE e # c
      BY <1>2, <2>2, <3>2 DEF SpinInv, Interrupts, Flags
    <3> QED  BY <3>1, <3>2
  <2>3. ASSUME NEW p \in Process, where'[p] = "off", mode'[p] # "born"
        PROVE  saved'[p] = (mode'[p] = "kernel")
    BY <1>1, <1>2, <2>3 DEF SpinInv, Interrupts
  <2> QED  BY <1>2, <2>1, <2>2, <2>3 DEF Interrupts
<1> QED  BY <1>3, <1>4, <1>5, <1>7 DEF SpinInv

\* sched() finds ptable.lock held by its CPU and nothing else pushed.
LEMMA SchedStep ==
    ASSUME SpinInv, NEW c \in CPU, sched(c)
    PROVE  SpinInv'
<1> USE SpinlockAssumption DEF NoLock, Thread, NoCpu
<1>1. PICK t \in Thread : t = on[c]
  BY DEF SpinInv, SpinTypeOK
<1>2. /\ where[t] = "run" /\ t \in Process /\ held[t] = {ptable} /\ on' = [on EXCEPT ![c] = c]
      /\ held' = [held EXCEPT ![t] = {}, ![c] = {ptable}]
      /\ where' = [where EXCEPT ![t] = "off", ![c] = "run"]
      /\ saved' = [saved EXCEPT ![t] = intena[c]]
      /\ panicked' = (~holding(c, ptable) \/ ncli[c] # 1 \/ FL_IF[c])
      /\ UNCHANGED <<FL_IF, ncli, intena, lock, lk, mode>>
  BY <1>1 DEF sched, swtch, At
<1>3. ptable \in Lock /\ Cardinality({ptable}) = 1
  BY OneLock
<1>4. ncli[c] = 1 /\ ~FL_IF[c]
  <2>1. Pushed(t) = 1
    BY <1>2, <1>3 DEF Pushed
  <2> QED  BY <1>1, <2>1 DEF SpinInv, Interrupts
<1>5. holding(c, ptable)
  BY <1>1, <1>2, <1>3, HeldByCpu DEF Between
<1>6. c \in Thread /\ c # t /\ where[c] = "off"
  BY <1>1, <1>2 DEF SpinInv, Threads
<1>7. /\ intena[c] \in BOOLEAN
      /\ mode[t] # "born" => intena[c] = (mode[t] = "kernel")
  BY <1>1, <1>2, <1>4 DEF SpinInv, SpinTypeOK, Interrupts, Flags
<1>8. saved'[t] = intena[c] /\ saved' \in [Thread -> BOOLEAN]
  BY <1>2, <1>7 DEF SpinInv, SpinTypeOK
<1>9. ~panicked'
  BY <1>2, <1>4, <1>5
<1> QED
  BY <1>1, <1>2, <1>6, <1>7, <1>8, <1>9, Switch DEF SpinInv, SpinTypeOK

\* scheduler() runs a process with the intena that it has kept.
LEMMA SchedulerStep ==
    ASSUME SpinInv, NEW c \in CPU, NEW p \in Process, scheduler(c, p)
    PROVE  SpinInv'
<1> USE SpinlockAssumption DEF NoLock, Thread, NoCpu
<1>1. /\ on[c] = c /\ where[c] = "run" /\ held[c] = {ptable} /\ where[p] = "off"
      /\ on' = [on EXCEPT ![c] = p]
      /\ held' = [held EXCEPT ![c] = {}, ![p] = {ptable}]
      /\ where' = [where EXCEPT ![c] = "off", ![p] = "run"]
      /\ intena' = [intena EXCEPT ![c] = Restored(c, p)]
      /\ UNCHANGED <<FL_IF, ncli, lock, lk, mode, saved, panicked>>
  BY DEF scheduler, swtch, At
<1>2. Restored(c, p) \in BOOLEAN
  BY DEF SpinInv, SpinTypeOK, Restored
<1>3. mode[p] # "born" => Restored(c, p) = (mode[p] = "kernel")
  BY <1>1 DEF SpinInv, Interrupts, Restored
<1>4. intena'[c] = Restored(c, p) /\ intena' \in [CPU -> BOOLEAN]
  BY <1>1, <1>2 DEF SpinInv, SpinTypeOK
<1> QED
  BY <1>1, <1>3, <1>4, Switch DEF SpinInv, SpinTypeOK

-----------------------------------------------------------------------------
LEMMA Step == SpinInv /\ [SpinNext]_spinvars => SpinInv'
<1> SUFFICES ASSUME SpinInv, [SpinNext]_spinvars PROVE SpinInv'
  OBVIOUS
<1>1. CASE SpinNext
  BY <1>1, TakeStep, GiveStep, XchgStep, AcquiredStep, UnlockStep, PopcliStep,
     InterruptStep, IretStep, SchedStep, StiStep, SchedulerStep DEF SpinNext
<1>2. CASE UNCHANGED spinvars
  BY <1>2 DEF spinvars, SpinInv, SpinTypeOK, Threads, Holders, Between, Interrupts,
     Pushed, Flags
<1> QED  BY <1>1, <1>2

\* acquire(), release(), pushcli(), popcli() and sched() never panic, and the
\* locks, the CPUs and the interrupt flags agree at every step.
THEOREM SpinInvariant == SpinSpec => []SpinInv
<1> QED  BY SpinInitially, Step, PTL DEF SpinSpec

LEMMA Implied == SpinInv => LocksHold
<1> SUFFICES ASSUME SpinInv PROVE LocksHold
  OBVIOUS
<1> USE SpinlockAssumption DEF NoLock, Thread, NoCpu
<1>1. ASSUME NEW l \in Lock
      PROVE  LET holders == {t \in Thread : l \in held[t]} IN
             /\ Cardinality(holders) = IF lock[l].locked THEN 1 ELSE 0
             /\ \A t \in holders : \E c \in CPU : on[c] = t /\ lock[l].cpu \in {c, NoCpu}
  <2> DEFINE holders == {t \in Thread : l \in held[t]}
  <2>1. CASE lock[l].locked
    <3>1. PICK t \in Thread : l \in held[t]
      BY <2>1 DEF SpinInv, Holders
    <3>2. holders = {t}
      BY <3>1 DEF SpinInv, Holders
    <3>3. PICK c \in CPU : on[c] = t
      BY <3>1 DEF SpinInv, Threads
    <3>4. lock[l].cpu \in {c, NoCpu}
      BY <3>1, <3>3 DEF SpinInv, Holders
    <3> QED  BY <2>1, <3>2, <3>3, <3>4, FS_Singleton
  <2>2. CASE ~lock[l].locked
    <3>1. holders = {}
      BY <2>2 DEF SpinInv, Holders
    <3> QED  BY <2>2, <3>1, FS_EmptySet
  <2> QED  BY <2>1, <2>2
<1>2. ASSUME NEW c \in CPU, on[c] \in Process, where[on[c]] = "run", held[on[c]] = {},
             mode[on[c]] # "born"
      PROVE  FL_IF[c] = (mode[on[c]] = "kernel") /\ ncli[c] = 0
  <2>1. ncli[c] = 0
    BY <1>2, FS_EmptySet DEF SpinInv, Interrupts, Pushed
  <2> QED  BY <1>2, <2>1 DEF SpinInv, Interrupts, Flags
<1> QED  BY <1>1, <1>2 DEF LocksHold, SpinInv

\* acquire() and release() with interrupts and sched(): a lock has one holder,
\* which is on a CPU, and a process that holds none has its interrupts as they
\* were before it took the first one.
THEOREM LocksTheorem == SpinSpec => []LocksHold
<1> QED  BY SpinInvariant, Implied, PTL

-----------------------------------------------------------------------------
(* The references to a buffer.                                             *)

LEMMA UsersFinite ==
    ASSUME CacheAssumption, NEW i
    PROVE  IsFiniteSet(Users(i)) /\ Cardinality(Users(i)) \in Nat
<1>1. Users(i) \subseteq Proc /\ IsFiniteSet(Proc)
  BY DEF Users, CacheAssumption
<1> QED  BY <1>1, FS_Subset, FS_CardinalityType

\* A process more has a pointer to the buffer.
LEMMA UserMore ==
    ASSUME CacheAssumption, NEW i \in Buf, NEW p \in Proc, at[p] = None,
           at \in [Proc -> Buf \cup {None}], at' = [at EXCEPT ![p] = i]
    PROVE  /\ Cardinality(Users(i)') = Cardinality(Users(i)) + 1
           /\ \A j \in Buf \ {i} : Users(j)' = Users(j)
<1> USE DEF CacheAssumption
<1>1. Users(i)' = Users(i) \cup {p} /\ p \notin Users(i)
  BY DEF Users
<1>2. \A j \in Buf \ {i} : Users(j)' = Users(j)
  BY DEF Users
<1>3. IsFiniteSet(Users(i))
  BY UsersFinite
<1> QED  BY <1>1, <1>2, <1>3, FS_AddElement

\* A process gives up its pointer.
LEMMA UserLess ==
    ASSUME CacheAssumption, NEW i \in Buf, NEW p \in Proc, at[p] = i,
           at \in [Proc -> Buf \cup {None}], at' = [at EXCEPT ![p] = None]
    PROVE  /\ Cardinality(Users(i)') = Cardinality(Users(i)) - 1
           /\ Cardinality(Users(i)) - 1 \in Nat
           /\ \A j \in Buf \ {i} : Users(j)' = Users(j)
<1> USE DEF CacheAssumption
<1>1. Users(i)' = Users(i) \ {p} /\ p \in Users(i)
  BY DEF Users
<1>2. \A j \in Buf \ {i} : Users(j)' = Users(j)
  BY DEF Users
<1>3. IsFiniteSet(Users(i)) /\ Cardinality(Users(i)) \in Nat
  BY UsersFinite
<1>4. Cardinality(Users(i)') = Cardinality(Users(i)) - 1
  BY <1>1, <1>3, FS_RemoveElement
<1>5. Cardinality(Users(i)') \in Nat
  <2>1. IsFiniteSet(Users(i)')
    BY <1>1, <1>3, FS_RemoveElement
  <2> QED  BY <2>1, FS_CardinalityType
<1> QED  BY <1>2, <1>4, <1>5

\* Without references nobody has a pointer.
LEMMA NoUsers ==
    ASSUME CacheAssumption, CacheInv, NEW i \in Buf, buf[i].refcnt = 0
    PROVE  \A p \in Proc : at[p] # i
<1>1. Cardinality(Users(i)) = 0
  BY DEF CacheInv, Owned
<1>2. Users(i) = {}
  BY <1>1, UsersFinite, FS_EmptySet
<1> QED  BY <1>2 DEF Users

-----------------------------------------------------------------------------
(* The list of the buffers.                                                *)

LEMMA MovedIsWhole ==
    ASSUME CacheAssumption, TypeOK, NEW i \in Buf
    PROVE  /\ MovedToFront(i) \in Seq(Buf) /\ Len(MovedToFront(i)) = Len(mru)
           /\ ToSet(MovedToFront(i)) = Buf
<1> DEFINE n == CHOOSE n \in DOMAIN mru : mru[n] = i
           s == [m \in DOMAIN mru |->
                   IF m = 1 THEN i ELSE IF m <= n THEN mru[m - 1] ELSE mru[m]]
<1>1. n \in 1 .. Len(mru) /\ mru[n] = i /\ Len(mru) \in Nat /\ DOMAIN mru = 1 .. Len(mru)
  <2>1. \E m \in DOMAIN mru : mru[m] = i
    BY DEF TypeOK, ToSet
  <2> QED  BY <2>1
<1> HIDE DEF n
<1>2. ASSUME NEW m \in 1 .. Len(mru) PROVE s[m] \in Buf
  <2>1. mru[m] \in Buf /\ (m # 1 => m - 1 \in 1 .. Len(mru))
    BY <1>1 DEF TypeOK
  <2>2. m # 1 => mru[m - 1] \in Buf
    BY <2>1 DEF TypeOK
  <2> QED  BY <1>1, <2>1, <2>2
<1>3. s \in Seq(Buf) /\ Len(s) = Len(mru) /\ DOMAIN s = 1 .. Len(mru)
  BY <1>1, <1>2
<1>4. ASSUME NEW j \in Buf PROVE \E m \in DOMAIN s : s[m] = j
  <2>1. PICK m \in 1 .. Len(mru) : mru[m] = j
    BY <1>1 DEF TypeOK, ToSet
  <2>2. CASE m < n
    <3>1. m + 1 \in DOMAIN s /\ s[m + 1] = j
      BY <1>1, <1>3, <2>1, <2>2
    <3> QED  BY <3>1
  <2>3. CASE m = n
    <3>1. 1 \in DOMAIN s /\ s[1] = j
      BY <1>1, <1>3, <2>1, <2>3
    <3> QED  BY <3>1
  <2>4. CASE m > n
    <3>1. m \in DOMAIN s /\ s[m] = j
      BY <1>1, <1>3, <2>1, <2>4
    <3> QED  BY <3>1
  <2> QED  BY <1>1, <2>1, <2>2, <2>3, <2>4
<1>5. ToSet(s) = Buf
  BY <1>2, <1>3, <1>4 DEF ToSet
<1>6. MovedToFront(i) = s
  BY DEF MovedToFront, n
<1> QED  BY <1>3, <1>5, <1>6

LEMMA UpTo ==
    ASSUME NEW n \in Nat
    PROVE  IsFiniteSet(1 .. n) /\ Cardinality(1 .. n) = n
<1>1. 1 \in Int /\ n \in Int
  OBVIOUS
<1>2. /\ IsFiniteSet(1 .. n)
      /\ Cardinality(1 .. n) = IF 1 > n THEN 0 ELSE (n - 1) + 1
  BY <1>1, FS_Interval, Zenon
<1> QED  BY <1>2

LEMMA Filled ==
    ASSUME NEW n \in Nat, NEW S, IsFiniteSet(S), Cardinality(S) = n,
           NEW f \in [1 .. n -> S], IsInjective(f), NEW x \in S
    PROVE  \E m \in 1 .. n : f[m] = x
<1> SUFFICES ASSUME \A m \in 1 .. n : f[m] # x PROVE FALSE
  OBVIOUS
<1>1. IsFiniteSet(1 .. n) /\ Cardinality(1 .. n) = n
  BY UpTo
<1>2. IsFiniteSet(S \ {x}) /\ Cardinality(S \ {x}) = n - 1
  BY FS_RemoveElement
<1>3. Cardinality(S \ {x}) < Cardinality(1 .. n)
  BY <1>1, <1>2
<1>4. f \in [1 .. n -> S \ {x}]
  OBVIOUS
<1>5. \E k, m \in 1 .. n : k # m /\ f[k] = f[m]
  BY <1>1, <1>2, <1>3, <1>4, FS_PigeonHole
<1> QED  BY <1>4, <1>5 DEF IsInjective

\* binit() puts every buffer on the list once.
LEMMA ListOfBuffers ==
    ASSUME CacheAssumption
    PROVE  /\ SetToSeq(Buf) \in Seq(Buf) /\ ToSet(SetToSeq(Buf)) = Buf
           /\ Len(SetToSeq(Buf)) = Cardinality(Buf)
<1> DEFINE N == Cardinality(Buf)
           s == SetToSeq(Buf)
<1>1. IsFiniteSet(Buf) /\ N \in Nat
  BY FS_CardinalityType DEF CacheAssumption
<1>2. \E f \in [1 .. N -> Buf] : IsInjective(f)
  <2>1. ExistsBijection(1 .. N, Buf)
    BY <1>1, FS_NatBijection, FS_CountingElements, FS_CardinalityType
  <2>2. PICK f : f \in Bijection(1 .. N, Buf)
    BY <2>1 DEF ExistsBijection
  <2> QED  BY <2>2 DEF Bijection, Injection, Surjection, IsInjective
<1>3. s \in [1 .. N -> Buf] /\ IsInjective(s)
  BY <1>2 DEF SetToSeq
<1> HIDE DEF s
<1>5. \A i \in Buf : \E n \in 1 .. N : s[n] = i
  BY <1>1, <1>3, Filled
<1> HIDE DEF N
<1>6. s \in Seq(Buf) /\ Len(s) = N /\ DOMAIN s = 1 .. N
  BY <1>1, <1>3
<1>7. ToSet(s) = Buf
  BY <1>3, <1>5, <1>6 DEF ToSet
<1> QED  BY <1>6, <1>7 DEF s, N

-----------------------------------------------------------------------------
LEMMA Initially == CacheAssumption /\ Init => CacheInv
<1> SUFFICES ASSUME CacheAssumption, Init PROVE CacheInv
  OBVIOUS
<1> USE DEF Init, binit, Val
<1>1. \A i : None # i \/ i \notin Proc \cup Block \cup Buf
  BY DEF CacheAssumption
<1>2. TypeOK
  BY ListOfBuffers DEF TypeOK, Buffer
<1>3. Owned
  <2>1. ASSUME NEW i \in Buf PROVE Users(i) = {}
    BY <1>1 DEF Users
  <2> QED  BY <2>1, FS_EmptySet DEF Owned
<1>4. Calls
  BY <1>1 DEF Calls, Pointed, Locked
<1>5. Contents
  BY DEF Contents
<1> QED  BY <1>2, <1>3, <1>4, <1>5 DEF CacheInv

-----------------------------------------------------------------------------
(* A step of each kind keeps the invariant.                                *)

\* What the invariant says of a process with a pointer.
LEMMA Pointing ==
    ASSUME CacheAssumption, CacheInv, NEW p \in Proc, pc[p] \in Pointed
    PROVE  /\ at[p] \in Buf /\ blk[p] \in Block /\ buf[at[p]].block = blk[p]
           /\ at[p] # None /\ blk[p] # None
           /\ \A j \in Buf : buf[j].block = blk[p] => j = at[p]
  BY DEF CacheAssumption, CacheInv, TypeOK, Owned, Calls, Pointed, Locked

\* A buffer that is locked is somebody's.
LEMMA LockedBy ==
    ASSUME CacheAssumption, CacheInv, NEW p \in Proc, pc[p] \in Locked
    PROVE  /\ buf[at[p]].locked = p
           /\ \A q \in Proc : q # p /\ at[q] = at[p] => pc[q] \notin Locked
  BY Pointing DEF CacheAssumption, CacheInv, TypeOK, Calls, Pointed, Locked

\* Owned is about pointers, and what a pointer leads to.
LEMMA OwnedKept ==
    ASSUME CacheInv, UNCHANGED at,
           \A q \in Proc : at[q] # None => blk'[q] = blk[q],
           \A j \in Buf : buf'[j].block = buf[j].block /\ buf'[j].refcnt = buf[j].refcnt
    PROVE  Owned'
<1>1. \A j \in Buf : Users(j)' = Users(j)
  BY DEF Users
<1>2. \A q \in Proc : at[q] # None => at[q] \in Buf
  BY DEF CacheInv, TypeOK
<1> QED  BY <1>1, <1>2 DEF CacheInv, Owned

\* Contents, if no block and no buffer gets new contents and what is to be
\* written still is.
LEMMA ContentsKept ==
    ASSUME CacheAssumption, CacheInv, UNCHANGED <<disk, latest, at>>,
           \A j \in Buf : /\ buf'[j].block = buf[j].block /\ buf'[j].valid = buf[j].valid
                         /\ buf'[j].dirty = buf[j].dirty /\ buf'[j].data = buf[j].data,
           \A q \in Proc : pc'[q] = "use" /\ op'[q] # "page" =>
                            pc[q] \in Pointed /\ buf[at[q]].valid,
           \A q \in Proc : pc'[q] \in {"begin", "sync"} =>
              pc[q] \in Pointed /\ buf[at[q]].data = latest[blk[q]] /\ blk'[q] = blk[q],
           \A q \in Proc : pc[q] \in {"begin", "sync"} => pc'[q] \in {"begin", "sync"}
    PROVE  Contents'
<1>1. \A j \in Buf : Written(j) => Written(j)'
  BY DEF Written
<1>2. \A q \in Proc : pc[q] \in Pointed => at[q] \in Buf
  BY Pointing
<1>3. \A i \in Buf : buf'[i].dirty => buf'[i].valid
  BY DEF CacheInv, Contents
<1>4. \A i \in Buf : buf'[i].valid =>
          buf'[i].block # None /\ buf'[i].data = latest'[buf'[i].block]
  BY DEF CacheInv, Contents
<1>5. \A q \in Proc : pc'[q] = "use" /\ op'[q] # "page" => buf'[at'[q]].valid
  BY <1>2
<1>6. \A q \in Proc : pc'[q] \in {"begin", "sync"} => buf'[at'[q]].data = latest'[blk'[q]]
  BY <1>2
<1>7. \A b \in Block :
         disk'[b] = latest'[b] \/ \E i \in Buf : buf'[i].block = b /\ Written(i)'
  BY <1>1 DEF CacheInv, Contents
<1> QED  BY <1>3, <1>4, <1>5, <1>6, <1>7 DEF Contents

\* A process is about to use a block.
LEMMA StartStep ==
    ASSUME CacheAssumption, CacheInv,
           NEW p \in Proc, NEW k \in Kinds, NEW b \in Block, Start(p, k, b)
    PROVE  CacheInv'
<1>1. /\ pc[p] = "idle" /\ at[p] = None /\ b # None
      /\ op' = [op EXCEPT ![p] = k] /\ blk' = [blk EXCEPT ![p] = b]
      /\ pc' = [pc EXCEPT ![p] = "get"]
      /\ UNCHANGED <<disk, buf, mru, at, committing, latest>>
  BY DEF Start, goto, CacheInv, Calls, Pointed, Locked, CacheAssumption
<1>4. TypeOK'
  BY <1>1 DEF CacheInv, TypeOK
<1>5. Owned'
  BY <1>1, OwnedKept DEF CacheInv, TypeOK
<1>6. Calls'
  <2>1. pc' \in [Proc -> Pointed \cup {"idle", "get", "panic"}]
    BY <1>1 DEF CacheInv, Calls, Pointed, Locked
  <2>2. op' \in [Proc -> Kinds \cup {None, "install"}]
    BY <1>1 DEF CacheInv, Calls
  <2>3. \A q \in Proc : at'[q] # None <=> pc'[q] \in Pointed
    BY <1>1 DEF CacheInv, TypeOK, Calls, Pointed, Locked
  <2>4. \A q \in Proc : pc'[q] # "idle" => blk'[q] # None
    BY <1>1 DEF CacheInv, TypeOK, Calls
  <2>5. \A q \in Proc, j \in Buf :
           buf'[j].locked = q <=> at'[q] = j /\ pc'[q] \in Locked
    BY <1>1 DEF CacheInv, TypeOK, Calls, Locked
  <2> QED  BY <2>1, <2>2, <2>3, <2>4, <2>5 DEF Calls
<1>7. Contents'
  BY <1>1, ContentsKept DEF CacheInv, TypeOK, Calls, Contents, Pointed, Locked
<1> QED  BY <1>4, <1>5, <1>6, <1>7 DEF CacheInv

\* The log is about to install a block, or has installed all.
LEMMA CommitStep ==
    ASSUME CacheAssumption, CacheInv, NEW p \in Proc, Commit(p)
    PROVE  CacheInv'
<1>1. /\ pc[p] = "idle" /\ at[p] = None /\ committing' \in Proc \cup {None}
      /\ UNCHANGED <<disk, buf, mru, at, latest>>
      /\ \E o \in {None, "install"} : op' = [op EXCEPT ![p] = o]
  BY DEF Commit, CacheInv, Calls, Pointed, Locked
<1>2. CASE UNCHANGED <<blk, pc>>
  BY <1>1, <1>2
  DEF CacheInv, TypeOK, Owned, Users, Calls, Contents, Written, Pointed, Locked
<1>3. CASE ~UNCHANGED <<blk, pc>>
  <2>1. PICK i \in Dirty : /\ blk' = [blk EXCEPT ![p] = buf[i].block]
                           /\ pc' = [pc EXCEPT ![p] = "get"]
    BY <1>3 DEF Commit, goto
  <2>2. buf[i].block \in Block /\ buf[i].block # None
    BY DEF Dirty, CacheInv, TypeOK, Buffer, Contents
  <2>4. TypeOK'
    BY <1>1, <2>1, <2>2 DEF CacheInv, TypeOK
  <2>5. Owned'
    BY <1>1, <2>1, OwnedKept DEF CacheInv, TypeOK
  <2>6. Calls'
    <3>1. pc' \in [Proc -> Pointed \cup {"idle", "get", "panic"}]
      BY <1>1, <2>1, <2>2 DEF CacheInv, Calls, Pointed, Locked
    <3>2. op' \in [Proc -> Kinds \cup {None, "install"}]
      BY <1>1, <2>1, <2>2 DEF CacheInv, Calls
    <3>3. \A q \in Proc : at'[q] # None <=> pc'[q] \in Pointed
      BY <1>1, <2>1, <2>2 DEF CacheInv, TypeOK, Calls, Pointed, Locked
    <3>4. \A q \in Proc : pc'[q] # "idle" => blk'[q] # None
      BY <1>1, <2>1, <2>2 DEF CacheInv, TypeOK, Calls
    <3>5. \A q \in Proc, j \in Buf :
             buf'[j].locked = q <=> at'[q] = j /\ pc'[q] \in Locked
      BY <1>1, <2>1, <2>2 DEF CacheInv, TypeOK, Calls, Locked
    <3> QED  BY <3>1, <3>2, <3>3, <3>4, <3>5 DEF Calls
  <2>7. Contents'
    BY <1>1, <2>1, ContentsKept DEF CacheInv, TypeOK, Calls, Contents, Pointed, Locked
  <2> QED  BY <2>4, <2>5, <2>6, <2>7 DEF CacheInv
<1> QED  BY <1>2, <1>3

\* acquiresleep() takes the lock or sleeps.
LEMMA AcquireStep ==
    ASSUME CacheAssumption, CacheInv, NEW p \in Proc, acquiresleep(p)
    PROVE  CacheInv'
<1>1. PICK i \in Buf : i = at[p] /\ i # None /\ buf[i] \in Buffer
  BY Pointing DEF acquiresleep, Pointed, CacheInv, TypeOK
<1>2. pc[p] = "lock" /\ UNCHANGED <<disk, mru, op, blk, at, committing, latest>>
  BY DEF acquiresleep, procvars
<1>3. ASSUME pc' = [pc EXCEPT ![p] = "asleep"], UNCHANGED buf
      PROVE  CacheInv'
  BY <1>2, <1>3
  DEF CacheInv, TypeOK, Owned, Users, Calls, Contents, Written, Pointed, Locked
<1>4. ASSUME buf[i].locked = None, pc' = [pc EXCEPT ![p] = "have"],
             buf' = [buf EXCEPT ![i].locked = p]
      PROVE  CacheInv'
  <2>1. PICK r \in Buffer : r = [buf[i] EXCEPT !.locked = p]
    BY <1>1 DEF Buffer
  <2>2. buf' = [buf EXCEPT ![i] = r]
    BY <1>4, <2>1
  <2>3. /\ buf' \in [Buf -> Buffer] /\ buf'[i] = r
        /\ \A j \in Buf \ {i} : buf'[j] = buf[j]
    BY <2>2 DEF CacheInv, TypeOK
  <2>4. /\ buf'[i].locked = p
        /\ \A j \in Buf : /\ buf'[j].block = buf[j].block /\ buf'[j].valid = buf[j].valid
                         /\ buf'[j].dirty = buf[j].dirty /\ buf'[j].data = buf[j].data
                         /\ buf'[j].refcnt = buf[j].refcnt
    BY <1>1, <2>1, <2>3 DEF Buffer
  <2>5. TypeOK'
    BY <1>2, <2>3 DEF CacheInv, TypeOK
  <2>6. Owned'
    BY <1>2, <2>4, OwnedKept
  <2>7. Calls'
    <3>1. \A q \in Proc : at[q] = i => pc[q] \notin Locked
      BY <1>1, <1>4 DEF CacheInv, Calls, CacheAssumption
    <3>2. \A q \in Proc, j \in Buf :
             buf'[j].locked = q <=> at'[q] = j /\ pc'[q] \in Locked
      BY <1>1, <1>2, <1>4, <2>3, <2>4, <3>1 DEF CacheInv, TypeOK, Calls, Locked
    <3> QED  BY <1>2, <1>4, <3>2 DEF CacheInv, Calls, Pointed, Locked
  <2>8. Contents'
    <3>1. \A q \in Proc \ {p} : pc'[q] = pc[q]
      BY <1>4 DEF CacheInv, Calls
    <3>2. pc'[p] = "have"
      BY <1>4 DEF CacheInv, Calls
    <3> QED
      BY <1>2, <2>4, <3>1, <3>2, ContentsKept
      DEF CacheInv, Calls, Contents, Pointed, Locked
  <2> QED  BY <2>5, <2>6, <2>7, <2>8 DEF CacheInv
<1> QED  BY <1>1, <1>3, <1>4 DEF acquiresleep, goto

\* bread() reads the block if the buffer does not hold it; nobody is about to
\* write it then.
LEMMA ReadStep ==
    ASSUME CacheAssumption, CacheInv, NEW p \in Proc, bread(p)
    PROVE  CacheInv'
<1>1. PICK i \in Buf : i = at[p] /\ i # None /\ buf[i] \in Buffer
  BY Pointing DEF bread, Pointed, Locked, CacheInv, TypeOK
<1>2. PICK b \in Block : /\ b = blk[p] /\ b # None /\ buf[i].block = b
                         /\ \A j \in Buf : buf[j].block = b => j = i
  BY <1>1, Pointing DEF bread, Pointed, Locked
<1>3. /\ pc[p] = "have" /\ pc' = [pc EXCEPT ![p] = "use"]
      /\ UNCHANGED <<mru, op, blk, at, committing, latest>>
  BY DEF bread, goto, procvars
<1>4. /\ \A q \in Proc \ {p} : pc'[q] = pc[q]
      /\ pc'[p] = "use" /\ pc' \in [Proc -> Pointed \cup {"idle", "get", "panic"}]
  BY <1>3 DEF CacheInv, Calls, Pointed, Locked
<1>5. CASE UNCHANGED <<buf, disk>> /\ (op[p] = "page" \/ buf[i].valid)
  <2>1. TypeOK'
    BY <1>3, <1>5 DEF CacheInv, TypeOK
  <2>2. Owned'
    BY <1>3, <1>5, OwnedKept
  <2>3. Calls'
    BY <1>3, <1>4, <1>5 DEF CacheInv, Calls, Pointed, Locked
  <2>4. Contents'
    BY <1>1, <1>3, <1>4, <1>5, ContentsKept DEF CacheInv, Calls, Contents, Pointed, Locked
  <2> QED  BY <2>1, <2>2, <2>3, <2>4 DEF CacheInv
<1>6. CASE ~buf[i].valid /\ iderw(b, i)
  <2>1. ~buf[i].dirty
    BY <1>6 DEF CacheInv, Contents
  <2>2. disk[b] \in Val /\ disk[b] = latest[b]
    <3>1. \A q \in Proc : at[q] = i => pc[q] \notin {"begin", "sync"}
      BY <1>1, <1>3, LockedBy DEF Locked
    <3>2. ~Written(i)
      BY <2>1, <3>1 DEF Written
    <3> QED  BY <1>2, <3>2 DEF CacheInv, TypeOK, Contents
  <2>3. PICK r \in Buffer : r = [buf[i] EXCEPT !.data = disk[b], !.valid = TRUE]
    BY <1>1, <2>2 DEF Buffer
  <2>4. buf' = [buf EXCEPT ![i] = r] /\ UNCHANGED disk
    BY <1>6, <2>1, <2>3 DEF iderw, CacheInv, TypeOK
  <2>5. /\ buf' \in [Buf -> Buffer] /\ buf'[i] = r
        /\ \A j \in Buf \ {i} : buf'[j] = buf[j]
    BY <2>4 DEF CacheInv, TypeOK
  <2>6. /\ buf'[i].valid /\ buf'[i].data = latest[b]
        /\ \A j \in Buf : /\ buf'[j].block = buf[j].block /\ buf'[j].dirty = buf[j].dirty
                         /\ buf'[j].refcnt = buf[j].refcnt /\ buf'[j].locked = buf[j].locked
    <3>1. /\ r.valid = TRUE /\ r.data = disk[b] /\ r.block = buf[i].block
          /\ r.dirty = buf[i].dirty /\ r.refcnt = buf[i].refcnt
          /\ r.locked = buf[i].locked
      BY <1>1, <2>3 DEF Buffer
    <3> QED  BY <2>2, <2>5, <3>1
  <2>7. TypeOK'
    BY <1>3, <2>4, <2>5 DEF CacheInv, TypeOK
  <2>8. Owned'
    BY <1>3, <2>6, OwnedKept
  <2>9. Calls'
    BY <1>3, <1>4, <2>6 DEF CacheInv, Calls, Pointed, Locked
  <2>10. Contents'
    <3>1. \A j \in Buf : Written(j) => Written(j)'
      BY <1>3, <1>4, <2>6 DEF Written
    <3>2. \A q \in Proc : pc[q] \in Pointed => at[q] \in Buf /\ buf[at[q]].block = blk[q]
      BY Pointing
    <3>3. \A j \in Buf : buf'[j].dirty => buf'[j].valid
      BY <2>1, <2>5, <2>6 DEF CacheInv, Contents
    <3>4. \A j \in Buf : buf'[j].valid =>
            buf'[j].block # None /\ buf'[j].data = latest'[buf'[j].block]
      BY <1>2, <1>3, <2>5, <2>6 DEF CacheInv, Contents
    <3>5. \A q \in Proc : pc'[q] = "use" /\ op'[q] # "page" => buf'[at'[q]].valid
      <4>1. \A j \in Buf : buf[j].valid => buf'[j].valid
        BY <2>5, <2>6
      <4> QED
        BY <1>1, <1>3, <1>4, <2>6, <3>2, <4>1 DEF CacheInv, Contents, Pointed, Locked
    <3>6. \A q \in Proc : pc'[q] \in {"begin", "sync"} =>
             buf'[at'[q]].data = latest'[blk'[q]]
      <4> SUFFICES ASSUME NEW q \in Proc, pc'[q] \in {"begin", "sync"}
                   PROVE  buf'[at'[q]].data = latest'[blk'[q]]
        OBVIOUS
      <4>1. q # p /\ pc[q] \in {"begin", "sync"}
        BY <1>4
      <4>2. at[q] \in Buf /\ at[q] # i
        BY <1>1, <1>3, <3>2, <4>1, LockedBy DEF Pointed, Locked
      <4> QED  BY <1>3, <2>5, <4>1, <4>2 DEF CacheInv, Contents
    <3>7. \A c \in Block :
             disk'[c] = latest'[c] \/ \E j \in Buf : buf'[j].block = c /\ Written(j)'
      BY <1>3, <2>4, <2>6, <3>1 DEF CacheInv, Contents
    <3> QED  BY <3>3, <3>4, <3>5, <3>6, <3>7 DEF Contents
  <2> QED  BY <2>7, <2>8, <2>9, <2>10 DEF CacheInv
<1> QED  BY <1>1, <1>2, <1>5, <1>6 DEF bread

\* What the process does with the buffer that it has locked.
LEMMA UseStep ==
    ASSUME CacheAssumption, CacheInv, NEW p \in Proc, use(p)
    PROVE  CacheInv'
<1>1. PICK i \in Buf : i = at[p] /\ i # None /\ buf[i] \in Buffer
  BY Pointing DEF use, Pointed, Locked, CacheInv, TypeOK
<1>2. PICK b \in Block : /\ b = blk[p] /\ b # None /\ buf[i].block = b
                         /\ \A j \in Buf : buf[j].block = b => j = i
  BY <1>1, Pointing DEF use, Pointed, Locked
<1>3. pc[p] = "use" /\ UNCHANGED <<disk, mru, op, blk, at, committing>>
  BY DEF use, procvars
<1>4. \A q \in Proc : pc[q] \in Pointed => at[q] \in Buf /\ buf[at[q]].block = blk[q]
  BY Pointing
<1>5. \A q \in Proc \ {p} : at[q] = i => pc[q] \notin {"begin", "sync"}
  BY <1>1, <1>3, LockedBy DEF Locked
<1>6. op[p] # "page" => buf[i].valid
  BY <1>1, <1>3 DEF CacheInv, Contents
<1>7. ASSUME NEW l \in {"release", "sync", "begin"}, pc' = [pc EXCEPT ![p] = l]
      PROVE  /\ pc'[p] = l /\ \A q \in Proc \ {p} : pc'[q] = pc[q]
             /\ pc' \in [Proc -> Pointed \cup {"idle", "get", "panic"}]
             /\ ((\A j \in Buf : buf'[j].locked = buf[j].locked) => Calls')
  <2>1. /\ pc'[p] = l /\ \A q \in Proc \ {p} : pc'[q] = pc[q]
        /\ pc' \in [Proc -> Pointed \cup {"idle", "get", "panic"}]
    BY <1>7 DEF CacheInv, Calls, Pointed, Locked
  <2>2. ASSUME \A j \in Buf : buf'[j].locked = buf[j].locked
        PROVE  Calls'
    BY <1>3, <2>1, <2>2 DEF CacheInv, Calls, Pointed, Locked
  <2> QED  BY <2>1, <2>2
<1>8. ASSUME NEW l \in {"release", "sync"}, pc' = [pc EXCEPT ![p] = l],
             op[p] # "page", UNCHANGED <<buf, latest>>
      PROVE  CacheInv'
  <2>1. TypeOK'
    BY <1>3, <1>8 DEF CacheInv, TypeOK
  <2>2. Owned'
    BY <1>3, <1>8, OwnedKept
  <2>3. Calls'
    BY <1>7, <1>8
  <2>4. Contents'
    <3>1. buf[i].data = latest[b]
      BY <1>2, <1>6, <1>8 DEF CacheInv, Contents
    <3>2. pc'[p] = l /\ \A q \in Proc \ {p} : pc'[q] = pc[q]
      BY <1>7, <1>8
    <3> QED
      BY <1>1, <1>2, <1>3, <1>8, <3>1, <3>2, ContentsKept
      DEF CacheInv, Calls, Contents, Pointed, Locked
  <2> QED  BY <2>1, <2>2, <2>3, <2>4 DEF CacheInv
<1>9. ASSUME NEW v \in Val, NEW l \in {"release", "sync", "begin"},
             pc' = [pc EXCEPT ![p] = l], l = "release" => op[p] = "log",
             buf' = [buf EXCEPT ![i].data = v, ![i].dirty = @ \/ op[p] = "log"],
             latest' = [latest EXCEPT ![b] = v]
      PROVE  CacheInv'
  <2>1. PICK r \in Buffer :
           r = [buf[i] EXCEPT !.data = v, !.dirty = buf[i].dirty \/ op[p] = "log"]
    BY <1>1 DEF Buffer
  <2>2. buf' = [buf EXCEPT ![i] = r]
    BY <1>9, <2>1 DEF CacheInv, TypeOK
  <2>3. /\ buf' \in [Buf -> Buffer] /\ buf'[i] = r
        /\ \A j \in Buf \ {i} : buf'[j] = buf[j]
    BY <2>2 DEF CacheInv, TypeOK
  <2>4. /\ buf'[i].data = v /\ buf'[i].dirty = (buf[i].dirty \/ op[p] = "log")
        /\ \A j \in Buf : /\ buf'[j].block = buf[j].block /\ buf'[j].valid = buf[j].valid
                         /\ buf'[j].refcnt = buf[j].refcnt /\ buf'[j].locked = buf[j].locked
    <3>1. /\ r.data = v /\ r.dirty = (buf[i].dirty \/ op[p] = "log")
          /\ r.block = buf[i].block /\ r.valid = buf[i].valid
          /\ r.refcnt = buf[i].refcnt /\ r.locked = buf[i].locked
      BY <1>1, <2>1 DEF Buffer
    <3> QED  BY <2>3, <3>1
  <2>5. /\ latest' \in [Block -> Val] /\ latest'[b] = v
        /\ \A c \in Block \ {b} : latest'[c] = latest[c]
    BY <1>9 DEF CacheInv, TypeOK
  <2>6. pc'[p] = l /\ \A q \in Proc \ {p} : pc'[q] = pc[q]
    BY <1>7, <1>9
  <2>7. TypeOK'
    BY <1>3, <2>3, <2>5 DEF CacheInv, TypeOK
  <2>8. Owned'
    BY <1>3, <2>4, OwnedKept
  <2>9. Calls'
    BY <1>7, <1>9, <2>4
  <2>10. Contents'
    <3>1. \A j \in Buf : Written(j) => Written(j)'
      BY <1>3, <2>3, <2>4, <2>6 DEF Written
    <3>2. Written(i)'
      BY <1>1, <1>3, <1>9, <2>4, <2>6 DEF Written
    <3>3. \A j \in Buf : buf'[j].dirty => buf'[j].valid
      BY <1>6, <2>3, <2>4 DEF CacheInv, Contents
    <3>4. \A j \in Buf : buf'[j].valid =>
            buf'[j].block # None /\ buf'[j].data = latest'[buf'[j].block]
      <4> SUFFICES ASSUME NEW j \in Buf, buf'[j].valid
                   PROVE  buf'[j].block # None /\ buf'[j].data = latest'[buf'[j].block]
        OBVIOUS
      <4>1. CASE j = i
        BY <1>2, <2>4, <2>5, <4>1
      <4>2. CASE j # i
        <5>1. buf[j].valid /\ buf[j].block \in Block \ {b} /\ buf'[j] = buf[j]
          BY <1>2, <2>3, <2>4, <4>2 DEF CacheInv, TypeOK, Buffer, Contents
        <5> QED  BY <2>5, <5>1 DEF CacheInv, Contents
      <4> QED  BY <4>1, <4>2
    <3>5. \A q \in Proc : pc'[q] = "use" /\ op'[q] # "page" => buf'[at'[q]].valid
      BY <1>3, <1>4, <2>4, <2>6 DEF CacheInv, Contents, Pointed, Locked
    <3>6. \A q \in Proc : pc'[q] \in {"begin", "sync"} =>
             buf'[at'[q]].data = latest'[blk'[q]]
      <4> SUFFICES ASSUME NEW q \in Proc, pc'[q] \in {"begin", "sync"}
                   PROVE  buf'[at'[q]].data = latest'[blk'[q]]
        OBVIOUS
      <4>1. CASE q = p
        BY <1>1, <1>2, <1>3, <2>4, <2>5, <4>1
      <4>2. CASE q # p
        <5>1. pc[q] \in {"begin", "sync"} /\ at[q] \in Buf \ {i}
          BY <1>4, <1>5, <2>6, <4>2 DEF Pointed, Locked
        <5>2. blk[q] \in Block \ {b}
          BY <1>2, <1>4, <5>1, Pointing DEF Pointed, Locked
        <5> QED  BY <1>3, <2>3, <2>5, <5>1, <5>2 DEF CacheInv, Contents
      <4> QED  BY <4>1, <4>2
    <3>7. \A c \in Block :
             disk'[c] = latest'[c] \/ \E j \in Buf : buf'[j].block = c /\ Written(j)'
      BY <1>2, <1>3, <2>4, <2>5, <3>1, <3>2 DEF CacheInv, Contents
    <3> QED  BY <3>3, <3>4, <3>5, <3>6, <3>7 DEF Contents
  <2> QED  BY <2>7, <2>8, <2>9, <2>10 DEF CacheInv
<1>10. CASE op[p] \in {"read", "install"} /\ UNCHANGED <<buf, latest>>
            /\ \E l \in {"release", "sync"} : pc' = [pc EXCEPT ![p] = l]
  BY <1>8, <1>10
<1>11. CASE \E v \in Val, l \in {"release", "sync", "begin"} :
               /\ pc' = [pc EXCEPT ![p] = l] /\ (l = "release" => op[p] = "log")
               /\ buf' = [buf EXCEPT ![i].data = v, ![i].dirty = @ \/ op[p] = "log"]
               /\ latest' = [latest EXCEPT ![b] = v]
  BY <1>9, <1>11
<1> QED  BY <1>1, <1>2, <1>10, <1>11 DEF use, goto

\* The page waits for a commit to end.
LEMMA BeginStep ==
    ASSUME CacheAssumption, CacheInv, NEW p \in Proc, begin_op(p)
    PROVE  CacheInv'
<1>1. /\ pc[p] = "begin" /\ pc' = [pc EXCEPT ![p] = "sync"]
      /\ UNCHANGED <<disk, buf, mru, op, blk, at, committing, latest>>
  BY DEF begin_op, goto, procvars
<1>2. /\ pc'[p] = "sync" /\ \A q \in Proc \ {p} : pc'[q] = pc[q]
      /\ pc' \in [Proc -> Pointed \cup {"idle", "get", "panic"}]
  BY <1>1 DEF CacheInv, Calls, Pointed, Locked
<1>3. TypeOK'
  BY <1>1 DEF CacheInv, TypeOK
<1>4. Owned'
  BY <1>1, OwnedKept
<1>5. Calls'
  BY <1>1, <1>2 DEF CacheInv, Calls, Pointed, Locked
<1>6. Contents'
  BY <1>1, <1>2, ContentsKept DEF CacheInv, Contents, Pointed, Locked
<1> QED  BY <1>3, <1>4, <1>5, <1>6 DEF CacheInv

\* bwrite() makes the disk agree with the buffer.
LEMMA WriteStep ==
    ASSUME CacheAssumption, CacheInv, NEW p \in Proc, bwrite(p)
    PROVE  CacheInv'
<1>1. PICK i \in Buf : i = at[p] /\ i # None /\ buf[i] \in Buffer
  BY Pointing DEF bwrite, Pointed, Locked, CacheInv, TypeOK
<1>2. PICK b \in Block : /\ b = blk[p] /\ b # None /\ buf[i].block = b
                         /\ \A j \in Buf : buf[j].block = b => j = i
  BY <1>1, Pointing DEF bwrite, Pointed, Locked
<1>3. /\ pc[p] = "sync" /\ pc' = [pc EXCEPT ![p] = "release"]
      /\ disk' = [disk EXCEPT ![b] = buf[i].data]
      /\ buf' = [buf EXCEPT ![i].dirty = FALSE, ![i].valid = TRUE]
      /\ UNCHANGED <<mru, op, blk, at, committing, latest>>
  BY <1>1, <1>2 DEF bwrite, goto, procvars
<1>4. /\ \A q \in Proc \ {p} : pc'[q] = pc[q]
      /\ pc'[p] = "release" /\ pc' \in [Proc -> Pointed \cup {"idle", "get", "panic"}]
  BY <1>3 DEF CacheInv, Calls, Pointed, Locked
<1>5. buf[i].data = latest[b] /\ buf[i].data \in Val
  BY <1>1, <1>2, <1>3 DEF CacheInv, Contents, Buffer
<1>6. PICK r \in Buffer : r = [buf[i] EXCEPT !.dirty = FALSE, !.valid = TRUE]
  BY <1>1 DEF Buffer
<1>7. buf' = [buf EXCEPT ![i] = r]
  BY <1>3, <1>6 DEF CacheInv, TypeOK
<1>8. /\ buf' \in [Buf -> Buffer] /\ buf'[i] = r
      /\ \A j \in Buf \ {i} : buf'[j] = buf[j]
  BY <1>7 DEF CacheInv, TypeOK
<1>9. /\ buf'[i].dirty = FALSE /\ buf'[i].valid = TRUE
      /\ \A j \in Buf : /\ buf'[j].block = buf[j].block /\ buf'[j].data = buf[j].data
                       /\ buf'[j].refcnt = buf[j].refcnt /\ buf'[j].locked = buf[j].locked
  <2>1. /\ r.valid = TRUE /\ r.dirty = FALSE /\ r.block = buf[i].block
        /\ r.data = buf[i].data /\ r.refcnt = buf[i].refcnt /\ r.locked = buf[i].locked
    BY <1>1, <1>6 DEF Buffer
  <2> QED  BY <1>8, <2>1
<1>10. /\ disk' \in [Block -> Val] /\ disk'[b] = latest[b]
       /\ \A c \in Block \ {b} : disk'[c] = disk[c]
  BY <1>3, <1>5 DEF CacheInv, TypeOK
<1>11. TypeOK'
  BY <1>3, <1>8, <1>10 DEF CacheInv, TypeOK
<1>12. Owned'
  BY <1>3, <1>9, OwnedKept
<1>13. Calls'
  <2>1. pc' \in [Proc -> Pointed \cup {"idle", "get", "panic"}]
    BY <1>3, <1>4, <1>9 DEF CacheInv, Calls, Pointed, Locked
  <2>2. op' \in [Proc -> Kinds \cup {None, "install"}]
    BY <1>3, <1>4, <1>9 DEF CacheInv, Calls
  <2>3. \A q \in Proc : at'[q] # None <=> pc'[q] \in Pointed
    BY <1>3, <1>4, <1>9 DEF CacheInv, TypeOK, Calls, Pointed, Locked
  <2>4. \A q \in Proc : pc'[q] # "idle" => blk'[q] # None
    BY <1>3, <1>4, <1>9 DEF CacheInv, TypeOK, Calls
  <2>5. \A q \in Proc, j \in Buf :
           buf'[j].locked = q <=> at'[q] = j /\ pc'[q] \in Locked
    BY <1>3, <1>4, <1>9 DEF CacheInv, TypeOK, Calls, Locked
  <2> QED  BY <2>1, <2>2, <2>3, <2>4, <2>5 DEF Calls
<1>14. Contents'
  <2>1. \A j \in Buf \ {i} : Written(j) => Written(j)'
    BY <1>1, <1>3, <1>4, <1>8 DEF Written
  <2>2. \A q \in Proc : pc[q] \in Pointed => at[q] \in Buf
    BY Pointing
  <2>3. \A j \in Buf : buf'[j].dirty => buf'[j].valid
    BY <1>8, <1>9 DEF CacheInv, Contents
  <2>4. \A j \in Buf : buf'[j].valid =>
          buf'[j].block # None /\ buf'[j].data = latest'[buf'[j].block]
    BY <1>2, <1>3, <1>5, <1>8, <1>9 DEF CacheInv, Contents
  <2>5. \A q \in Proc : pc'[q] = "use" /\ op'[q] # "page" => buf'[at'[q]].valid
    BY <1>3, <1>4, <1>8, <1>9, <2>2 DEF CacheInv, Contents, Pointed, Locked
  <2>6. \A q \in Proc : pc'[q] \in {"begin", "sync"} => buf'[at'[q]].data = latest'[blk'[q]]
    <3> SUFFICES ASSUME NEW q \in Proc, pc'[q] \in {"begin", "sync"}
                 PROVE  buf'[at[q]].data = latest[blk[q]]
      BY <1>3
    <3>1. pc[q] \in {"begin", "sync"} /\ at[q] \in Buf
      BY <1>4, <2>2 DEF Pointed, Locked
    <3> QED  BY <1>9, <3>1 DEF CacheInv, Contents
  <2>7. \A c \in Block :
           disk'[c] = latest'[c] \/ \E j \in Buf : buf'[j].block = c /\ Written(j)'
    <3> SUFFICES ASSUME NEW c \in Block \ {b}, disk[c] # latest[c]
                 PROVE  \E j \in Buf : buf'[j].block = c /\ Written(j)'
      BY <1>3, <1>10
    <3>1. PICK j \in Buf : buf[j].block = c /\ Written(j)
      BY DEF CacheInv, Contents
    <3> QED  BY <1>2, <1>9, <2>1, <3>1
  <2> QED  BY <2>3, <2>4, <2>5, <2>6, <2>7 DEF Contents
<1> QED  BY <1>11, <1>12, <1>13, <1>14 DEF CacheInv

\* releasesleep() lets the lock go and wakes who sleeps on the buffer.
LEMMA ReleaseStep ==
    ASSUME CacheAssumption, CacheInv, NEW p \in Proc, releasesleep(p)
    PROVE  CacheInv'
<1>1. PICK i \in Buf : i = at[p] /\ i # None /\ buf[i] \in Buffer
  BY Pointing DEF releasesleep, Pointed, Locked, CacheInv, TypeOK
<1>2. /\ pc[p] = "release" /\ buf' = [buf EXCEPT ![i].locked = None]
      /\ UNCHANGED <<disk, mru, op, blk, at, committing, latest>>
  BY <1>1 DEF releasesleep, procvars
<1>3. /\ pc'[p] = "drop" /\ pc' \in [Proc -> Pointed \cup {"idle", "get", "panic"}]
      /\ \A q \in Proc \ {p} : pc'[q] = pc[q] \/ (pc[q] = "asleep" /\ pc'[q] = "lock")
  BY DEF releasesleep, CacheInv, Calls, Pointed, Locked
<1>4. PICK r \in Buffer : r = [buf[i] EXCEPT !.locked = None]
  BY <1>1 DEF Buffer
<1>5. buf' = [buf EXCEPT ![i] = r]
  BY <1>2, <1>4 DEF CacheInv, TypeOK
<1>6. /\ buf' \in [Buf -> Buffer] /\ buf'[i] = r
      /\ \A j \in Buf \ {i} : buf'[j] = buf[j]
  BY <1>5 DEF CacheInv, TypeOK
<1>7. /\ buf'[i].locked = None
      /\ \A j \in Buf : /\ buf'[j].block = buf[j].block /\ buf'[j].valid = buf[j].valid
                       /\ buf'[j].dirty = buf[j].dirty /\ buf'[j].data = buf[j].data
                       /\ buf'[j].refcnt = buf[j].refcnt
  <2>1. /\ r.locked = None /\ r.block = buf[i].block /\ r.valid = buf[i].valid
        /\ r.dirty = buf[i].dirty /\ r.data = buf[i].data /\ r.refcnt = buf[i].refcnt
    BY <1>1, <1>4 DEF Buffer
  <2> QED  BY <1>6, <2>1
<1>8. TypeOK'
  BY <1>2, <1>6 DEF CacheInv, TypeOK
<1>9. Owned'
  BY <1>2, <1>7, OwnedKept
<1>10. Calls'
  <2>1. \A q \in Proc : at[q] = i /\ pc[q] \in Locked => q = p
    BY <1>1, <1>2, LockedBy DEF Locked
  <2>2. \A q \in Proc, j \in Buf :
           buf'[j].locked = q <=> at'[q] = j /\ pc'[q] \in Locked
    <3> SUFFICES ASSUME NEW q \in Proc, NEW j \in Buf
                 PROVE  buf'[j].locked = q <=> at[q] = j /\ pc'[q] \in Locked
      BY <1>2
    <3>1. q # None
      BY DEF CacheAssumption
    <3>2. pc'[q] \in Locked <=> pc[q] \in Locked /\ q # p
      BY <1>2, <1>3 DEF Locked
    <3>3. buf[j].locked = q <=> at[q] = j /\ pc[q] \in Locked
      BY DEF CacheInv, Calls
    <3>4. CASE j = i
      BY <1>7, <2>1, <3>1, <3>2, <3>4
    <3>5. CASE j # i
      BY <1>1, <1>6, <3>2, <3>3, <3>5
    <3> QED  BY <3>4, <3>5
  <2>3. \A q \in Proc : pc'[q] \in Pointed <=> pc[q] \in Pointed
    BY <1>2, <1>3 DEF Pointed, Locked
  <2>4. \A q \in Proc : pc'[q] # "idle" => pc[q] # "idle"
    BY <1>2, <1>3
  <2> QED  BY <1>2, <1>3, <2>2, <2>3, <2>4 DEF CacheInv, Calls
<1>11. Contents'
  <2>1. \A q \in Proc : /\ (pc'[q] \in {"use", "begin", "sync"} => pc'[q] = pc[q])
                        /\ (pc[q] \in {"begin", "sync"} => pc'[q] = pc[q])
    BY <1>2, <1>3
  <2>2. \A q \in Proc : pc'[q] = "use" /\ op'[q] # "page" =>
                         pc[q] \in Pointed /\ buf[at[q]].valid
    BY <1>2, <2>1 DEF CacheInv, Contents, Pointed, Locked
  <2>3. \A q \in Proc : pc'[q] \in {"begin", "sync"} =>
           pc[q] \in Pointed /\ buf[at[q]].data = latest[blk[q]] /\ blk'[q] = blk[q]
    BY <1>2, <2>1 DEF CacheInv, Contents, Pointed, Locked
  <2>4. \A q \in Proc : pc[q] \in {"begin", "sync"} => pc'[q] \in {"begin", "sync"}
    BY <2>1
  <2> QED  BY <1>2, <1>7, <2>2, <2>3, <2>4, ContentsKept
<1> QED  BY <1>8, <1>9, <1>10, <1>11 DEF CacheInv

\* brelse() gives the pointer up; an unused buffer goes to the front of the list.
LEMMA DropStep ==
    ASSUME CacheAssumption, CacheInv, NEW p \in Proc, brelse(p)
    PROVE  CacheInv'
<1>1. PICK i \in Buf : i = at[p] /\ i # None /\ buf[i] \in Buffer
  BY Pointing DEF brelse, Pointed, Locked, CacheInv, TypeOK
<1>2. /\ pc[p] = "drop" /\ pc' = [pc EXCEPT ![p] = "idle"]
      /\ buf' = [buf EXCEPT ![i].refcnt = @ - 1]
      /\ mru' = IF buf[i].refcnt = 1 THEN MovedToFront(i) ELSE mru
      /\ at' = [at EXCEPT ![p] = None] /\ blk' = [blk EXCEPT ![p] = None]
      /\ \E o \in Kinds \cup {None, "install"} : op' = [op EXCEPT ![p] = o]
      /\ UNCHANGED <<disk, committing, latest>>
  BY <1>1 DEF brelse, goto
<1>3. /\ pc'[p] = "idle" /\ pc' \in [Proc -> Pointed \cup {"idle", "get", "panic"}]
      /\ \A q \in Proc \ {p} : pc'[q] = pc[q]
  BY <1>2 DEF CacheInv, Calls
<1>4. /\ at'[p] = None /\ blk'[p] = None
      /\ \A q \in Proc \ {p} : at'[q] = at[q] /\ blk'[q] = blk[q] /\ op'[q] = op[q]
      /\ at' \in [Proc -> Buf \cup {None}] /\ blk' \in [Proc -> Block \cup {None}]
      /\ op' \in [Proc -> Kinds \cup {None, "install"}]
  BY <1>2 DEF CacheInv, TypeOK, Calls
<1>5. /\ Cardinality(Users(i)') = Cardinality(Users(i)) - 1
      /\ Cardinality(Users(i)) - 1 \in Nat
      /\ \A j \in Buf \ {i} : Users(j)' = Users(j)
  BY <1>1, <1>2, UserLess DEF CacheInv, TypeOK
<1>6. buf[i].refcnt = Cardinality(Users(i))
  BY DEF CacheInv, Owned
<1>7. PICK r \in Buffer : r = [buf[i] EXCEPT !.refcnt = buf[i].refcnt - 1]
  BY <1>1, <1>5, <1>6 DEF Buffer
<1>8. buf' = [buf EXCEPT ![i] = r]
  BY <1>2, <1>7 DEF CacheInv, TypeOK
<1>9. /\ buf' \in [Buf -> Buffer] /\ buf'[i] = r
      /\ \A j \in Buf \ {i} : buf'[j] = buf[j]
  BY <1>8 DEF CacheInv, TypeOK
<1>10. /\ buf'[i].refcnt = buf[i].refcnt - 1
       /\ \A j \in Buf : /\ buf'[j].block = buf[j].block /\ buf'[j].valid = buf[j].valid
                        /\ buf'[j].dirty = buf[j].dirty /\ buf'[j].data = buf[j].data
                        /\ buf'[j].locked = buf[j].locked
  <2>1. /\ r.refcnt = buf[i].refcnt - 1 /\ r.block = buf[i].block
        /\ r.valid = buf[i].valid /\ r.dirty = buf[i].dirty
        /\ r.data = buf[i].data /\ r.locked = buf[i].locked
    BY <1>1, <1>7 DEF Buffer
  <2> QED  BY <1>9, <2>1
<1>11. TypeOK'
  <2>1. mru' \in Seq(Buf) /\ ToSet(mru') = Buf /\ Len(mru') = Cardinality(Buf)
    BY <1>2, MovedIsWhole DEF CacheInv, TypeOK
  <2> QED  BY <1>2, <1>4, <1>9, <2>1 DEF CacheInv, TypeOK
<1>12. Owned'
  <2>1. \A j, k \in Buf : buf'[j].block = buf'[k].block /\ j # k => buf'[j].block = None
    BY <1>10 DEF CacheInv, Owned
  <2>2. \A j \in Buf : buf'[j].refcnt = Cardinality(Users(j)')
    BY <1>5, <1>6, <1>9, <1>10 DEF CacheInv, Owned
  <2>3. ASSUME NEW q \in Proc, at'[q] # None PROVE buf'[at'[q]].block = blk'[q]
    <3>1. q # p /\ at'[q] = at[q] /\ blk'[q] = blk[q] /\ at[q] \in Buf
      BY <1>4, <2>3 DEF CacheInv, TypeOK
    <3> QED  BY <1>10, <2>3, <3>1 DEF CacheInv, Owned
  <2> QED  BY <2>1, <2>2, <2>3 DEF Owned
<1>13. Calls'
  <2>1. \A q \in Proc : at'[q] # None <=> pc'[q] \in Pointed
    BY <1>3, <1>4 DEF CacheInv, Calls, Pointed, Locked
  <2>2. \A q \in Proc : pc'[q] # "idle" => blk'[q] # None
    BY <1>3, <1>4 DEF CacheInv, Calls
  <2>3. \A q \in Proc, j \in Buf :
           buf'[j].locked = q <=> at'[q] = j /\ pc'[q] \in Locked
    <3> SUFFICES ASSUME NEW q \in Proc, NEW j \in Buf
                 PROVE  buf[j].locked = q <=> at'[q] = j /\ pc'[q] \in Locked
      BY <1>10
    <3>1. buf[j].locked = q <=> at[q] = j /\ pc[q] \in Locked
      BY DEF CacheInv, Calls
    <3>2. CASE q = p
      BY <1>2, <1>3, <3>1, <3>2 DEF Locked
    <3>3. CASE q # p
      BY <1>3, <1>4, <3>1, <3>3
    <3> QED  BY <3>2, <3>3
  <2> QED  BY <1>3, <1>4, <2>1, <2>2, <2>3 DEF Calls
<1>14. Contents'
  <2>1. \A j \in Buf : Written(j) => Written(j)'
    <3> SUFFICES ASSUME NEW j \in Buf, Written(j) PROVE Written(j)'
      OBVIOUS
    <3>1. CASE buf[j].dirty
      BY <1>10, <3>1 DEF Written
    <3>2. CASE \E q \in Proc : at[q] = j /\ pc[q] \in {"begin", "sync"}
      BY <1>2, <1>3, <1>4, <3>2 DEF Written
    <3> QED  BY <3>1, <3>2 DEF Written
  <2>2. \A q \in Proc \ {p} : pc[q] \in Pointed => at[q] \in Buf
    BY Pointing
  <2>3. \A j \in Buf : buf'[j].dirty => buf'[j].valid
    BY <1>10 DEF CacheInv, Contents
  <2>4. \A j \in Buf : buf'[j].valid =>
          buf'[j].block # None /\ buf'[j].data = latest'[buf'[j].block]
    BY <1>2, <1>10 DEF CacheInv, Contents
  <2>5. ASSUME NEW q \in Proc, pc'[q] = "use", op'[q] # "page" PROVE buf'[at'[q]].valid
    <3>1. q # p /\ pc[q] = "use" /\ op[q] # "page" /\ at'[q] = at[q] /\ at[q] \in Buf
      BY <1>3, <1>4, <2>2, <2>5 DEF Pointed, Locked
    <3> QED  BY <1>10, <3>1 DEF CacheInv, Contents
  <2>6. ASSUME NEW q \in Proc, pc'[q] \in {"begin", "sync"}
        PROVE  buf'[at'[q]].data = latest'[blk'[q]]
    <3>1. /\ q # p /\ pc[q] \in {"begin", "sync"}
          /\ at'[q] = at[q] /\ blk'[q] = blk[q] /\ at[q] \in Buf
      BY <1>3, <1>4, <2>2, <2>6 DEF Pointed, Locked
    <3> QED  BY <1>2, <1>10, <3>1 DEF CacheInv, Contents
  <2>7. \A c \in Block :
           disk'[c] = latest'[c] \/ \E j \in Buf : buf'[j].block = c /\ Written(j)'
    BY <1>2, <1>10, <2>1 DEF CacheInv, Contents
  <2> QED  BY <2>3, <2>4, <2>5, <2>6, <2>7 DEF Contents
<1> QED  BY <1>11, <1>12, <1>13, <1>14 DEF CacheInv

\* bget() finds the block cached: a reference more.
LEMMA HitStep ==
    ASSUME CacheAssumption, CacheInv, NEW p \in Proc, pc[p] = "get",
           NEW i \in Buf, buf[i].block = blk[p],
           NEW r \in Buffer, r = [buf[i] EXCEPT !.refcnt = buf[i].refcnt + 1],
           buf' = [buf EXCEPT ![i] = r], at' = [at EXCEPT ![p] = i],
           pc' = [pc EXCEPT ![p] = "lock"],
           UNCHANGED <<disk, mru, op, blk, committing, latest>>
    PROVE  CacheInv'
<1>1. buf[i] \in Buffer /\ i # None /\ at[p] = None /\ blk[p] # None
  BY DEF CacheAssumption, CacheInv, TypeOK, Calls, Pointed, Locked
<1>2. /\ pc'[p] = "lock" /\ pc' \in [Proc -> Pointed \cup {"idle", "get", "panic"}]
      /\ \A q \in Proc \ {p} : pc'[q] = pc[q]
  BY DEF CacheInv, Calls, Pointed, Locked
<1>3. /\ at'[p] = i /\ \A q \in Proc \ {p} : at'[q] = at[q]
      /\ at' \in [Proc -> Buf \cup {None}]
  BY DEF CacheInv, TypeOK
<1>4. /\ Cardinality(Users(i)') = Cardinality(Users(i)) + 1
      /\ \A j \in Buf \ {i} : Users(j)' = Users(j)
  BY <1>1, UserMore DEF CacheInv, TypeOK
<1>7. /\ buf' \in [Buf -> Buffer] /\ buf'[i] = r
      /\ \A j \in Buf \ {i} : buf'[j] = buf[j]
  BY DEF CacheInv, TypeOK
<1>8. /\ buf'[i].refcnt = buf[i].refcnt + 1
      /\ \A j \in Buf : /\ buf'[j].block = buf[j].block /\ buf'[j].valid = buf[j].valid
                       /\ buf'[j].dirty = buf[j].dirty /\ buf'[j].data = buf[j].data
                       /\ buf'[j].locked = buf[j].locked
  <2>1. /\ r.refcnt = buf[i].refcnt + 1 /\ r.block = buf[i].block
        /\ r.valid = buf[i].valid /\ r.dirty = buf[i].dirty
        /\ r.data = buf[i].data /\ r.locked = buf[i].locked
    BY <1>1 DEF Buffer
  <2> QED  BY <1>7, <2>1
<1>9. TypeOK'
  BY <1>3, <1>7 DEF CacheInv, TypeOK
<1>10. Owned'
  <2>1. \A j, k \in Buf : buf'[j].block = buf'[k].block /\ j # k => buf'[j].block = None
    BY <1>8 DEF CacheInv, Owned
  <2>2. \A j \in Buf : buf'[j].refcnt = Cardinality(Users(j)')
    BY <1>4, <1>7, <1>8 DEF CacheInv, Owned
  <2>3. ASSUME NEW q \in Proc, at'[q] # None PROVE buf'[at'[q]].block = blk'[q]
    <3>1. CASE q = p
      BY <1>3, <1>8, <3>1
    <3>2. CASE q # p
      <4>1. at'[q] = at[q] /\ at[q] \in Buf
        BY <1>3, <2>3, <3>2 DEF CacheInv, TypeOK
      <4> QED  BY <1>8, <2>3, <4>1 DEF CacheInv, Owned
    <3> QED  BY <3>1, <3>2
  <2> QED  BY <2>1, <2>2, <2>3 DEF Owned
<1>11. Calls'
  <2>1. \A q \in Proc : at'[q] # None <=> pc'[q] \in Pointed
    BY <1>1, <1>2, <1>3 DEF CacheInv, Calls, Pointed, Locked
  <2>2. \A q \in Proc : pc'[q] # "idle" => blk'[q] # None
    BY <1>1, <1>2 DEF CacheInv, Calls
  <2>3. \A q \in Proc, j \in Buf :
           buf'[j].locked = q <=> at'[q] = j /\ pc'[q] \in Locked
    <3> SUFFICES ASSUME NEW q \in Proc, NEW j \in Buf
                 PROVE  buf[j].locked = q <=> at'[q] = j /\ pc'[q] \in Locked
      BY <1>8
    <3>1. buf[j].locked = q <=> at[q] = j /\ pc[q] \in Locked
      BY DEF CacheInv, Calls
    <3>2. CASE q = p
      BY <1>2, <3>1, <3>2 DEF Locked
    <3>3. CASE q # p
      BY <1>2, <1>3, <3>1, <3>3
    <3> QED  BY <3>2, <3>3
  <2> QED  BY <1>2, <2>1, <2>2, <2>3 DEF CacheInv, Calls
<1>12. Contents'
  <2>1. \A j \in Buf : Written(j) => Written(j)'
    <3> SUFFICES ASSUME NEW j \in Buf, Written(j) PROVE Written(j)'
      OBVIOUS
    <3>1. CASE buf[j].dirty
      BY <1>8, <3>1 DEF Written
    <3>2. CASE \E q \in Proc : at[q] = j /\ pc[q] \in {"begin", "sync"}
      BY <1>2, <1>3, <3>2 DEF Written
    <3> QED  BY <3>1, <3>2 DEF Written
  <2>2. \A q \in Proc \ {p} : pc[q] \in Pointed => at[q] \in Buf
    BY Pointing
  <2>3. \A j \in Buf : buf'[j].dirty => buf'[j].valid
    BY <1>8 DEF CacheInv, Contents
  <2>4. \A j \in Buf : buf'[j].valid =>
          buf'[j].block # None /\ buf'[j].data = latest'[buf'[j].block]
    BY <1>8 DEF CacheInv, Contents
  <2>5. ASSUME NEW q \in Proc, pc'[q] = "use", op'[q] # "page" PROVE buf'[at'[q]].valid
    <3>1. pc[q] = "use" /\ op[q] # "page" /\ at'[q] = at[q] /\ at[q] \in Buf
      BY <1>2, <1>3, <2>2, <2>5 DEF Pointed, Locked
    <3> QED  BY <1>8, <3>1 DEF CacheInv, Contents
  <2>6. ASSUME NEW q \in Proc, pc'[q] \in {"begin", "sync"}
        PROVE  buf'[at'[q]].data = latest'[blk'[q]]
    <3>1. pc[q] \in {"begin", "sync"} /\ at'[q] = at[q] /\ at[q] \in Buf
      BY <1>2, <1>3, <2>2, <2>6 DEF Pointed, Locked
    <3> QED  BY <1>8, <3>1 DEF CacheInv, Contents
  <2>7. \A c \in Block :
           disk'[c] = latest'[c] \/ \E j \in Buf : buf'[j].block = c /\ Written(j)'
    BY <1>8, <2>1 DEF CacheInv, Contents
  <2> QED  BY <2>3, <2>4, <2>5, <2>6, <2>7 DEF Contents
<1> QED  BY <1>9, <1>10, <1>11, <1>12 DEF CacheInv

\* bget() recycles a buffer: nobody had a pointer to it, and the disk has the
\* contents of the block that it held.
LEMMA MissStep ==
    ASSUME CacheAssumption, CacheInv, NEW p \in Proc, pc[p] = "get",
           NEW i \in Buf, Unused(i), \A j \in Buf : buf[j].block # blk[p],
           NEW r \in Buffer, r.block = blk[p], r.valid = FALSE, r.dirty = FALSE,
           r.refcnt = 1, r.locked = buf[i].locked, buf' = [buf EXCEPT ![i] = r],
           at' = [at EXCEPT ![p] = i], pc' = [pc EXCEPT ![p] = "lock"],
           UNCHANGED <<disk, mru, op, blk, committing, latest>>
    PROVE  CacheInv'
<1>1. /\ buf[i] \in Buffer /\ i # None /\ at[p] = None
      /\ blk[p] # None /\ blk[p] \in Block
  BY DEF CacheAssumption, CacheInv, TypeOK, Calls, Pointed, Locked
<1>2. /\ pc'[p] = "lock" /\ pc' \in [Proc -> Pointed \cup {"idle", "get", "panic"}]
      /\ \A q \in Proc \ {p} : pc'[q] = pc[q]
  BY DEF CacheInv, Calls, Pointed, Locked
<1>3. /\ at'[p] = i /\ \A q \in Proc \ {p} : at'[q] = at[q]
      /\ at' \in [Proc -> Buf \cup {None}]
  BY DEF CacheInv, TypeOK
<1>4. /\ Cardinality(Users(i)') = Cardinality(Users(i)) + 1
      /\ \A j \in Buf \ {i} : Users(j)' = Users(j)
  BY <1>1, UserMore DEF CacheInv, TypeOK
<1>5. /\ buf[i].refcnt = 0 /\ ~buf[i].dirty
      /\ \A q \in Proc : at[q] # i
      /\ Cardinality(Users(i)) = 0
  BY NoUsers DEF Unused, CacheInv, Owned
<1>8. /\ buf' \in [Buf -> Buffer] /\ buf'[i] = r
      /\ \A j \in Buf \ {i} : buf'[j] = buf[j]
  BY DEF CacheInv, TypeOK
<1>9. /\ buf'[i].refcnt = 1 /\ buf'[i].block = blk[p] /\ buf'[i].valid = FALSE
      /\ buf'[i].dirty = FALSE /\ buf'[i].locked = buf[i].locked
  BY <1>8
<1>10. \A q \in Proc \ {p} : pc[q] \in Pointed => at[q] \in Buf \ {i} /\ at'[q] = at[q]
  BY <1>3, <1>5, Pointing
<1>11. TypeOK'
  BY <1>3, <1>8 DEF CacheInv, TypeOK
<1>12. Owned'
  <2>1. \A j, k \in Buf : buf'[j].block = buf'[k].block /\ j # k => buf'[j].block = None
    <3> SUFFICES ASSUME NEW j \in Buf, NEW k \in Buf, j # k, buf'[j].block = buf'[k].block
                 PROVE  buf'[j].block = None
      OBVIOUS
    <3>1. j # i /\ k # i
      BY <1>8, <1>9
    <3> QED  BY <1>8, <3>1 DEF CacheInv, Owned
  <2>2. \A j \in Buf : buf'[j].refcnt = Cardinality(Users(j)')
    BY <1>4, <1>5, <1>8, <1>9 DEF CacheInv, Owned
  <2>3. ASSUME NEW q \in Proc, at'[q] # None PROVE buf'[at'[q]].block = blk'[q]
    <3>1. CASE q = p
      BY <1>3, <1>9, <3>1
    <3>2. CASE q # p
      <4>1. at'[q] = at[q] /\ at[q] \in Buf \ {i}
        BY <1>3, <1>5, <2>3, <3>2 DEF CacheInv, TypeOK
      <4> QED  BY <1>8, <2>3, <4>1 DEF CacheInv, Owned
    <3> QED  BY <3>1, <3>2
  <2> QED  BY <2>1, <2>2, <2>3 DEF Owned
<1>13. Calls'
  <2>1. \A q \in Proc : at'[q] # None <=> pc'[q] \in Pointed
    BY <1>1, <1>2, <1>3 DEF CacheInv, Calls, Pointed, Locked
  <2>2. \A q \in Proc : pc'[q] # "idle" => blk'[q] # None
    BY <1>1, <1>2 DEF CacheInv, Calls
  <2>3. \A q \in Proc, j \in Buf :
           buf'[j].locked = q <=> at'[q] = j /\ pc'[q] \in Locked
    <3> SUFFICES ASSUME NEW q \in Proc, NEW j \in Buf
                 PROVE  buf[j].locked = q <=> at'[q] = j /\ pc'[q] \in Locked
      BY <1>8, <1>9
    <3>1. buf[j].locked = q <=> at[q] = j /\ pc[q] \in Locked
      BY DEF CacheInv, Calls
    <3>2. CASE q = p
      BY <1>2, <3>1, <3>2 DEF Locked
    <3>3. CASE q # p
      BY <1>2, <1>3, <3>1, <3>3
    <3> QED  BY <3>2, <3>3
  <2> QED  BY <1>2, <2>1, <2>2, <2>3 DEF CacheInv, Calls
<1>14. Contents'
  <2>1. ASSUME NEW j \in Buf, Written(j) PROVE j # i /\ Written(j)'
    <3>1. j # i
      BY <1>5, <2>1 DEF Written
    <3>2. CASE buf[j].dirty
      BY <1>8, <3>1, <3>2 DEF Written
    <3>3. CASE \E q \in Proc : at[q] = j /\ pc[q] \in {"begin", "sync"}
      BY <1>2, <1>3, <3>1, <3>3 DEF Written
    <3> QED  BY <2>1, <3>1, <3>2, <3>3 DEF Written
  <2>3. \A j \in Buf : buf'[j].dirty => buf'[j].valid
    BY <1>8, <1>9 DEF CacheInv, Contents
  <2>4. \A j \in Buf : buf'[j].valid =>
          buf'[j].block # None /\ buf'[j].data = latest'[buf'[j].block]
    BY <1>8, <1>9 DEF CacheInv, Contents
  <2>5. ASSUME NEW q \in Proc, pc'[q] = "use", op'[q] # "page" PROVE buf'[at'[q]].valid
    <3>1. pc[q] = "use" /\ op[q] # "page" /\ at'[q] = at[q] /\ at[q] \in Buf \ {i}
      BY <1>2, <1>10, <2>5 DEF Pointed, Locked
    <3> QED  BY <1>8, <3>1 DEF CacheInv, Contents
  <2>6. ASSUME NEW q \in Proc, pc'[q] \in {"begin", "sync"}
        PROVE  buf'[at'[q]].data = latest'[blk'[q]]
    <3>1. pc[q] \in {"begin", "sync"} /\ at'[q] = at[q] /\ at[q] \in Buf \ {i}
      BY <1>2, <1>10, <2>6 DEF Pointed, Locked
    <3> QED  BY <1>8, <3>1 DEF CacheInv, Contents
  <2>7. \A c \in Block :
           disk'[c] = latest'[c] \/ \E j \in Buf : buf'[j].block = c /\ Written(j)'
    <3> SUFFICES ASSUME NEW c \in Block, disk[c] # latest[c]
                 PROVE  \E j \in Buf : buf'[j].block = c /\ Written(j)'
      OBVIOUS
    <3>1. PICK j \in Buf : buf[j].block = c /\ Written(j)
      BY DEF CacheInv, Contents
    <3> QED  BY <1>8, <2>1, <3>1
  <2> QED  BY <2>3, <2>4, <2>5, <2>6, <2>7 DEF Contents
<1> QED  BY <1>11, <1>12, <1>13, <1>14 DEF CacheInv

LEMMA GetStep ==
    ASSUME CacheAssumption, CacheInv, NEW p \in Proc, bget(p)
    PROVE  CacheInv'
<1> DEFINE hits == {i \in Buf : buf[i].block = blk[p]}
<1>1. pc[p] = "get" /\ UNCHANGED <<disk, mru, op, blk, committing, latest>>
  BY DEF bget
<1>2. CASE /\ \E i \in hits : /\ buf' = [buf EXCEPT ![i].refcnt = @ + 1]
                              /\ at' = [at EXCEPT ![p] = i]
           /\ goto(p, "lock")
  <2>1. PICK i \in hits : /\ buf' = [buf EXCEPT ![i].refcnt = @ + 1]
                          /\ at' = [at EXCEPT ![p] = i]
    BY <1>2
  <2>2. i \in Buf /\ buf[i].block = blk[p] /\ buf[i] \in Buffer
    BY DEF CacheInv, TypeOK
  <2>3. buf[i].refcnt + 1 \in Nat
    BY <2>2 DEF Buffer
  <2>4. [buf[i] EXCEPT !.refcnt = buf[i].refcnt + 1] \in Buffer
    BY <2>2, <2>3 DEF Buffer
  <2>5. buf' = [buf EXCEPT ![i] = [buf[i] EXCEPT !.refcnt = buf[i].refcnt + 1]]
    BY <2>1, <2>2 DEF CacheInv, TypeOK
  <2> QED  BY <1>1, <1>2, <2>1, <2>2, <2>4, <2>5, HitStep DEF goto
<1>3. CASE /\ hits = {}
           /\ \E i \in Recycled :
                 /\ buf' = [buf EXCEPT ![i].block = blk[p], ![i].valid = FALSE,
                                       ![i].dirty = FALSE, ![i].refcnt = 1]
                 /\ at' = [at EXCEPT ![p] = i]
           /\ goto(p, "lock")
  <2>1. PICK i \in Recycled :
           /\ buf' = [buf EXCEPT ![i].block = blk[p], ![i].valid = FALSE,
                                 ![i].dirty = FALSE, ![i].refcnt = 1]
           /\ at' = [at EXCEPT ![p] = i]
    BY <1>3
  <2>2. i \in Buf /\ Unused(i) /\ buf[i] \in Buffer
    BY DEF Recycled, CacheInv, TypeOK
  <2>3. \A j \in Buf : buf[j].block # blk[p]
    BY <1>3
  <2>4. blk[p] \in Block
    BY <1>1 DEF CacheInv, TypeOK, Calls
  <2>5. PICK r \in Buffer : r = [buf[i] EXCEPT !.block = blk[p], !.valid = FALSE,
                                               !.dirty = FALSE, !.refcnt = 1]
    BY <2>2, <2>4 DEF Buffer
  <2>6. /\ r.block = blk[p] /\ r.valid = FALSE /\ r.dirty = FALSE
        /\ r.refcnt = 1 /\ r.locked = buf[i].locked
    BY <2>2, <2>5 DEF Buffer
  <2>7. buf' = [buf EXCEPT ![i] = r]
    BY <2>1, <2>2, <2>5 DEF CacheInv, TypeOK
  <2> QED  BY <1>1, <1>3, <2>1, <2>2, <2>3, <2>6, <2>7, MissStep DEF goto
<1>4. CASE goto(p, "panic") /\ UNCHANGED <<buf, at>>
  <2>1. /\ pc'[p] = "panic" /\ pc' \in [Proc -> Pointed \cup {"idle", "get", "panic"}]
        /\ \A q \in Proc \ {p} : pc'[q] = pc[q]
    BY <1>4 DEF goto, CacheInv, Calls
  <2>2. TypeOK'
    BY <1>1, <1>4 DEF CacheInv, TypeOK
  <2>3. Owned'
    BY <1>1, <1>4, OwnedKept
  <2>4. Calls'
    BY <1>1, <1>4, <2>1 DEF CacheInv, Calls, Pointed, Locked
  <2>5. Contents'
    BY <1>1, <1>4, <2>1, ContentsKept DEF CacheInv, Contents, Pointed, Locked
  <2> QED  BY <2>2, <2>3, <2>4, <2>5 DEF CacheInv
<1> QED  BY <1>2, <1>3, <1>4 DEF bget

-----------------------------------------------------------------------------
LEMMA CacheStep == CacheAssumption /\ CacheInv /\ [Next]_vars => CacheInv'
<1> SUFFICES ASSUME CacheAssumption, CacheInv, [Next]_vars PROVE CacheInv'
  OBVIOUS
<1>1. ASSUME NEW p \in Proc, NEW k \in Kinds, NEW b \in Block, Start(p, k, b)
      PROVE  CacheInv'
  BY <1>1, StartStep
<1>2. ASSUME NEW p \in Proc,
             \/ Commit(p) \/ bget(p) \/ acquiresleep(p) \/ bread(p) \/ use(p)
             \/ begin_op(p) \/ bwrite(p) \/ releasesleep(p) \/ brelse(p)
      PROVE  CacheInv'
  BY <1>2, CommitStep, GetStep, AcquireStep, ReadStep, UseStep, BeginStep, WriteStep,
     ReleaseStep, DropStep
<1>3. CASE UNCHANGED vars
  BY <1>3
  DEF vars, CacheInv, TypeOK, Owned, Users, Calls, Contents, Written
<1> QED  BY <1>1, <1>2, <1>3 DEF Next

\* bio.c, sleeplock.c: buffers and blocks go together one to one, references
\* are counted, a buffer's lock is its holder's, and a block's last contents are
\* in its buffer until they are on the disk.
THEOREM Invariant ==
    ASSUME CacheAssumption
    PROVE  Spec => []CacheInv
<1>1. Init => CacheInv
  BY Initially
<1>2. CacheInv /\ [Next]_vars => CacheInv'
  BY CacheStep
<1> QED  BY <1>1, <1>2, PTL DEF Spec

\* bio.c:3-6 "a synchronization point for disk blocks": who has a block locked
\* sees what was last written to it, recycled, pinned or not.
THEOREM CoherentTheorem ==
    ASSUME CacheAssumption
    PROVE  Spec => []CacheCoherent
<1>1. CacheInv => CacheCoherent
  <2> SUFFICES ASSUME CacheInv, NEW p \in Proc, pc[p] = "use", op[p] # "page"
               PROVE  buf[at[p]].data = latest[blk[p]]
    BY DEF CacheInv, CacheCoherent
  <2>1. at[p] \in Buf /\ buf[at[p]].block = blk[p] /\ buf[at[p]].valid
    BY Pointing DEF CacheInv, Contents, Pointed, Locked
  <2> QED  BY <2>1 DEF CacheInv, Contents
<1> QED  BY <1>1, Invariant, PTL
==============================================================================
