-------------------------- MODULE FileSystemProofs --------------------------
(***************************************************************************)
(* What is proved of the file system of Part_B (fs.c, file.c, sysfile.c):  *)
(* the steps that change the open files, the descriptors, the working      *)
(* directories or the transactions in progress, the calls, and the         *)
(* theorems.  The invariant and the other steps are in FileSystemSteps.    *)
(***************************************************************************)
EXTENDS FileSystemSteps

-----------------------------------------------------------------------------
(* Steps that change the open files, the descriptors, the working          *)
(* directories or the transactions in progress.                            *)

\* Two assignments that differ in one place, or in two.
Differ1(D, F, G, a) == IsFiniteSet(D) /\ a \in D /\ \A x \in D \ {a} : F[x] = G[x]
Differ2(D, F, G, a, b) ==
    IsFiniteSet(D) /\ a \in D /\ b \in D /\ a # b /\ \A x \in D \ {a, b} : F[x] = G[x]

LEMMA Exchanged1 ==
    ASSUME NEW D, NEW F, NEW G, NEW a, Differ1(D, F, G, a), NEW v
    PROVE  /\ CountIn(D, F, v) \in Nat /\ CountIn(D, G, v) \in Nat
           /\ CountIn(D, G, v) + Is(F[a], v) = CountIn(D, F, v) + Is(G[a], v)
<1>0. IsFiniteSet(D) /\ a \in D /\ \A x \in D \ {a} : F[x] = G[x] BY DEF Differ1
<1>1. {x \in D \ {a} : F[x] = v} = {x \in D \ {a} : G[x] = v} BY <1>0
<1>2. PICK e : e = Cardinality({x \in D \ {a} : F[x] = v}) OBVIOUS
<1>3. CountIn(D, F, v) = e + Is(F[a], v) BY <1>0, <1>2, CountOne DEF CountIn
<1>4. CountIn(D, G, v) = e + Is(G[a], v) BY <1>0, <1>1, <1>2, CountOne DEF CountIn
<1>5. e \in Nat
  <2>1. IsFiniteSet({x \in D \ {a} : F[x] = v}) BY <1>0, FS_RemoveElement, FS_Subset
  <2>. QED BY <1>2, <2>1, FS_CardinalityType
<1>6. Is(F[a], v) \in Nat /\ Is(G[a], v) \in Nat BY DEF Is
<1>. QED BY <1>3, <1>4, <1>5, <1>6

LEMMA Exchanged2 ==
    ASSUME NEW D, NEW F, NEW G, NEW a, NEW b, Differ2(D, F, G, a, b), NEW v
    PROVE  /\ CountIn(D, F, v) \in Nat /\ CountIn(D, G, v) \in Nat
           /\ CountIn(D, G, v) + Is(F[a], v) + Is(F[b], v) = CountIn(D, F, v) + Is(G[a], v) + Is(G[b], v)
<1>0. IsFiniteSet(D) /\ a \in D /\ b \in D /\ a # b /\ \A x \in D \ {a, b} : F[x] = G[x]
  BY DEF Differ2
<1>1. PICK E : E = D \ {a} OBVIOUS
<1>2. Differ1(E, F, G, b)
  <2>1. IsFiniteSet(E) BY <1>0, <1>1, FS_RemoveElement
  <2>. QED BY <2>1, <1>0, <1>1 DEF Differ1
<1>3. /\ CountIn(E, F, v) \in Nat /\ CountIn(E, G, v) \in Nat
      /\ CountIn(E, G, v) + Is(F[b], v) = CountIn(E, F, v) + Is(G[b], v)
  BY <1>2, Exchanged1
<1>4. CountIn(D, F, v) = CountIn(E, F, v) + Is(F[a], v) BY <1>0, <1>1, CountOne DEF CountIn
<1>5. CountIn(D, G, v) = CountIn(E, G, v) + Is(G[a], v) BY <1>0, <1>1, CountOne DEF CountIn
<1>6. Is(F[a], v) \in Nat /\ Is(G[a], v) \in Nat /\ Is(F[b], v) \in Nat /\ Is(G[b], v) \in Nat BY DEF Is
<1>. QED BY <1>3, <1>4, <1>5, <1>6

\* The same but for what file f refers to.
FileBalanced(p, s, g, t, h, f) ==
    /\ Only(p) /\ \A q \in Proc \ {p} : cwd'[q] = cwd[q]
    /\ f \in File /\ \A e \in File \ {f} : file'[e].ip = file[e].ip
    /\ s = k[p] /\ g = r[p] /\ t = k'[p] /\ h = r'[p] /\ ref' \in [Inum -> Nat]
    /\ \A i \in Inum : ref'[i] + Total(s, g, cwd[p], i) + Is(file[f].ip, i)
                         = ref[i] + Total(t, h, cwd'[p], i) + Is(file'[f].ip, i)

LEMMA FileBalancedRefs ==
    ASSUME TypeOK, Counts, NEW p \in Proc, NEW s, NEW g, NEW t, NEW h, NEW f,
           FileBalanced(p, s, g, t, h, f)
    PROVE  Referring
<1>0. /\ Only(p) /\ \A q \in Proc \ {p} : cwd'[q] = cwd[q]
      /\ f \in File /\ \A e \in File \ {f} : file'[e].ip = file[e].ip
      /\ s = k[p] /\ g = r[p] /\ t = k'[p] /\ h = r'[p] /\ ref' \in [Inum -> Nat]
      /\ \A i \in Inum : ref'[i] + Total(s, g, cwd[p], i) + Is(file[f].ip, i)
                           = ref[i] + Total(t, h, cwd'[p], i) + Is(file'[f].ip, i)
  BY DEF FileBalanced
<1>1. PICK D, F, G : D = DOMAIN Owned /\ F = Owned /\ G = Owned' OBVIOUS
<1>2. DOMAIN Owned' = D BY <1>1 DEF Owned
<1>3. IsFiniteSet(D) BY <1>1, OwnersFinite
<1>4. Row(p) \subseteq D BY <1>1 DEF Row, Owned
<1>5. PICK a : a = <<0, f>> OBVIOUS
<1>10. a \in D \ Row(p) /\ F[a] = file[f].ip /\ G[a] = file'[f].ip
  BY <1>0, <1>1, <1>5, Constants DEF Owned, Row
<1>6. ASSUME NEW x \in (D \ Row(p)) \ {a} PROVE F[x] = G[x]
  <2>1. CASE x[1] = 0
    <3>1. x[2] \in File /\ x = <<x[1], x[2]>> BY <1>1, <2>1, Constants DEF Owned
    <3>2. x[2] # f BY <1>5, <1>6, <2>1, <3>1
    <3>. QED BY <1>0, <1>1, <2>1, <3>1, <3>2 DEF Owned
  <2>2. CASE x[1] # 0
    <3>1. x[1] \in Proc /\ x[2] \in 1 .. 10 /\ x = <<x[1], x[2]>> BY <1>1, <2>2 DEF Owned
    <3>2. x[1] # p BY <1>6, <3>1 DEF Row
    <3>3. F[x] = OwnOf(k[x[1]], r[x[1]], cwd[x[1]])[x[2]] BY <1>1, <2>2 DEF Owned
    <3>4. G[x] = OwnOf(k'[x[1]], r'[x[1]], cwd'[x[1]])[x[2]] BY <1>1, <2>2 DEF Owned
    <3>. QED BY <1>0, <3>1, <3>2, <3>3, <3>4 DEF Only
  <2>. QED BY <2>1, <2>2
<1>7. ASSUME NEW i \in Inum PROVE ref'[i] = Count(Owned, i)'
  <2>1. PICK E : E = D \ Row(p) OBVIOUS
  <2>2. IsFiniteSet(E) /\ a \in E /\ \A x \in E \ {a} : F[x] = G[x]
    BY <1>3, <1>4, <1>6, <1>10, <2>1, RowOut
  <2>3. ASSUME NEW n \in 1 .. 10
        PROVE  /\ F[<<p, n>>] = OwnOf(s, g, cwd[p])[n]
               /\ G[<<p, n>>] = OwnOf(t, h, cwd'[p])[n]
    <3>1. p # 0 BY Constants
    <3>. QED BY <3>1, <1>0, <1>1 DEF Owned
  <2>4. CountIn(D, F, i) = CountIn(E, F, i) + Total(s, g, cwd[p], i)
    <3>1. /\ F[<<p, 1>>] = OpOwn(s, 1) /\ F[<<p, 2>>] = OpOwn(s, 2) /\ F[<<p, 3>>] = OpOwn(s, 3)
          /\ F[<<p, 4>>] = OpOwn(s, 4) /\ F[<<p, 5>>] = OpOwn(s, 5) /\ F[<<p, 6>>] = OpOwn(s, 6)
          /\ F[<<p, 7>>] = IpOwn(s, g) /\ F[<<p, 8>>] = OldOwn(s, g)
          /\ F[<<p, 9>>] = DpOwn(s, g) /\ F[<<p, 10>>] = CwdOwn(s, cwd[p])
      BY <2>3, Slots
    <3>2. CountIn(D, F, i) = CountIn(E, F, i) + RowSum(F, p, i) BY <1>3, <1>4, <2>1, RowOut
    <3>3. RowSum(F, p, i) = Total(s, g, cwd[p], i) BY <3>1 DEF RowSum, Total
    <3>. QED BY <3>2, <3>3
  <2>5. CountIn(D, G, i) = CountIn(E, G, i) + Total(t, h, cwd'[p], i)
    <3>1. /\ G[<<p, 1>>] = OpOwn(t, 1) /\ G[<<p, 2>>] = OpOwn(t, 2) /\ G[<<p, 3>>] = OpOwn(t, 3)
          /\ G[<<p, 4>>] = OpOwn(t, 4) /\ G[<<p, 5>>] = OpOwn(t, 5) /\ G[<<p, 6>>] = OpOwn(t, 6)
          /\ G[<<p, 7>>] = IpOwn(t, h) /\ G[<<p, 8>>] = OldOwn(t, h)
          /\ G[<<p, 9>>] = DpOwn(t, h) /\ G[<<p, 10>>] = CwdOwn(t, cwd'[p])
      BY <2>3, Slots
    <3>2. CountIn(D, G, i) = CountIn(E, G, i) + RowSum(G, p, i) BY <1>3, <1>4, <2>1, RowOut
    <3>3. RowSum(G, p, i) = Total(t, h, cwd'[p], i) BY <3>1 DEF RowSum, Total
    <3>. QED BY <3>2, <3>3
  <2>6. /\ CountIn(E, F, i) \in Nat /\ CountIn(E, G, i) \in Nat
        /\ CountIn(E, G, i) + Is(file[f].ip, i) = CountIn(E, F, i) + Is(file'[f].ip, i)
    <3>1. Differ1(E, F, G, a) BY <2>2 DEF Differ1
    <3>. QED BY <3>1, <1>10, Exchanged1
  <2>7. ref[i] = CountIn(D, F, i) BY <1>1 DEF Counts, Count, CountIn
  <2>8. Count(Owned, i)' = CountIn(D, G, i) BY <1>1, <1>2 DEF Count, CountIn
  <2>9. Total(s, g, cwd[p], i) \in Nat /\ Total(t, h, cwd'[p], i) \in Nat BY TotalType
  <2>10. Is(file[f].ip, i) \in Nat /\ Is(file'[f].ip, i) \in Nat BY DEF Is
  <2>11. /\ ref'[i] \in Nat
         /\ ref'[i] + Total(s, g, cwd[p], i) + Is(file[f].ip, i)
              = ref[i] + Total(t, h, cwd'[p], i) + Is(file'[f].ip, i)
    BY <1>0
  <2>12. PICK u, v, x, y, m, n, w, z :
            /\ u = CountIn(E, F, i) /\ v = CountIn(E, G, i) /\ x = Is(file[f].ip, i)
            /\ y = Is(file'[f].ip, i) /\ m = Total(s, g, cwd[p], i) /\ n = Total(t, h, cwd'[p], i)
            /\ w = ref[i] /\ z = ref'[i]
    OBVIOUS
  <2>13. /\ u \in Nat /\ v \in Nat /\ x \in Nat /\ y \in Nat /\ m \in Nat /\ n \in Nat /\ z \in Nat
    BY <2>6, <2>9, <2>10, <2>11, <2>12
  <2>14. v + x = u + y BY <2>6, <2>12
  <2>15. w = u + m BY <2>4, <2>7, <2>12
  <2>16. z + m + x = w + n + y BY <2>11, <2>12
  <2>17. z = v + n BY <2>13, <2>14, <2>15, <2>16
  <2>. QED BY <2>5, <2>8, <2>12, <2>17
<1>. QED BY <1>0, <1>7 DEF Referring

\* Transactions: begin_op() and end_op().
Transacting == outstanding' = Cardinality({q \in Proc : InTransaction(k'[q])})

LEMMA Stays ==
    ASSUME FsInv, NEW p \in Proc, Only(p), InTransaction(k[p]) <=> InTransaction(k'[p]),
           UNCHANGED outstanding
    PROVE  Transacting
BY SameTransactions, Parts DEF Transacting, Counts

LEMMA Begins ==
    ASSUME FsInv, NEW p \in Proc, Only(p), ~InTransaction(k[p]), InTransaction(k'[p]),
           outstanding' = outstanding + 1
    PROVE  Transacting
<1>1. PICK A : A = {q \in Proc : InTransaction(k[q])} OBVIOUS
<1>2. {q \in Proc : InTransaction(k'[q])} = A \cup {p} BY <1>1 DEF Only
<1>3. IsFiniteSet(A) /\ p \notin A BY <1>1, Constants, FS_Subset
<1>4. Cardinality(A \cup {p}) = Cardinality(A) + 1 BY <1>3, FS_AddElement
<1>. QED BY <1>1, <1>2, <1>4, Parts DEF Transacting, Counts

LEMMA Ends ==
    ASSUME FsInv, NEW p \in Proc, Only(p), InTransaction(k[p]), ~InTransaction(k'[p]),
           outstanding' = outstanding - 1
    PROVE  Transacting
<1>1. PICK A : A = {q \in Proc : InTransaction(k[q])} OBVIOUS
<1>2. {q \in Proc : InTransaction(k'[q])} = A \ {p} BY <1>1 DEF Only
<1>3. IsFiniteSet(A) /\ p \in A BY <1>1, Constants, FS_Subset
<1>4. Cardinality(A \ {p}) = Cardinality(A) - 1 BY <1>3, FS_RemoveElement
<1>. QED BY <1>1, <1>2, <1>4, Parts DEF Transacting, Counts

LEMMA FewTransactions ==
    ASSUME Transacting
    PROVE  outstanding' \in 0 .. NPROC
<1>1. PICK A : A = {q \in Proc : InTransaction(k'[q])} OBVIOUS
<1>2. IsFiniteSet(Proc) /\ A \subseteq Proc BY <1>1, Constants
<1>3. Cardinality(A) \in Nat /\ Cardinality(A) <= Cardinality(Proc)
  BY <1>2, FS_Subset, FS_CardinalityType
<1>4. Cardinality(Proc) = NPROC
  <2>1. NPROC \in Nat BY Constants
  <2>2. Cardinality(1 .. NPROC) = NPROC BY <2>1, FS_Interval
  <2>. QED BY <2>2 DEF Proc
<1>5. NPROC \in Nat BY Constants
<1>. QED BY <1>1, <1>3, <1>4, <1>5 DEF Transacting

\* Descriptors: who has a file, and how many have it.
LEMMA DescriptorPlaces ==
    /\ IsFiniteSet(Proc \X (0 .. NOFILE)) /\ DOMAIN Descriptors = Proc \X (0 .. NOFILE)
    /\ \A q \in Proc : \A fd \in Fd : /\ <<q, fd>> \in Proc \X (0 .. NOFILE)
                                      /\ Descriptors[<<q, fd>>] = ofile[q][fd]
    /\ \A q \in Proc : /\ <<q, NOFILE>> \in Proc \X (0 .. NOFILE)
                       /\ Descriptors[<<q, NOFILE>>] = Closing(k[q])
    /\ NOFILE \notin Fd
<1>1. NOFILE \in Nat BY Constants
<1>2. IsFiniteSet(0 .. NOFILE) BY <1>1, FS_Interval
<1>3. IsFiniteSet(Proc) BY Constants
<1>4. IsFiniteSet(Proc \X (0 .. NOFILE)) BY <1>2, <1>3, FS_Product
<1>5. \A fd \in Fd : fd \in 0 .. NOFILE /\ fd < NOFILE BY <1>1 DEF Fd
<1>6. NOFILE \in 0 .. NOFILE /\ ~(NOFILE < NOFILE) /\ NOFILE \notin Fd BY <1>1 DEF Fd
<1>. QED BY <1>4, <1>5, <1>6 DEF Descriptors

\* Where file f is open it has references; where it has one, it is open once.
LEMMA OpenOnce ==
    ASSUME Counts, NEW f \in File, NEW x \in Proc \X (0 .. NOFILE), Descriptors[x] = f
    PROVE  /\ file[f].ref \in Nat /\ file[f].ref > 0
           /\ \A y \in Proc \X (0 .. NOFILE) : file[f].ref = 1 /\ Descriptors[y] = f => y = x
<1>1. PICK D, F : D = Proc \X (0 .. NOFILE) /\ F = Descriptors OBVIOUS
<1>2. IsFiniteSet(D) /\ DOMAIN Descriptors = D BY <1>1, DescriptorPlaces
<1>3. PICK S : S = {z \in D : F[z] = f} OBVIOUS
<1>4. file[f].ref = Cardinality(S) BY <1>1, <1>2, <1>3 DEF Counts, Count
<1>5. IsFiniteSet(S) /\ x \in S BY <1>1, <1>2, <1>3, FS_Subset
<1>6. Cardinality(S) \in Nat /\ Cardinality(S) # 0 BY <1>5, FS_CardinalityType, FS_EmptySet
<1>7. ASSUME NEW y \in Proc \X (0 .. NOFILE), file[f].ref = 1, Descriptors[y] = f PROVE y = x
  <2>1. PICK w : S = {w} BY <1>4, <1>5, <1>7, FS_Singleton
  <2>2. y \in S BY <1>1, <1>3, <1>7
  <2>. QED BY <1>5, <2>1, <2>2
<1>. QED BY <1>4, <1>6, <1>7

\* The counts of the open files are those of the descriptors, as they change.
Describing ==
    /\ file' \in [File -> [ref : Nat, ip : Inum \cup {None}, off : 0 .. MAXFILE, writable : BOOLEAN]]
    /\ \A f \in File : file'[f].ref = Count(Descriptors, f)'
    /\ \A f \in File : IF file'[f].ref = 0 THEN file'[f] = NoFile ELSE file'[f].ip # None

\* None of them changes.
LEMMA NoneOpened ==
    ASSUME FsInv, NEW p \in Proc, Only(p), UNCHANGED <<file, ofile>>, Closing(k'[p]) = Closing(k[p])
    PROVE  Describing
<1>1. Descriptors' = Descriptors BY SameDescriptors
<1>2. \A f \in File : Count(Descriptors, f)' = Count(Descriptors, f) BY <1>1 DEF Count
<1>. QED BY <1>2, Parts DEF Describing, Counts, TypeOK

\* One slot of p, n, changes, or two.
OneSlot(p, n) ==
    \A x \in Proc \X (0 .. NOFILE) : x # <<p, n>> => Descriptors'[x] = Descriptors[x]
TwoSlots(p, n, m) ==
    \A x \in Proc \X (0 .. NOFILE) : x \notin {<<p, n>>, <<p, m>>} => Descriptors'[x] = Descriptors[x]

LEMMA OneOpened ==
    ASSUME FsInv, NEW p \in Proc, NEW n \in 0 .. NOFILE, OneSlot(p, n), NEW f \in File
    PROVE  /\ file[f].ref \in Nat /\ Count(Descriptors, f)' \in Nat
           /\ Count(Descriptors, f)' + Is(Descriptors[<<p, n>>], f)
                = file[f].ref + Is(Descriptors'[<<p, n>>], f)
<1>1. PICK D, F, G : D = Proc \X (0 .. NOFILE) /\ F = Descriptors /\ G = Descriptors' OBVIOUS
<1>2. IsFiniteSet(D) /\ DOMAIN Descriptors = D BY <1>1, DescriptorPlaces
<1>3. DOMAIN Descriptors' = D BY <1>1 DEF Descriptors
<1>4. file[f].ref = CountIn(D, F, f) BY <1>1, <1>2, Parts DEF Counts, Count, CountIn
<1>5. Count(Descriptors, f)' = CountIn(D, G, f) BY <1>1, <1>3 DEF Count, CountIn
<1>6. PICK a : a = <<p, n>> OBVIOUS
<1>7. Differ1(D, F, G, a) BY <1>1, <1>2, <1>6 DEF OneSlot, Differ1
<1>8. /\ CountIn(D, F, f) \in Nat /\ CountIn(D, G, f) \in Nat
      /\ CountIn(D, G, f) + Is(F[a], f) = CountIn(D, F, f) + Is(G[a], f)
  BY <1>7, Exchanged1
<1>. QED BY <1>1, <1>4, <1>5, <1>6, <1>8

LEMMA TwoOpened ==
    ASSUME FsInv, NEW p \in Proc, NEW n \in 0 .. NOFILE, NEW m \in 0 .. NOFILE, n # m,
           TwoSlots(p, n, m), NEW f \in File
    PROVE  /\ file[f].ref \in Nat /\ Count(Descriptors, f)' \in Nat
           /\ Count(Descriptors, f)' + Is(Descriptors[<<p, n>>], f) + Is(Descriptors[<<p, m>>], f)
                = file[f].ref + Is(Descriptors'[<<p, n>>], f) + Is(Descriptors'[<<p, m>>], f)
<1>1. PICK D, F, G : D = Proc \X (0 .. NOFILE) /\ F = Descriptors /\ G = Descriptors' OBVIOUS
<1>2. IsFiniteSet(D) /\ DOMAIN Descriptors = D BY <1>1, DescriptorPlaces
<1>3. DOMAIN Descriptors' = D BY <1>1 DEF Descriptors
<1>4. file[f].ref = CountIn(D, F, f) BY <1>1, <1>2, Parts DEF Counts, Count, CountIn
<1>5. Count(Descriptors, f)' = CountIn(D, G, f) BY <1>1, <1>3 DEF Count, CountIn
<1>6. PICK a, b : a = <<p, n>> /\ b = <<p, m>> OBVIOUS
<1>7. Differ2(D, F, G, a, b) BY <1>1, <1>2, <1>6 DEF TwoSlots, Differ2
<1>8. /\ CountIn(D, F, f) \in Nat /\ CountIn(D, G, f) \in Nat
      /\ CountIn(D, G, f) + Is(F[a], f) + Is(F[b], f) = CountIn(D, F, f) + Is(G[a], f) + Is(G[b], f)
  BY <1>7, Exchanged2
<1>. QED BY <1>1, <1>4, <1>5, <1>6, <1>8

\* What p has after the step is its own affair; the others have what they had.
Others(p) ==
    /\ Only(p) /\ \A q \in Proc \ {p} : cwd'[q] = cwd[q] /\ ofile'[q] = ofile[q]
    /\ \A q \in Proc \ {p} : Busy(k[q]) =>
          /\ file'[r[q].file].ip = file[r[q].file].ip
          /\ file'[r[q].file].writable = file[r[q].file].writable
    /\ cwd' \in [Proc -> Inum \cup {None}] /\ ofile' \in [Proc -> [Fd -> File \cup {None}]]

LocalOf(p, s, g) ==
    /\ s = k[p] /\ g = r[p] /\ StackOK(s) /\ RegsOK(s, g)
    /\ cwd[p] = None => s = <<>>
    /\ Deep(s, 1).op = "fileclose" => g = NoRegs
    /\ cwd[p] = None \/ Closed(s, g) => \A fd \in Fd : ofile[p][fd] = None
    /\ Busy(s) => FileOK(s, g.file, ofile[p])

LEMMA LocalOut ==
    ASSUME Local, NEW p \in Proc, Others(p), NEW t, NEW h, LocalOf(p, t, h)'
    PROVE  Local'
<1>0. DOMAIN k' = Proc /\ DOMAIN r' = Proc BY DEF Others, Only
<1>1. ASSUME NEW q \in Proc
      PROVE  /\ StackOK(k'[q]) /\ RegsOK(k'[q], r'[q])
             /\ cwd'[q] = None => k'[q] = <<>>
             /\ Deep(k'[q], 1).op = "fileclose" => r'[q] = NoRegs
             /\ cwd'[q] = None \/ Closed(k'[q], r'[q]) => \A fd \in Fd : ofile'[q][fd] = None
             /\ Busy(k'[q]) => FileOK(k[q], r[q].file, ofile[q])'
  <2>1. CASE q = p BY <2>1 DEF LocalOf
  <2>2. CASE q # p
    <3>1. k'[q] = k[q] /\ r'[q] = r[q] /\ cwd'[q] = cwd[q] /\ ofile'[q] = ofile[q]
      BY <2>2 DEF Others, Only
    <3>2. Busy(k[q]) => FileOK(k[q], r[q].file, ofile[q])'
      <4>1. Busy(k[q]) => FileOK(k[q], r[q].file, ofile[q]) BY DEF Local
      <4>. QED BY <2>2, <3>1, <4>1 DEF FileOK, Others
    <3>. QED BY <3>1, <3>2 DEF Local
  <2>. QED BY <2>1, <2>2
<1>. QED BY <1>0, <1>1 DEF Local

\* The disk changes at most in links and in the blocks of files; what an open
\* file newly refers to is in use.
Filing(p) ==
    /\ d' \in Disks
    /\ \A i \in Inum : /\ d'.ino[i].type = d.ino[i].type
                       /\ Type(i) = "dir" => d'.ino[i].addrs = d.ino[i].addrs
                       /\ Type(i) = "none" => d'.ino[i] = d.ino[i] /\ d'.ent[i] = d.ent[i]
    /\ \A i \in Inum : valid'[i] => Type(i) # "none"
    /\ valid' \in [Inum -> BOOLEAN]
    /\ \A f \in File :
          \/ file'[f].ip = None
          \/ file'[f].ip = file[f].ip /\ (file'[f].writable => file[f].writable)
          \/ /\ Type(file'[f].ip) # "none" /\ (file'[f].writable => Type(file'[f].ip) # "dir")
             /\ lock[file'[f].ip] = p

\* The roles of p after the step.
RolesOf(p, t, h, c) ==
    /\ t = k'[p] /\ h = r'[p] /\ c = cwd'[p] /\ Known(t, h, c)
    /\ Dying(k[p]) = None /\ Dying(t) = None /\ Fresh(t, h) = None
    /\ \A i \in Inum : i \in {CwdOwn(t, c), NextCwd(t, h)} =>
          \E q \in Proc : i \in {CwdOwn(k[q], cwd[q]), NextCwd(k[q], r[q])}

LEMMA InUseOut ==
    ASSUME FsInv, NEW p \in Proc, Others(p), Filing(p), NEW t, NEW h, NEW c, RolesOf(p, t, h, c),
           LocalOf(p, t, h)', Describing
    PROVE  InUse'
<1>0. TypeOK /\ InUse /\ Locks BY Parts
<1>1. \A i \in Inum : Type(i)' = Type(i) BY DEF Filing, Type
<1>2. ASSUME NEW q \in Proc \ {p}
      PROVE  /\ k'[q] = k[q] /\ r'[q] = r[q] /\ cwd'[q] = cwd[q]
             /\ StackOK(k[q]) /\ r[q] \in Regs /\ cwd[q] \in Inum \cup {None}
             /\ Known(k[q], r[q], cwd[q])
             /\ CwdOwn(k[q], cwd[q]) \in Inum \cup {None} /\ NextCwd(k[q], r[q]) \in Inum \cup {None}
             /\ Fresh(k[q], r[q]) \in Inum \cup {None} /\ Main(k[q], r[q]) \in Inum \cup {None}
             /\ Dying(k[q]) \in Inum \cup {None} /\ r[q].ip \in Inum \cup {None}
  <2>1. StackOK(k[q]) /\ r[q] \in Regs /\ cwd[q] \in Inum \cup {None} /\ Known(k[q], r[q], cwd[q]) BY Here
  <2>2. r[q].ip \in Inum \cup {None} BY <2>1 DEF Regs
  <2>. QED BY <2>1, <2>2, RolesTyped DEF Others, Only
<1>3. ASSUME NEW q \in Proc \ {p} PROVE Known(k[q], r[q], cwd[q])'
  <2>1. Fresh(k[q], r[q]) # None /\ IsDir(Fresh(k[q], r[q])) =>
           d'.ino[Fresh(k[q], r[q])].addrs = d.ino[Fresh(k[q], r[q])].addrs
    BY <1>2 DEF Filing, IsDir, Type
  <2>. QED BY <1>1, <1>2, <2>1 DEF Known, Type, IsDir
<1>a. /\ t = k'[p] /\ h = r'[p] /\ c = cwd'[p] /\ Known(t, h, c)
      /\ Dying(k[p]) = None /\ Dying(t) = None /\ Fresh(t, h) = None
      /\ StackOK(t) /\ h \in Regs /\ c \in Inum \cup {None}
  BY DEF RolesOf, LocalOf, RegsOK, Others
<1>b. /\ CwdOwn(t, c) \in Inum \cup {None} /\ NextCwd(t, h) \in Inum \cup {None}
      /\ Main(t, h) \in Inum \cup {None} /\ h.ip \in Inum \cup {None}
  <2>1. h.ip \in Inum \cup {None} BY <1>a DEF Regs
  <2>. QED BY <1>a, <2>1, RolesTyped
<1>4. Known(k[p], r[p], cwd[p])'
  <2>1. Known(t, h, c)' BY <1>1, <1>a, <1>b DEF Known, Type, IsDir
  <2>. QED BY <1>a, <2>1
<1>5. \A i \in Inum : valid'[i] => Type(i)' # "none" BY <1>1 DEF Filing
<1>6. \A i \in Inum : Type(i)' = "none" => d'.ino[i] = FreeInode /\ d'.ent[i] = NoEntries
  BY <1>0, <1>1 DEF Filing, InUse
<1>7. ASSUME NEW f \in File, file'[f].ip # None
      PROVE  /\ file'[f].ip \in Inum
             /\ Type(file'[f].ip) # "none" /\ (file'[f].writable => Type(file'[f].ip) # "dir")
  <2>1. file'[f].ip \in Inum BY <1>7 DEF Describing
  <2>2. CASE file'[f].ip = file[f].ip /\ (file'[f].writable => file[f].writable)
    BY <1>0, <1>7, <2>1, <2>2 DEF InUse
  <2>. QED BY <1>7, <2>1, <2>2 DEF Filing
<1>8. ASSUME NEW f \in File, file'[f].ip # None
      PROVE  d'.ino[file'[f].ip].type # "none" /\ (file'[f].writable => d'.ino[file'[f].ip].type # "dir")
  <2>1. PICK i : i = file'[f].ip OBVIOUS
  <2>2. i \in Inum /\ Type(i) # "none" /\ (file'[f].writable => Type(i) # "dir") BY <1>7, <1>8, <2>1
  <2>3. d'.ino[i].type = d.ino[i].type BY <2>2 DEF Filing
  <2>. QED BY <2>1, <2>2, <2>3 DEF Type
<1>9. \A q \in Proc : Known(k[q], r[q], cwd[q])' BY <1>3, <1>4
<1>10. ASSUME NEW q1 \in Proc, NEW q2 \in Proc, q1 # q2, Fresh(k'[q1], r'[q1]) # None
       PROVE  Fresh(k'[q1], r'[q1]) # Fresh(k'[q2], r'[q2])
  <2>1. q1 # p BY <1>10, <1>a
  <2>2. CASE q2 = p BY <1>10, <1>a, <2>2
  <2>3. CASE q2 # p BY <1>0, <1>2, <1>10, <2>1, <2>3 DEF InUse
  <2>. QED BY <2>2, <2>3
<1>11. ASSUME NEW q \in Proc, Dying(k'[q]) # None PROVE Forgotten(Dying(k[q]))'
  <2>1. q # p BY <1>11, <1>a
  <2>2. k'[q] = k[q] /\ Dying(k[q]) \in Inum /\ Forgotten(Dying(k[q]))
    BY <1>0, <1>2, <1>11, <2>1 DEF InUse
  <2>3. PICK i : i = Dying(k[q]) OBVIOUS
  <2>4. lock[i] = q /\ i \in Inum /\ Type(i) # "none" BY <1>0, <2>2, <2>3 DEF Locks, Forgotten
  <2>5. ASSUME NEW f \in File PROVE file'[f].ip # i
    <3>1. i # None BY <2>4, Constants
    <3>2. file[f].ip # i BY <2>2, <2>3 DEF Forgotten
    <3>. QED BY <2>1, <2>4, <3>1, <3>2 DEF Filing
  <2>6. ASSUME NEW q2 \in Proc
        PROVE  i \notin {CwdOwn(k'[q2], cwd'[q2]), NextCwd(k'[q2], r'[q2]), Fresh(k'[q2], r'[q2])}
    <3>1. CASE q2 = p
      <4>1. i \notin {CwdOwn(t, c), NextCwd(t, h)} BY <2>2, <2>3, <2>4 DEF RolesOf, Forgotten
      <4>2. i # None BY <2>4, Constants
      <4>. QED BY <1>a, <3>1, <4>1, <4>2
    <3>2. CASE q2 # p BY <1>2, <2>2, <2>3, <3>2 DEF Forgotten
    <3>. QED BY <3>1, <3>2
  <2>7. Type(i)' # "none" BY <1>1, <2>4
  <2>8. Dying(k'[q]) = i BY <2>2, <2>3
  <2>. QED BY <2>5, <2>6, <2>7, <2>8 DEF Forgotten, Type
<1>12. \A f \in File : file'[f].ip # None =>
          Type(file[f].ip)' # "none" /\ (file'[f].writable => Type(file[f].ip)' # "dir")
  BY <1>8 DEF Type
<1>. QED BY <1>5, <1>6, <1>9, <1>10, <1>11, <1>12 DEF InUse

\* All of it together.
Changes(p, t, h, c) ==
    /\ Others(p) /\ LocalOf(p, t, h)' /\ Referring /\ Describing /\ Transacting /\ Locked(p)
    /\ Filing(p) /\ RolesOf(p, t, h, c)

LEMMA OutStep ==
    ASSUME FsInv, NEW p \in Proc, NEW t, NEW h, NEW c, Changes(p, t, h, c), BlocksOwned'
    PROVE  FsInv'
<1>1. TypeOK /\ Local /\ Counts /\ Locks /\ InUse BY Parts
<1>2. Others(p) /\ Only(p) BY DEF Changes, Others
<1>3. Local' BY <1>1, <1>2, LocalOut DEF Changes
<1>4. Counts' BY DEF Changes, Counts, Referring, Describing, Transacting
<1>5. Locks' BY <1>1, <1>2, LocksStep DEF Changes
<1>6. InUse' BY InUseOut DEF Changes
<1>7. TypeOK'
  <2>1. \A q \in Proc : \A n \in DOMAIN k'[q] : k'[q][n].op \in Operations
    BY <1>3, OpsTyped DEF Local
  <2>2. outstanding' \in 0 .. NPROC BY FewTransactions DEF Changes
  <2>. QED BY <1>2, <2>1, <2>2 DEF TypeOK, Changes, Others, Referring, Describing, Locked, Filing
<1>. QED BY <1>3, <1>4, <1>5, <1>6, <1>7 DEF FsInv

\* The process has a file open that it reads or writes.
LEMMA BusyOpen ==
    ASSUME FsInv, NEW q \in Proc, Busy(k[q])
    PROVE  /\ r[q].file \in File /\ file[r[q].file].ref \in Nat /\ file[r[q].file].ref > 0
           /\ \E fd \in Fd : ofile[q][fd] = r[q].file
<1>1. PICK fd \in Fd : ofile[q][fd] = r[q].file BY Parts DEF Local, FileOK
<1>2. r[q].file \in File BY Parts DEF Local, FileOK
<1>3. <<q, fd>> \in Proc \X (0 .. NOFILE) /\ Descriptors[<<q, fd>>] = r[q].file
  BY <1>1, DescriptorPlaces
<1>. QED BY <1>1, <1>2, <1>3, Parts, OpenOnce

\* The counts of the open files follow the descriptors where one slot or two change.
Tallied(p, n, a, b) ==
    /\ OneSlot(p, n) /\ a = Descriptors[<<p, n>>] /\ b = Descriptors'[<<p, n>>]
    /\ file' \in [File -> [ref : Nat, ip : Inum \cup {None}, off : 0 .. MAXFILE, writable : BOOLEAN]]
    /\ \A e \in File : file'[e].ref + Is(a, e) = file[e].ref + Is(b, e)
    /\ \A e \in File : IF file'[e].ref = 0 THEN file'[e] = NoFile ELSE file'[e].ip # None

LEMMA TalliedOne ==
    ASSUME FsInv, NEW p \in Proc, NEW n \in 0 .. NOFILE, NEW a, NEW b, Tallied(p, n, a, b)
    PROVE  Describing
<1>1. ASSUME NEW e \in File PROVE file'[e].ref = Count(Descriptors, e)'
  <2>1. /\ file[e].ref \in Nat /\ Count(Descriptors, e)' \in Nat
        /\ Count(Descriptors, e)' + Is(a, e) = file[e].ref + Is(b, e)
    BY OneOpened DEF Tallied
  <2>2. Is(a, e) \in Nat /\ Is(b, e) \in Nat BY DEF Is
  <2>3. file'[e].ref \in Nat /\ file'[e].ref + Is(a, e) = file[e].ref + Is(b, e) BY DEF Tallied
  <2>4. PICK x : x = Count(Descriptors, e)' OBVIOUS
  <2>. QED BY <2>1, <2>2, <2>3, <2>4
<1>. QED BY <1>1 DEF Describing, Tallied

\* A file goes from one slot of p to another.
LEMMA SlotMoved ==
    ASSUME FsInv, NEW p \in Proc, NEW n \in 0 .. NOFILE, NEW m \in 0 .. NOFILE, n # m,
           TwoSlots(p, n, m), Descriptors'[<<p, n>>] = Descriptors[<<p, m>>],
           Descriptors'[<<p, m>>] = Descriptors[<<p, n>>], UNCHANGED file
    PROVE  Describing
<1>1. ASSUME NEW e \in File PROVE file'[e].ref = Count(Descriptors, e)'
  <2>1. PICK x, a, b : x = Count(Descriptors, e)' /\ a = Descriptors[<<p, n>>] /\ b = Descriptors[<<p, m>>]
    OBVIOUS
  <2>2. /\ file[e].ref \in Nat /\ x \in Nat
        /\ x + Is(a, e) + Is(b, e) = file[e].ref + Is(b, e) + Is(a, e)
    BY <2>1, TwoOpened
  <2>3. Is(a, e) \in Nat /\ Is(b, e) \in Nat BY DEF Is
  <2>. QED BY <2>1, <2>2, <2>3
<1>. QED BY <1>1, Parts DEF Describing, TypeOK, Counts

\* Which slots change.
Holds(p, n, v) == ofile' = [ofile EXCEPT ![p][n] = v]

\* Descriptor n of p changes to v and no other one; the file that p closes stays.
Settles(p, n, v) ==
    /\ n \in 0 .. NOFILE /\ Descriptors[<<p, n>>] = ofile[p][n] /\ Descriptors'[<<p, n>>] = v
    /\ OneSlot(p, n) /\ \A q \in Proc \ {p} : ofile'[q] = ofile[q]
    /\ ofile' \in [Proc -> [Fd -> File \cup {None}]]

LEMMA SlotOf ==
    ASSUME FsInv, NEW p \in Proc, Only(p), NEW n \in Fd, NEW v, Holds(p, n, v)
    PROVE  /\ n \in 0 .. NOFILE /\ NOFILE \in 0 .. NOFILE /\ n # NOFILE
           /\ Descriptors[<<p, n>>] = ofile[p][n] /\ Descriptors'[<<p, n>>] = v
           /\ Descriptors[<<p, NOFILE>>] = Closing(k[p]) /\ Descriptors'[<<p, NOFILE>>] = Closing(k'[p])
           /\ TwoSlots(p, n, NOFILE)
           /\ (Closing(k'[p]) = Closing(k[p]) /\ v \in File \cup {None} => Settles(p, n, v))
<1>1. ofile \in [Proc -> [Fd -> File \cup {None}]] BY Parts DEF TypeOK
<1>2. NOFILE \in Nat BY Constants
<1>3. n \in 0 .. NOFILE /\ NOFILE \in 0 .. NOFILE /\ n # NOFILE /\ n < NOFILE /\ ~(NOFILE < NOFILE)
  BY <1>2 DEF Fd
<1>4. /\ \A q \in Proc \ {p} : ofile'[q] = ofile[q]
      /\ ofile'[p][n] = v /\ \A m \in Fd \ {n} : ofile'[p][m] = ofile[p][m]
  BY <1>1 DEF Holds
<1>5. /\ Descriptors[<<p, n>>] = ofile[p][n] /\ Descriptors'[<<p, n>>] = v
      /\ Descriptors[<<p, NOFILE>>] = Closing(k[p]) /\ Descriptors'[<<p, NOFILE>>] = Closing(k'[p])
  BY <1>3, <1>4 DEF Descriptors
<1>6. ASSUME NEW x \in Proc \X (0 .. NOFILE), x # <<p, n>>, x # <<p, NOFILE>> \/ Closing(k'[p]) = Closing(k[p])
      PROVE  Descriptors'[x] = Descriptors[x]
  <2>1. x = <<x[1], x[2]>> /\ x[1] \in Proc /\ x[2] \in 0 .. NOFILE OBVIOUS
  <2>2. CASE x[2] < NOFILE
    <3>1. x[2] \in Fd BY <1>2, <2>1, <2>2 DEF Fd
    <3>2. Descriptors'[x] = ofile'[x[1]][x[2]] /\ Descriptors[x] = ofile[x[1]][x[2]]
      BY <2>2 DEF Descriptors
    <3>3. CASE x[1] = p
      <4>1. x[2] # n BY <1>6, <2>1, <3>3
      <4>. QED BY <1>4, <3>1, <3>2, <3>3, <4>1
    <3>. QED BY <1>4, <2>1, <3>2, <3>3
  <2>3. CASE ~(x[2] < NOFILE)
    <3>1. x[2] = NOFILE BY <1>2, <2>1, <2>3
    <3>2. Descriptors'[x] = Closing(k'[x[1]]) /\ Descriptors[x] = Closing(k[x[1]])
      BY <2>3 DEF Descriptors
    <3>3. CASE x[1] = p BY <1>6, <2>1, <3>1, <3>2, <3>3
    <3>. QED BY <2>1, <3>2, <3>3 DEF Only
  <2>. QED BY <2>2, <2>3
<1>7. TwoSlots(p, n, NOFILE) /\ (Closing(k'[p]) = Closing(k[p]) => OneSlot(p, n))
  BY <1>6 DEF TwoSlots, OneSlot
<1>8. v \in File \cup {None} => ofile' \in [Proc -> [Fd -> File \cup {None}]] BY <1>1 DEF Holds
<1>9. Closing(k'[p]) = Closing(k[p]) /\ v \in File \cup {None} => Settles(p, n, v)
  BY <1>3, <1>4, <1>5, <1>7, <1>8 DEF Settles
<1>. QED BY <1>3, <1>5, <1>7, <1>9

LEMMA SlotPlaced ==
    ASSUME FsInv, NEW p \in Proc, Only(p), NEW n \in Fd, NEW v \in File \cup {None}, Holds(p, n, v),
           Closing(k'[p]) = Closing(k[p])
    PROVE  Settles(p, n, v)
BY SlotOf, Zenon

\* The disk, the files and the locks stay as they are.
LEMMA SameFiling ==
    ASSUME FsInv, NEW p \in Proc, UNCHANGED <<d, valid>>,
           \A f \in File : \/ file'[f].ip = None
                           \/ file'[f].ip = file[f].ip /\ (file'[f].writable => file[f].writable)
    PROVE  Filing(p)
<1>1. d \in Disks /\ valid \in [Inum -> BOOLEAN] /\ \A i \in Inum : valid[i] => Type(i) # "none"
  BY Parts DEF TypeOK, InUse
<1>. QED BY <1>1 DEF Filing

LEMMA SameLocked ==
    ASSUME FsInv, NEW p \in Proc, UNCHANGED lock, Main(k'[p], r'[p]) = Main(k[p], r[p]),
           Dying(k[p]) = None, Dying(k'[p]) = None
    PROVE  Locked(p)
BY Parts DEF Locked, Locks, TypeOK

\* A step that changes nothing but the call, and transactions in progress.
Quiet(p, s, g, t, h, c) ==
    /\ s = k[p] /\ g = r[p] /\ t = k'[p] /\ h = r'[p] /\ c = cwd[p]
    /\ Only(p) /\ UNCHANGED <<d, ref, valid, lock, file, ofile, cwd>> /\ Transacting
    /\ StackOK(t) /\ RegsOK(t, h)
    /\ (c = None => t = <<>>) /\ (Deep(t, 1).op = "fileclose" => h = NoRegs)
    /\ (c = None \/ Closed(t, h) => \A fd \in Fd : ofile[p][fd] = None)
    /\ (Busy(t) => FileOK(t, h.file, ofile[p]))
    /\ Closing(t) = Closing(s) /\ Main(t, h) = Main(s, g) /\ Dying(s) = None /\ Dying(t) = None
    /\ Known(t, h, c) /\ Fresh(t, h) = None
    /\ \A i \in Inum : i \in {CwdOwn(t, c), NextCwd(t, h)} => i \in {CwdOwn(s, c), NextCwd(s, g)}
    /\ \A i \in Inum : Total(t, h, c, i) = Total(s, g, c, i)

LEMMA QuietStep ==
    ASSUME FsInv, NEW p \in Proc, NEW s, NEW g, NEW t, NEW h, NEW c, Quiet(p, s, g, t, h, c)
    PROVE  FsInv'
<1>0. /\ s = k[p] /\ g = r[p] /\ t = k'[p] /\ h = r'[p] /\ c = cwd[p]
      /\ Only(p) /\ UNCHANGED <<d, ref, valid, lock, file, ofile, cwd>> /\ Transacting
  BY DEF Quiet
<1>1. /\ ref \in [Inum -> Nat] /\ cwd \in [Proc -> Inum \cup {None}]
      /\ ofile \in [Proc -> [Fd -> File \cup {None}]]
  BY Parts DEF TypeOK
<1>2. Others(p) BY <1>0, <1>1 DEF Others
<1>3. LocalOf(p, t, h)'
  <2>1. cwd'[p] = c /\ ofile'[p] = ofile[p] BY <1>0
  <2>2. Busy(t) => FileOK(t, h.file, ofile[p])' BY <1>0 DEF Quiet, FileOK
  <2>. QED BY <1>0, <2>1, <2>2 DEF LocalOf, Quiet
<1>4. Referring
  <2>1. \A i \in Inum : ref'[i] + Total(s, g, cwd[p], i) = ref[i] + Total(t, h, cwd'[p], i)
    BY <1>0 DEF Quiet
  <2>2. Balanced(p, s, g, t, h) BY <1>0, <1>1, <2>1 DEF Balanced
  <2>. QED BY <2>2, Parts, BalancedRefs
<1>5. Describing BY <1>0, NoneOpened DEF Quiet
<1>6. Locked(p)
  <2>1. Main(k'[p], r'[p]) = Main(k[p], r[p]) /\ Dying(k[p]) = None /\ Dying(k'[p]) = None
    BY <1>0 DEF Quiet
  <2>. QED BY <1>0, <2>1, SameLocked
<1>7. Filing(p) BY <1>0, SameFiling
<1>8. RolesOf(p, t, h, c)
  <2>1. cwd'[p] = c BY <1>0
  <2>2. \A i \in Inum : i \in {CwdOwn(t, c), NextCwd(t, h)} =>
           i \in {CwdOwn(k[p], cwd[p]), NextCwd(k[p], r[p])}
    BY <1>0 DEF Quiet
  <2>. QED BY <1>0, <2>1, <2>2 DEF RolesOf, Quiet
<1>9. BlocksOwned' BY <1>0, Parts DEF BlocksOwned
<1>10. Changes(p, t, h, c) BY <1>0, <1>2, <1>3, <1>4, <1>5, <1>6, <1>7, <1>8 DEF Changes
<1>. QED BY <1>9, <1>10, OutStep

LEMMA EmptyStack ==
    /\ StackOK(<<>>) /\ \A m \in Nat : Deep(<<>>, m) = NoOp
    /\ RegsOK(<<>>, NoRegs) /\ NoRegs \in Regs /\ NoRegs.ip = None
<1>1. \A m \in Nat : Deep(<<>>, m) = NoOp BY DEF Deep
<1>2. <<>> \in Seq(OpType) /\ Len(<<>>) = 0 BY EmptySeq
<1>3. StackOK(<<>>) BY <1>2 DEF StackOK
<1>4. NoRegs \in Regs
  <2>1. <<>> \in Seq(Name) BY EmptySeq
  <2>. QED BY <2>1, Constants DEF Regs, NoRegs, Name
<1>5. RegsOK(<<>>, NoRegs) BY <1>1, <1>4 DEF RegsOK, NoOp, Op
<1>. QED BY <1>1, <1>3, <1>4, <1>5 DEF NoRegs

\* end_op().
LEMMA EndOpStep == ASSUME FsInv, NEW p \in Proc, end_op(p) PROVE FsInv'
<1>1. PICK s, g, L, c, t, h : /\ s = k[p] /\ g = r[p] /\ L = Len(s) /\ c = cwd[p]
                              /\ t = k'[p] /\ h = r'[p]
  OBVIOUS
<1>2. s # <<>> /\ Deep(s, L).op = "end_op" /\ Head(s).op = "end_op" /\ Fits("end_op", L, Deep(s, L - 1).op)
  BY <1>1, AtOp DEF end_op
<1>3. StackOK(s) /\ RegsOK(s, g) /\ Layers(s, L) /\ g \in Regs /\ Known(s, g, c) /\ c \in Inum
  BY <1>1, <1>2, Here
<1>4. \/ L = 1 
      \/ L = 2 /\ Deep(s, 1).op = "set_cwd"
      \/ L = 5 /\ Deep(s, 4).op = "exit_files"
  BY <1>2, <1>3 DEF Layers, Layer, Fits, Putting
<1>10. /\ UNCHANGED <<d, ref, valid, lock, file, ofile, cwd>> /\ outstanding' = outstanding - 1
       /\ Continue(p, <<>>) /\ r' = IF L = 1 THEN [r EXCEPT ![p] = NoRegs] ELSE r
  BY <1>1 DEF end_op
<1>11. Regular(p) /\ h = IF L = 1 THEN NoRegs ELSE g
  BY <1>1, <1>10, Here DEF Regular
<1>12. Next0(p, s, t, L) BY <1>1, <1>2, <1>10, <1>11 DEF Next0
<1>13. Only(p) BY <1>12, ToNext0
<1>14. StackOK(t) /\ Layers(t, L - 1) /\ \A m \in 1 .. 6 : Deep(t, m) = IF m = L THEN NoOp ELSE Deep(s, m)
  BY <1>12, ToNext0
<1>15. /\ Deep(t, 1) = (IF L = 1 THEN NoOp ELSE Deep(s, 1)) /\ Deep(t, 2) = (IF L = 2 THEN NoOp ELSE Deep(s, 2))
       /\ Deep(t, 3) = (IF L = 3 THEN NoOp ELSE Deep(s, 3)) /\ Deep(t, 4) = (IF L = 4 THEN NoOp ELSE Deep(s, 4))
       /\ Deep(t, 5) = (IF L = 5 THEN NoOp ELSE Deep(s, 5)) /\ Deep(t, 6) = (IF L = 6 THEN NoOp ELSE Deep(s, 6))
  BY <1>14, Six
<1>16. RegsOK(t, h)
  <2>1. CASE L = 1
    <3>1. t = <<>> BY <1>14, <2>1 DEF Layers
    <3>. QED BY <2>1, <3>1, <1>11, EmptyStack
  <2>2. CASE L # 1
    BY <1>2, <1>3, <1>4, <1>11, <1>14, <1>15, <2>2, Six, Constants DEF RegsOK, Layers, Layer, Fits, NoOp, Op, Putting
  <2>. QED BY <2>1, <2>2
<1>17. /\ InTransaction(s) /\ ~InTransaction(t) /\ ~Busy(t) /\ (Closed(t, h) => Closed(s, g))
       /\ Closing(s) = None /\ Closing(t) = None /\ Deep(t, 1).op # "fileclose"
       /\ Dying(s) = None /\ Dying(t) = None /\ Main(t, h) = Main(s, g) 
       /\ NextCwd(t, h) = NextCwd(s, g) /\ Fresh(t, h) = None /\ CwdOwn(t, c) = CwdOwn(s, c)
  BY <1>2, <1>3, <1>4, <1>11, <1>14, <1>15, EmptyStack DEF Layers, Layer, Fits, NoOp, Op, Putting, 
     InTransaction, Busy, Closed, Leaving, Closing, Main, Dying, NextCwd, Fresh, CwdOwn
<1>18. Transacting BY <1>1, <1>10, <1>13, <1>17, Ends
<1>19. Known(t, h, c)
  <2>1. Deep(t, 2).op = "open_file" => Deep(s, 2).op = "open_file" /\ h = g
    BY <1>2, <1>3, <1>4, <1>11, <1>15 DEF Layers, Layer, Fits, NoOp, Op, Putting
  <2>. QED BY <1>3, <1>17, <2>1 DEF Known
<1>20. ASSUME NEW j \in Inum PROVE Total(t, h, c, j) = Total(s, g, c, j)
  <2>1. \A m \in 1 .. 6 : OpOwn(t, m) = OpOwn(s, m)
    BY <1>2, <1>4, <1>14, Six DEF OpOwn, Owning, Putting, NoOp, Op
  <2>2. IpOwn(t, h) = IpOwn(s, g) /\ OldOwn(t, h) = OldOwn(s, g) /\ DpOwn(t, h) = DpOwn(s, g)
    BY <1>2, <1>3, <1>4, <1>11, <1>14, <1>15 DEF IpOwn, OldOwn, DpOwn, Layers, Layer, Fits, NoOp, Op, Putting
  <2>. QED BY <1>17, <2>1, <2>2, Six DEF Total
<1>21. c # None BY <1>3, Constants
<1>22. Closed(t, h) => \A fd \in Fd : ofile[p][fd] = None
  BY <1>1, <1>17, Parts DEF Local
<1>23. Quiet(p, s, g, t, h, c)
  BY <1>1, <1>10, <1>13, <1>14, <1>16, <1>17, <1>18, <1>19, <1>20, <1>21, <1>22 DEF Quiet
<1>. QED BY <1>23, QuietStep

\* A step on open files that takes or drops no reference to an inode, and no lock.
Handles(p, s, g, t, h, c) ==
    /\ s = k[p] /\ g = r[p] /\ t = k'[p] /\ h = r'[p] /\ c = cwd[p]
    /\ Only(p) /\ UNCHANGED <<ref, lock, cwd>> /\ Transacting /\ Describing /\ Filing(p) /\ BlocksOwned'
    /\ ofile' \in [Proc -> [Fd -> File \cup {None}]] /\ \A q \in Proc \ {p} : ofile'[q] = ofile[q]
    /\ \A f \in File : file'[f].ip = file[f].ip /\ file'[f].writable = file[f].writable
    /\ StackOK(t) /\ RegsOK(t, h)
    /\ (c = None => t = <<>>) /\ (Deep(t, 1).op = "fileclose" => h = NoRegs)
    /\ (c = None \/ Closed(t, h) => \A fd \in Fd : ofile'[p][fd] = None)
    /\ (Busy(t) => FileOK(t, h.file, ofile[p])')
    /\ Main(t, h) = Main(s, g) /\ Dying(s) = None /\ Dying(t) = None
    /\ Known(t, h, c) /\ Fresh(t, h) = None
    /\ \A i \in Inum : i \in {CwdOwn(t, c), NextCwd(t, h)} => i \in {CwdOwn(s, c), NextCwd(s, g)}
    /\ \A i \in Inum : Total(t, h, c, i) = Total(s, g, c, i)

LEMMA HandlesStep ==
    ASSUME FsInv, NEW p \in Proc, NEW s, NEW g, NEW t, NEW h, NEW c, Handles(p, s, g, t, h, c)
    PROVE  FsInv'
<1>0. /\ s = k[p] /\ g = r[p] /\ t = k'[p] /\ h = r'[p] /\ c = cwd[p]
      /\ Only(p) /\ UNCHANGED <<ref, lock, cwd>> /\ Transacting /\ Describing /\ Filing(p) /\ BlocksOwned'
      /\ ofile' \in [Proc -> [Fd -> File \cup {None}]] /\ \A q \in Proc \ {p} : ofile'[q] = ofile[q]
      /\ \A f \in File : file'[f].ip = file[f].ip /\ file'[f].writable = file[f].writable
  BY DEF Handles
<1>1. ref \in [Inum -> Nat] /\ cwd \in [Proc -> Inum \cup {None}]
  BY Parts DEF TypeOK
<1>2. Others(p)
  <2>1. \A q \in Proc : Busy(k[q]) => r[q].file \in File BY BusyOpen
  <2>. QED BY <1>0, <1>1, <2>1 DEF Others
<1>3. LocalOf(p, t, h)'
  <2>1. cwd'[p] = c BY <1>0
  <2>. QED BY <1>0, <2>1 DEF LocalOf, Handles
<1>4. Referring
  <2>1. \A i \in Inum : ref'[i] + Total(s, g, cwd[p], i) = ref[i] + Total(t, h, cwd'[p], i)
    BY <1>0 DEF Handles
  <2>2. Balanced(p, s, g, t, h) BY <1>0, <1>1, <2>1 DEF Balanced
  <2>. QED BY <2>2, Parts, BalancedRefs
<1>6. Locked(p)
  <2>1. Main(k'[p], r'[p]) = Main(k[p], r[p]) /\ Dying(k[p]) = None /\ Dying(k'[p]) = None
    BY <1>0 DEF Handles
  <2>. QED BY <1>0, <2>1, SameLocked
<1>8. RolesOf(p, t, h, c)
  <2>1. cwd'[p] = c BY <1>0
  <2>2. \A i \in Inum : i \in {CwdOwn(t, c), NextCwd(t, h)} =>
           i \in {CwdOwn(k[p], cwd[p]), NextCwd(k[p], r[p])}
    BY <1>0 DEF Handles
  <2>. QED BY <1>0, <2>1, <2>2 DEF RolesOf, Handles
<1>10. Changes(p, t, h, c) BY <1>0, <1>2, <1>3, <1>4, <1>6, <1>8 DEF Changes
<1>. QED BY <1>0, <1>10, OutStep

\* A file leaves its descriptor, to be closed.
LEMMA Leaves ==
    ASSUME FsInv, NEW p \in Proc, Only(p), NEW n \in Fd, ofile' = [ofile EXCEPT ![p][n] = None],
           Closing(k[p]) = None, Closing(k'[p]) = ofile[p][n], UNCHANGED file
    PROVE  Describing
<1>1. PICK v : v = None OBVIOUS
<1>3. Holds(p, n, v) BY <1>1 DEF Holds
<1>2. /\ n \in 0 .. NOFILE /\ NOFILE \in 0 .. NOFILE /\ n # NOFILE
      /\ Descriptors[<<p, n>>] = ofile[p][n] /\ Descriptors'[<<p, n>>] = v
      /\ Descriptors[<<p, NOFILE>>] = Closing(k[p]) /\ Descriptors'[<<p, NOFILE>>] = Closing(k'[p])
      /\ TwoSlots(p, n, NOFILE)
  BY <1>3, SlotOf
<1>. QED BY <1>1, <1>2, SlotMoved

\* exit() goes through the descriptors.
LEMMA ExitFilesStep == ASSUME FsInv, NEW p \in Proc, exit_files(p) PROVE FsInv'
<1>1. PICK s, g, L, c, t, h : /\ s = k[p] /\ g = r[p] /\ L = Len(s) /\ c = cwd[p]
                              /\ t = k'[p] /\ h = r'[p]
  OBVIOUS
<1>2. /\ s # <<>> /\ Deep(s, L).op = "exit_files" /\ Head(s).op = "exit_files"
      /\ Fits("exit_files", L, Deep(s, L - 1).op)
  BY <1>1, AtOp DEF exit_files
<1>3. StackOK(s) /\ RegsOK(s, g) /\ Layers(s, L) /\ g \in Regs /\ Known(s, g, c) /\ c \in Inum
  BY <1>1, <1>2, Here
<1>4. L = 4 /\ Deep(s, 4).op = "exit_files" /\ Deep(s, 3).op = "iput" /\ Deep(s, 5) = NoOp /\ Deep(s, 6) = NoOp
  BY <1>2, <1>3 DEF Layers, Layer, Fits, Putting
<1>5. UNCHANGED <<d, ref, valid, lock, file, cwd, r>> /\ Regular(p) /\ h = g
  BY <1>1 DEF exit_files, Regular
<1>6. c # None BY <1>3, Constants
<1>7. CASE Fd \ FreeFds(p) = {}
  <2>1. outstanding' = outstanding + 1 /\ Continue(p, <<>>) /\ UNCHANGED ofile
    BY <1>7 DEF exit_files
  <2>2. Next0(p, s, t, L) BY <1>1, <1>2, <1>5, <2>1 DEF Next0
  <2>3. Only(p) BY <2>2, ToNext0
  <2>4. StackOK(t) /\ Layers(t, 3) /\ \A m \in 1 .. 6 : Deep(t, m) = IF m = 4 THEN NoOp ELSE Deep(s, m)
    BY <1>4, <2>2, ToNext0
  <2>5. /\ Deep(t, 1) = Deep(s, 1) /\ Deep(t, 2) = Deep(s, 2) /\ Deep(t, 3) = Deep(s, 3)
        /\ Deep(t, 4) = NoOp /\ Deep(t, 5) = NoOp /\ Deep(t, 6) = NoOp
    BY <1>4, <2>4, Six
  <2>6. RegsOK(t, h)
    BY <1>2, <1>3, <1>4, <1>5, <2>4, <2>5, Six DEF RegsOK, Layers, Layer, Fits, NoOp, Op, Putting
  <2>7. /\ ~InTransaction(s) /\ InTransaction(t) /\ ~Busy(t)
        /\ Closing(s) = None /\ Closing(t) = None /\ Deep(t, 1).op # "fileclose"
        /\ Dying(s) = None /\ Dying(t) = None /\ Main(t, h) = Main(s, g) 
        /\ NextCwd(t, h) = NextCwd(s, g) /\ Fresh(t, h) = None /\ CwdOwn(t, c) = CwdOwn(s, c)
    BY <1>2, <1>3, <1>4, <1>5, <2>4, <2>5 DEF Layers, Layer, Fits, NoOp, Op, Putting, 
       InTransaction, Busy, Closing, Main, Dying, NextCwd, Fresh, CwdOwn
  <2>8. Transacting BY <1>1, <2>1, <2>3, <2>7, Begins
  <2>9. Known(t, h, c)
    <3>1. Deep(t, 2).op = "open_file" => Deep(s, 2).op = "open_file" /\ h = g BY <1>5, <2>5
    <3>. QED BY <1>3, <2>7, <3>1 DEF Known
  <2>10. ASSUME NEW j \in Inum PROVE Total(t, h, c, j) = Total(s, g, c, j)
    <3>1. \A m \in 1 .. 6 : OpOwn(t, m) = OpOwn(s, m)
      BY <1>2, <1>4, <2>4, Six DEF OpOwn, Owning, Putting, NoOp, Op
    <3>2. IpOwn(t, h) = IpOwn(s, g) /\ OldOwn(t, h) = OldOwn(s, g) /\ DpOwn(t, h) = DpOwn(s, g)
      BY <1>5, <2>5 DEF IpOwn, OldOwn, DpOwn
    <3>. QED BY <2>7, <3>1, <3>2, Six DEF Total
  <2>11. \A fd \in Fd : ofile[p][fd] = None BY <1>7 DEF FreeFds
  <2>12. Quiet(p, s, g, t, h, c)
    BY <1>1, <1>5, <1>6, <2>1, <2>3, <2>4, <2>6, <2>7, <2>8, <2>9, <2>10, <2>11 DEF Quiet
  <2>. QED BY <2>12, QuietStep
<1>8. CASE Fd \ FreeFds(p) # {}
  <2>1. PICK n, f : n = Min(Fd \ FreeFds(p)) /\ f = ofile[p][n] OBVIOUS
  <2>2. n \in Fd /\ f # None /\ f \in File
    <3>1. Fd \ FreeFds(p) \in SUBSET Nat BY Constants
    <3>2. n \in Fd \ FreeFds(p) BY <1>8, <2>1, <3>1, MinIn
    <3>3. ofile \in [Proc -> [Fd -> File \cup {None}]] BY Parts DEF TypeOK
    <3>. QED BY <2>1, <3>2, <3>3 DEF FreeFds
  <2>3. /\ ofile' = [ofile EXCEPT ![p][n] = None] /\ UNCHANGED outstanding
        /\ Continue(p, <<Op("fileclose", f), Op("exit_files", None)>>)
    BY <1>8, <2>1 DEF exit_files
  <2>4. OpOK(Op("fileclose", f)) /\ OpOK(Op("exit_files", None))
    BY <2>2, GoodOps DEF Operations, Owning, Naming, Putting
  <2>5. Fits("exit_files", L, Deep(s, L - 1).op) /\ Fits("fileclose", L + 1, "exit_files")
    BY <1>2, <1>4 DEF Fits
  <2>6. Next2(p, s, t, L, "fileclose", f, "exit_files", None)
    BY <1>1, <1>2, <1>4, <1>5, <2>3, <2>4, <2>5 DEF Next2
  <2>7. Only(p) BY <2>6, ToNext2
  <2>8. /\ StackOK(t) /\ Layers(t, 5)
        /\ \A m \in 1 .. 6 : Deep(t, m) = IF m = 5 THEN Op("fileclose", f)
                                          ELSE IF m = 4 THEN Op("exit_files", None) ELSE Deep(s, m)
    BY <1>4, <2>6, ToNext2
  <2>9. /\ Deep(t, 1) = Deep(s, 1) /\ Deep(t, 2) = Deep(s, 2) /\ Deep(t, 3) = Deep(s, 3)
        /\ Deep(t, 4) = Op("exit_files", None) /\ Deep(t, 5) = Op("fileclose", f) /\ Deep(t, 6) = NoOp
    BY <1>4, <2>8, Six
  <2>10. RegsOK(t, h)
    BY <1>2, <1>3, <1>4, <1>5, <2>8, <2>9, Six DEF RegsOK, Layers, Layer, Fits, NoOp, Op, Putting
  <2>11. /\ ~InTransaction(s) /\ ~InTransaction(t) /\ ~Busy(t) /\ ~Closed(t, h)
         /\ Closing(s) = None /\ Closing(t) = f /\ Deep(t, 1).op # "fileclose"
         /\ Dying(s) = None /\ Dying(t) = None /\ Main(t, h) = Main(s, g) 
         /\ NextCwd(t, h) = NextCwd(s, g) /\ Fresh(t, h) = None /\ CwdOwn(t, c) = CwdOwn(s, c)
    BY <1>2, <1>3, <1>4, <1>5, <2>8, <2>9 DEF Layers, Layer, Fits, NoOp, Op, Putting, Closed,
       InTransaction, Busy, Closing, Main, Dying, NextCwd, Fresh, CwdOwn
  <2>12. Transacting BY <1>1, <2>3, <2>7, <2>11, Stays
  <2>13. Known(t, h, c)
    <3>1. Deep(t, 2).op = "open_file" => Deep(s, 2).op = "open_file" /\ h = g BY <1>5, <2>9
    <3>. QED BY <1>3, <2>11, <3>1 DEF Known
  <2>14. ASSUME NEW j \in Inum PROVE Total(t, h, c, j) = Total(s, g, c, j)
    <3>1. \A m \in 1 .. 6 : OpOwn(t, m) = OpOwn(s, m)
      BY <1>2, <1>4, <2>8, Six DEF OpOwn, Owning, Putting, NoOp, Op
    <3>2. IpOwn(t, h) = IpOwn(s, g) /\ OldOwn(t, h) = OldOwn(s, g) /\ DpOwn(t, h) = DpOwn(s, g)
      BY <1>5, <2>9 DEF IpOwn, OldOwn, DpOwn
    <3>. QED BY <2>11, <3>1, <3>2, Six DEF Total
  <2>15. Describing
    <3>1. Closing(k[p]) = None /\ Closing(k'[p]) = ofile[p][n] BY <1>1, <2>1, <2>11
    <3>. QED BY <1>5, <2>2, <2>3, <2>7, <3>1, Leaves
  <2>16. /\ \A q \in Proc \ {p} : ofile'[q] = ofile[q]
         /\ ofile' \in [Proc -> [Fd -> File \cup {None}]]
    <3>1. ofile \in [Proc -> [Fd -> File \cup {None}]] BY Parts DEF TypeOK
    <3>. QED BY <2>2, <2>3, <3>1
  <2>17. Filing(p) /\ BlocksOwned' BY <1>5, Parts, SameFiling DEF BlocksOwned
  <2>18. Handles(p, s, g, t, h, c)
    BY <1>1, <1>5, <1>6, <2>7, <2>8, <2>10, <2>11, <2>12, <2>13, <2>14, <2>15, <2>16, <2>17 DEF Handles
  <2>. QED BY <2>18, HandlesStep
<1>. QED BY <1>7, <1>8

-----------------------------------------------------------------------------
(* The calls.                                                              *)

\* A stack of length n, and what is at its depths.
Laid(t, n, a, b, c, e) ==
    /\ StackOK(t) /\ Len(t) = n /\ Layers(t, n) /\ Depths(t, a, b, c, e, NoOp, NoOp)

LEMMA Stack1 ==
    ASSUME NEW x, OpOK(x), Fits(x.op, 1, "none")
    PROVE  Laid(<<x>>, 1, x, NoOp, NoOp, NoOp)
<1>1. PICK b, t : b = <<>> /\ t = <<x>> OBVIOUS
<1>2. t = <<x>> \o b BY <1>1, Joined
<1>3. StackOK(b) /\ Len(b) = 0 /\ \A m \in Nat : Deep(b, m) = NoOp BY <1>1, EmptyStack
<1>4. Deep(b, 0).op = "none" BY <1>3 DEF NoOp, Op
<1>5. /\ StackOK(t) /\ Len(t) = 1
      /\ \A m \in Nat : Deep(t, m) = IF m = 1 THEN x ELSE Deep(b, m)
  <2>1. Len(b) < 6 /\ Len(b) + 1 = 1 /\ Fits(x.op, Len(b) + 1, Deep(b, Len(b)).op) BY <1>3, <1>4
  <2>2. /\ StackOK(<<x>> \o b) /\ Len(<<x>> \o b) = Len(b) + 1
        /\ \A m \in Nat : Deep(<<x>> \o b, m) = IF m = Len(b) + 1 THEN x ELSE Deep(b, m)
    BY <1>3, <1>4, <2>1, Put1
  <2>. QED BY <1>2, <1>3, <1>4, <2>1, <2>2
<1>6. Layers(t, 1) BY <1>5, Layered
<1>. QED BY <1>1, <1>3, <1>5, <1>6 DEF Laid, Depths

LEMMA Stack2 ==
    ASSUME NEW x, NEW y, OpOK(x), OpOK(y), Fits(y.op, 1, "none"), Fits(x.op, 2, y.op)
    PROVE  Laid(<<x, y>>, 2, y, x, NoOp, NoOp)
<1>1. PICK b, t : b = <<y>> /\ t = <<x, y>> OBVIOUS
<1>2. t = <<x>> \o b BY <1>1, Joined
<1>3. Laid(b, 1, y, NoOp, NoOp, NoOp) BY <1>1, Stack1
<1>4. StackOK(b) /\ Len(b) = 1 /\ Deep(b, 1) = y BY <1>3 DEF Laid, Depths
<1>5. /\ StackOK(t) /\ Len(t) = 2
      /\ \A m \in Nat : Deep(t, m) = IF m = 2 THEN x ELSE Deep(b, m)
  <2>1. Len(b) < 6 /\ Len(b) + 1 = 2 /\ Fits(x.op, Len(b) + 1, Deep(b, Len(b)).op) BY <1>4
  <2>2. /\ StackOK(<<x>> \o b) /\ Len(<<x>> \o b) = Len(b) + 1
        /\ \A m \in Nat : Deep(<<x>> \o b, m) = IF m = Len(b) + 1 THEN x ELSE Deep(b, m)
    BY <1>4, <2>1, Put1
  <2>. QED BY <1>2, <1>4, <2>1, <2>2
<1>6. Layers(t, 2) BY <1>5, Layered
<1>. QED BY <1>1, <1>3, <1>5, <1>6 DEF Laid, Depths

LEMMA Stack3 ==
    ASSUME NEW x, NEW y, NEW z, OpOK(x), OpOK(y), OpOK(z),
           Fits(z.op, 1, "none"), Fits(y.op, 2, z.op), Fits(x.op, 3, y.op)
    PROVE  Laid(<<x, y, z>>, 3, z, y, x, NoOp)
<1>1. PICK b, t : b = <<y, z>> /\ t = <<x, y, z>> OBVIOUS
<1>2. t = <<x>> \o b
  <2>1. PICK S : S = {x, y, z} OBVIOUS
  <2>2. x \in S /\ y \in S /\ z \in S BY <2>1
  <2>. QED BY <1>1, <2>2, Two
<1>3. Laid(b, 2, z, y, NoOp, NoOp) BY <1>1, Stack2
<1>4. StackOK(b) /\ Len(b) = 2 /\ Deep(b, 2) = y BY <1>3 DEF Laid, Depths
<1>5. /\ StackOK(t) /\ Len(t) = 3
      /\ \A m \in Nat : Deep(t, m) = IF m = 3 THEN x ELSE Deep(b, m)
  <2>1. Len(b) < 6 /\ Len(b) + 1 = 3 /\ Fits(x.op, Len(b) + 1, Deep(b, Len(b)).op) BY <1>4
  <2>2. /\ StackOK(<<x>> \o b) /\ Len(<<x>> \o b) = Len(b) + 1
        /\ \A m \in Nat : Deep(<<x>> \o b, m) = IF m = Len(b) + 1 THEN x ELSE Deep(b, m)
    BY <1>4, <2>1, Put1
  <2>. QED BY <1>2, <1>4, <2>1, <2>2
<1>6. Layers(t, 3) BY <1>5, Layered
<1>. QED BY <1>1, <1>3, <1>5, <1>6 DEF Laid, Depths

LEMMA Stack4 ==
    ASSUME NEW w, NEW x, NEW y, NEW z, OpOK(w), OpOK(x), OpOK(y), OpOK(z),
           Fits(z.op, 1, "none"), Fits(y.op, 2, z.op), Fits(x.op, 3, y.op), Fits(w.op, 4, x.op)
    PROVE  Laid(<<w>> \o <<x, y, z>>, 4, z, y, x, w)
<1>1. PICK b, t : b = <<x, y, z>> /\ t = <<w>> \o b OBVIOUS
<1>3. Laid(b, 3, z, y, x, NoOp) BY <1>1, Stack3
<1>4. StackOK(b) /\ Len(b) = 3 /\ Deep(b, 3) = x BY <1>3 DEF Laid, Depths
<1>5. /\ StackOK(t) /\ Len(t) = 4
      /\ \A m \in Nat : Deep(t, m) = IF m = 4 THEN w ELSE Deep(b, m)
  <2>1. Len(b) < 6 /\ Len(b) + 1 = 4 /\ Fits(w.op, Len(b) + 1, Deep(b, Len(b)).op) BY <1>4
  <2>2. /\ StackOK(<<w>> \o b) /\ Len(<<w>> \o b) = Len(b) + 1
        /\ \A m \in Nat : Deep(<<w>> \o b, m) = IF m = Len(b) + 1 THEN w ELSE Deep(b, m)
    BY <1>4, <2>1, Put1
  <2>. QED BY <1>1, <1>4, <2>1, <2>2
<1>6. Layers(t, 4) BY <1>5, Layered
<1>. QED BY <1>1, <1>3, <1>5, <1>6 DEF Laid, Depths

\* exit()'s stack is written as a whole.
LEMMA Four ==
    \A w, x, y, z : <<w>> \o <<x, y, z>> = <<w, x, y, z>>
<1>. SUFFICES ASSUME NEW w, NEW x, NEW y, NEW z PROVE <<w>> \o <<x, y, z>> = <<w, x, y, z>>
  OBVIOUS
<1>1. PICK S : S = {w, x, y, z} OBVIOUS
<1>2. w \in S /\ x \in S /\ y \in S /\ z \in S BY <1>1
<1>3. /\ <<w>> \in Seq(S) /\ <<x, y, z>> \in Seq(S) /\ <<w, x, y, z>> \in Seq(S)
      /\ Len(<<w>>) = 1 /\ Len(<<x, y, z>>) = 3 /\ Len(<<w, x, y, z>>) = 4
  BY <1>2
<1>4. /\ <<w>> \o <<x, y, z>> \in Seq(S) /\ Len(<<w>> \o <<x, y, z>>) = 4
      /\ \A i \in 1 .. 4 : (<<w>> \o <<x, y, z>>)[i] = IF i <= 1 THEN <<w>>[i] ELSE <<x, y, z>>[i - 1]
  BY <1>3, ConcatProperties
<1>5. \A i \in 1 .. 4 : i \in {1, 2, 3, 4} OBVIOUS
<1>6. \A i \in 1 .. 4 : (<<w>> \o <<x, y, z>>)[i] = <<w, x, y, z>>[i] BY <1>4, <1>5
<1>. QED BY <1>3, <1>4, <1>6, SeqEqual

\* A process that is in no call.
Rests(p, s, g, c) ==
    /\ s = k[p] /\ g = r[p] /\ c = cwd[p] /\ s = <<>> /\ g = NoRegs /\ g \in Regs
    /\ (\A m \in Nat : Deep(s, m) = NoOp)
    /\ g.ip = None /\ ~InTransaction(s) /\ Closing(s) = None
    /\ Main(s, g) = None /\ Dying(s) = None /\ Fresh(s, g) = None /\ NextCwd(s, g) = None
    /\ CwdOwn(s, c) = c /\ (c # None => c \in Inum /\ Type(c) = "dir")
    /\ \A j \in Inum : Total(s, g, c, j) = Is(c, j)

LEMMA Resting ==
    ASSUME FsInv, NEW p \in Proc, NEW s, NEW g, NEW c, s = k[p], g = r[p], c = cwd[p], s = <<>>
    PROVE  Rests(p, s, g, c)
<1>1. RegsOK(s, g) /\ g \in Regs /\ c \in Inum \cup {None} /\ Known(s, g, c) BY Here
<1>2. g = NoRegs BY <1>1 DEF RegsOK
<1>3. g.ip = None BY <1>2, EmptyStack
<1>4. \A m \in Nat : Deep(s, m) = NoOp BY EmptyStack
<1>5. /\ Deep(s, 1) = NoOp /\ Deep(s, 2) = NoOp /\ Deep(s, 3) = NoOp
      /\ Deep(s, 4) = NoOp /\ Deep(s, 5) = NoOp /\ Deep(s, 6) = NoOp
  BY <1>4
<1>6. /\ ~InTransaction(s) /\ Closing(s) = None
      /\ Main(s, g) = None /\ Dying(s) = None /\ Fresh(s, g) = None /\ NextCwd(s, g) = None
      /\ CwdOwn(s, c) = c
  BY <1>5 DEF InTransaction, Closing, Main, Dying, Fresh, NextCwd, CwdOwn, NoOp, Op, Putting
<1>7. c # None => c \in Inum /\ Type(c) = "dir" BY <1>1, <1>6 DEF Known
<1>8. ASSUME NEW j \in Inum PROVE Total(s, g, c, j) = Is(c, j)
  <2>1. \A m \in 1 .. 6 : OpOwn(s, m) = None BY <1>5, Six DEF OpOwn, NoOp, Op, Owning, Putting
  <2>2. IpOwn(s, g) = None /\ OldOwn(s, g) = None /\ DpOwn(s, g) = None
    BY <1>5 DEF IpOwn, OldOwn, DpOwn, NoOp, Op
  <2>3. Is(None, j) = 0 BY Constants DEF Is
  <2>4. /\ OpOwn(s, 1) = None /\ OpOwn(s, 2) = None /\ OpOwn(s, 3) = None
        /\ OpOwn(s, 4) = None /\ OpOwn(s, 5) = None /\ OpOwn(s, 6) = None
    BY <2>1
  <2>5. Is(c, j) \in Nat BY DEF Is
  <2>. QED BY <1>6, <2>2, <2>3, <2>4, <2>5 DEF Total
<1>. QED BY <1>1, <1>2, <1>3, <1>4, <1>6, <1>7, <1>8 DEF Rests

\* A file that p has a descriptor of.
LEMMA OpenFd ==
    ASSUME FsInv, NEW p \in Proc, NEW fd \in Fd, NEW f, f = ofile[p][fd], f # None
    PROVE  /\ f \in File /\ file[f].ref \in Nat /\ file[f].ref > 0 /\ file[f].ip \in Inum
           /\ cwd[p] # None
<1>1. ofile[p][fd] \in File \cup {None} BY Parts DEF TypeOK
<1>2. f \in File BY <1>1
<1>3. <<p, fd>> \in Proc \X (0 .. NOFILE) /\ Descriptors[<<p, fd>>] = f BY DescriptorPlaces
<1>4. file[f].ref \in Nat /\ file[f].ref > 0 BY <1>2, <1>3, Parts, OpenOnce
<1>5. file[f].ip # None BY <1>2, <1>4, Parts DEF Counts
<1>6. file[f].ip \in Inum \cup {None} BY <1>2, Parts DEF TypeOK
<1>7. cwd[p] # None BY Parts DEF Local
<1>. QED BY <1>2, <1>4, <1>5, <1>6, <1>7

\* read() of an open file.
LEMMA SysReadStep == ASSUME FsInv, NEW p \in Proc, NEW fd \in Fd, sys_read(p, fd) PROVE FsInv'
<1>1. PICK s, g, c, t, h, f, i : /\ s = k[p] /\ g = r[p] /\ c = cwd[p] /\ t = k'[p] /\ h = r'[p]
                                 /\ f = ofile[p][fd] /\ i = file[f].ip
  OBVIOUS
<1>2. /\ s = <<>> /\ f # None /\ UNCHANGED <<d, outstanding, ref, valid, lock, file, ofile, cwd>>
      /\ k' = [k EXCEPT ![p] = <<Op("read", i)>>] /\ r' = [r EXCEPT ![p].file = f]
  BY <1>1 DEF sys_read, OnFile, Idle
<1>3. f \in File /\ i \in Inum /\ c # None BY <1>1, <1>2, OpenFd
<1>4. Rests(p, s, g, c) BY <1>1, <1>2, Resting
<1>5. t = <<Op("read", i)>> /\ h = [g EXCEPT !.file = f] /\ Only(p)
  BY <1>1, <1>2, Here DEF Only
<1>6. PICK x : x = Op("read", i) OBVIOUS
<1>7. OpOK(x) /\ x.op = "read" /\ x.ip = i
  <2>1. "read" \in Naming BY DEF Naming
  <2>. QED BY <1>3, <1>6, <2>1, GoodOps DEF Op
<1>8. Laid(t, 1, x, NoOp, NoOp, NoOp)
  <2>1. Fits(x.op, 1, "none") BY <1>7 DEF Fits
  <2>. QED BY <1>5, <1>6, <1>7, <2>1, Stack1
<1>9. /\ StackOK(t) /\ t # <<>> /\ Head(t) = x /\ Deep(t, 1) = x
      /\ Deep(t, 2) = NoOp /\ Deep(t, 3) = NoOp /\ Deep(t, 4) = NoOp /\ Deep(t, 5) = NoOp /\ Deep(t, 6) = NoOp
  BY <1>8 DEF Laid, Depths, Layers
<1>10. h \in Regs /\ h.file = f /\ h.ip = None BY <1>3, <1>4, <1>5 DEF Rests, Regs
<1>11. RegsOK(t, h) BY <1>7, <1>9, <1>10, Six DEF RegsOK, NoOp, Op
<1>12. /\ ~InTransaction(t) /\ Closing(t) = None
       /\ Main(t, h) = None /\ Dying(t) = None /\ Fresh(t, h) = None /\ NextCwd(t, h) = None
       /\ CwdOwn(t, c) = c /\ ~Closed(t, h)
  BY <1>7, <1>9, <1>10
  DEF InTransaction, Closing, Main, Dying, Fresh, NextCwd, CwdOwn, Closed, Leaving, NoOp, Op, Putting
<1>13. FileOK(t, h.file, ofile[p]) BY <1>1, <1>3, <1>7, <1>9, <1>10 DEF FileOK, NoOp, Op
<1>14. Known(t, h, c) BY <1>4, <1>9, <1>12 DEF Known, Rests, NoOp, Op
<1>15. ASSUME NEW j \in Inum PROVE Total(t, h, c, j) = Total(s, g, c, j)
  <2>1. \A m \in 1 .. 6 : OpOwn(t, m) = None BY <1>7, <1>9, Six DEF OpOwn, NoOp, Op, Owning, Putting
  <2>2. IpOwn(t, h) = None /\ OldOwn(t, h) = None /\ DpOwn(t, h) = None
    BY <1>7, <1>9 DEF IpOwn, OldOwn, DpOwn, NoOp, Op
  <2>3. Is(None, j) = 0 BY Constants DEF Is
  <2>4. /\ OpOwn(t, 1) = None /\ OpOwn(t, 2) = None /\ OpOwn(t, 3) = None
        /\ OpOwn(t, 4) = None /\ OpOwn(t, 5) = None /\ OpOwn(t, 6) = None
    BY <2>1
  <2>5. Is(c, j) \in Nat BY DEF Is
  <2>6. Total(t, h, c, j) = Is(c, j) BY <1>12, <2>2, <2>3, <2>4, <2>5 DEF Total
  <2>. QED BY <1>4, <2>6 DEF Rests
<1>16. Transacting
  <2>1. InTransaction(k[p]) <=> InTransaction(k'[p]) BY <1>1, <1>4, <1>12 DEF Rests
  <2>. QED BY <1>2, <1>5, <2>1, Stays
<1>17. Quiet(p, s, g, t, h, c)
  BY <1>1, <1>2, <1>3, <1>4, <1>5, <1>7, <1>9, <1>11, <1>12, <1>13, <1>14, <1>15, <1>16 DEF Quiet, Rests
<1>. QED BY <1>17, QuietStep

\* write() to an open file begins a transaction.
LEMMA SysWriteStep == ASSUME FsInv, NEW p \in Proc, NEW fd \in Fd, sys_write(p, fd) PROVE FsInv'
<1>1. PICK s, g, c, t, h, f, i : /\ s = k[p] /\ g = r[p] /\ c = cwd[p] /\ t = k'[p] /\ h = r'[p]
                                 /\ f = ofile[p][fd] /\ i = file[f].ip
  OBVIOUS
<1>2. /\ s = <<>> /\ f # None /\ UNCHANGED <<d, ref, valid, lock, file, ofile, cwd>>
      /\ k' = [k EXCEPT ![p] = <<Op("write", i), Op("end_op", None)>>] /\ r' = [r EXCEPT ![p].file = f]
      /\ file[f].writable /\ outstanding' = outstanding + 1
  BY <1>1 DEF sys_write, OnFile, Idle
<1>3. f \in File /\ i \in Inum /\ c # None BY <1>1, <1>2, OpenFd
<1>4. Rests(p, s, g, c) BY <1>1, <1>2, Resting
<1>5. t = <<Op("write", i), Op("end_op", None)>> /\ h = [g EXCEPT !.file = f] /\ Only(p)
  BY <1>1, <1>2, Here DEF Only
<1>6. PICK x, y : x = Op("write", i) /\ y = Op("end_op", None) OBVIOUS
<1>7. OpOK(x) /\ x.op = "write" /\ x.ip = i /\ OpOK(y) /\ y.op = "end_op"
  <2>1. "write" \in Naming BY DEF Naming
  <2>2. "end_op" \in Operations \ (Owning \cup Naming \cup {"fileclose"})
    BY DEF Operations, Naming, Owning, Putting
  <2>. QED BY <1>3, <1>6, <2>1, <2>2, GoodOps DEF Op
<1>8. Laid(t, 2, y, x, NoOp, NoOp)
  <2>1. Fits(y.op, 1, "none") /\ Fits(x.op, 2, y.op) BY <1>7 DEF Fits
  <2>. QED BY <1>5, <1>6, <1>7, <2>1, Stack2
<1>9. /\ StackOK(t) /\ t # <<>> /\ Head(t) = x /\ Deep(t, 1) = y /\ Deep(t, 2) = x
      /\ Deep(t, 3) = NoOp /\ Deep(t, 4) = NoOp /\ Deep(t, 5) = NoOp /\ Deep(t, 6) = NoOp
  BY <1>8 DEF Laid, Depths, Layers
<1>10. h \in Regs /\ h.file = f /\ h.ip = None BY <1>3, <1>4, <1>5 DEF Rests, Regs
<1>11. RegsOK(t, h) BY <1>7, <1>9, <1>10, Six DEF RegsOK, NoOp, Op
<1>12. /\ InTransaction(t) /\ Closing(t) = None
       /\ Main(t, h) = None /\ Dying(t) = None /\ Fresh(t, h) = None /\ NextCwd(t, h) = None
       /\ CwdOwn(t, c) = c /\ ~Closed(t, h)
  BY <1>7, <1>9, <1>10
  DEF InTransaction, Closing, Main, Dying, Fresh, NextCwd, CwdOwn, Closed, Leaving, NoOp, Op, Putting
<1>13. FileOK(t, h.file, ofile[p]) BY <1>1, <1>2, <1>3, <1>7, <1>9, <1>10 DEF FileOK, NoOp, Op
<1>14. Known(t, h, c) BY <1>4, <1>7, <1>9, <1>12 DEF Known, Rests, NoOp, Op
<1>15. ASSUME NEW j \in Inum PROVE Total(t, h, c, j) = Total(s, g, c, j)
  <2>1. \A m \in 1 .. 6 : OpOwn(t, m) = None BY <1>7, <1>9, Six DEF OpOwn, NoOp, Op, Owning, Putting
  <2>2. IpOwn(t, h) = None /\ OldOwn(t, h) = None /\ DpOwn(t, h) = None
    BY <1>7, <1>9 DEF IpOwn, OldOwn, DpOwn, NoOp, Op
  <2>3. Is(None, j) = 0 BY Constants DEF Is
  <2>4. /\ OpOwn(t, 1) = None /\ OpOwn(t, 2) = None /\ OpOwn(t, 3) = None
        /\ OpOwn(t, 4) = None /\ OpOwn(t, 5) = None /\ OpOwn(t, 6) = None
    BY <2>1
  <2>5. Is(c, j) \in Nat BY DEF Is
  <2>6. Total(t, h, c, j) = Is(c, j) BY <1>12, <2>2, <2>3, <2>4, <2>5 DEF Total
  <2>. QED BY <1>4, <2>6 DEF Rests
<1>16. Transacting
  <2>1. ~InTransaction(k[p]) /\ InTransaction(k'[p]) BY <1>1, <1>4, <1>12 DEF Rests
  <2>. QED BY <1>2, <1>5, <2>1, Begins
<1>17. Quiet(p, s, g, t, h, c)
  BY <1>1, <1>2, <1>3, <1>4, <1>5, <1>7, <1>9, <1>11, <1>12, <1>13, <1>14, <1>15, <1>16 DEF Quiet, Rests
<1>. QED BY <1>17, QuietStep

\* exit().
LEMMA ExitStep == ASSUME FsInv, NEW p \in Proc, exit(p) PROVE FsInv'
<1>1. PICK s, g, c, t, h : s = k[p] /\ g = r[p] /\ c = cwd[p] /\ t = k'[p] /\ h = r'[p]
  OBVIOUS
<1>2. /\ s = <<>> /\ c # None /\ UNCHANGED <<d, outstanding, ref, valid, lock, file, ofile, cwd, r>>
      /\ k' = [k EXCEPT ![p] = <<Op("exit_files", None), Op("iput", c), Op("end_op", None), Op("set_cwd", None)>>]
  BY <1>1 DEF exit, Idle
<1>4. Rests(p, s, g, c) BY <1>1, <1>2, Resting
<1>3. c \in Inum BY <1>2, <1>4 DEF Rests
<1>6. PICK w, x, y, z : /\ w = Op("exit_files", None) /\ x = Op("iput", c) /\ y = Op("end_op", None)
                        /\ z = Op("set_cwd", None)
  OBVIOUS
<1>5. t = <<w, x, y, z>> /\ h = g /\ Only(p)
  BY <1>1, <1>2, <1>6, Here DEF Only
<1>7. /\ OpOK(w) /\ w.op = "exit_files" /\ OpOK(x) /\ x.op = "iput" /\ x.ip = c
      /\ OpOK(y) /\ y.op = "end_op" /\ OpOK(z) /\ z.op = "set_cwd"
  <2>1. "iput" \in Owning BY DEF Owning, Putting
  <2>2. {"exit_files", "end_op", "set_cwd"} \subseteq Operations \ (Owning \cup Naming \cup {"fileclose"})
    BY DEF Operations, Naming, Owning, Putting
  <2>. QED BY <1>3, <1>6, <2>1, <2>2, GoodOps DEF Op
<1>8. Laid(t, 4, z, y, x, w)
  <2>1. Fits(z.op, 1, "none") /\ Fits(y.op, 2, z.op) /\ Fits(x.op, 3, y.op) /\ Fits(w.op, 4, x.op)
    BY <1>7 DEF Fits, Putting
  <2>2. t = <<w>> \o <<x, y, z>> BY <1>5, Four
  <2>. QED BY <1>7, <2>1, <2>2, Stack4
<1>9. /\ StackOK(t) /\ t # <<>> /\ Head(t) = w /\ Deep(t, 1) = z /\ Deep(t, 2) = y
      /\ Deep(t, 3) = x /\ Deep(t, 4) = w /\ Deep(t, 5) = NoOp /\ Deep(t, 6) = NoOp
  BY <1>8 DEF Laid, Depths, Layers
<1>10. h \in Regs /\ h.ip = None BY <1>3, <1>4, <1>5 DEF Rests, Regs
<1>11. RegsOK(t, h) BY <1>7, <1>9, <1>10, Six DEF RegsOK, NoOp, Op
<1>12. /\ ~InTransaction(t) /\ Closing(t) = None
       /\ Main(t, h) = None /\ Dying(t) = None /\ Fresh(t, h) = None /\ NextCwd(t, h) = None
       /\ CwdOwn(t, c) = None /\ ~Closed(t, h) /\ ~Busy(t)
  BY <1>7, <1>9, <1>10
  DEF InTransaction, Closing, Main, Dying, Fresh, NextCwd, CwdOwn, Closed, Leaving, Busy, NoOp, Op, Putting
<1>14. Known(t, h, c) BY <1>4, <1>7, <1>9, <1>12 DEF Known, Rests, NoOp, Op
<1>15. ASSUME NEW j \in Inum PROVE Total(t, h, c, j) = Total(s, g, c, j)
  <2>1. \A m \in 1 .. 6 : OpOwn(t, m) = IF m = 3 THEN c ELSE None
    BY <1>7, <1>9, Six DEF OpOwn, NoOp, Op, Owning, Putting
  <2>2. IpOwn(t, h) = None /\ OldOwn(t, h) = None /\ DpOwn(t, h) = None
    BY <1>7, <1>9, <1>10 DEF IpOwn, OldOwn, DpOwn, NoOp, Op
  <2>3. Is(None, j) = 0 BY Constants DEF Is
  <2>4. /\ OpOwn(t, 1) = None /\ OpOwn(t, 2) = None /\ OpOwn(t, 3) = c
        /\ OpOwn(t, 4) = None /\ OpOwn(t, 5) = None /\ OpOwn(t, 6) = None
    BY <2>1
  <2>5. Is(c, j) \in Nat BY DEF Is
  <2>6. Total(t, h, c, j) = Is(c, j) BY <1>12, <2>2, <2>3, <2>4, <2>5 DEF Total
  <2>. QED BY <1>4, <2>6 DEF Rests
<1>16. Transacting
  <2>1. InTransaction(k[p]) <=> InTransaction(k'[p]) BY <1>1, <1>4, <1>12 DEF Rests
  <2>. QED BY <1>2, <1>5, <2>1, Stays
<1>17. Quiet(p, s, g, t, h, c)
  <2>1. \A i \in Inum : i \notin {CwdOwn(t, c), NextCwd(t, h)} BY <1>12, Constants
  <2>. QED BY <2>1, <1>1, <1>2, <1>3, <1>4, <1>5, <1>7, <1>9, <1>11, <1>12, <1>14, <1>15, <1>16 DEF Quiet, Rests
<1>. QED BY <1>17, QuietStep

\* close() of a descriptor.
LEMMA SysCloseStep == ASSUME FsInv, NEW p \in Proc, NEW fd \in Fd, sys_close(p, fd) PROVE FsInv'
<1>1. PICK s, g, c, t, h, f : /\ s = k[p] /\ g = r[p] /\ c = cwd[p] /\ t = k'[p] /\ h = r'[p]
                              /\ f = ofile[p][fd]
  OBVIOUS
<1>2. /\ s = <<>> /\ f # None /\ UNCHANGED <<d, outstanding, ref, valid, lock, file, cwd>>
      /\ k' = [k EXCEPT ![p] = <<Op("fileclose", f)>>] /\ r' = [r EXCEPT ![p].file = None]
      /\ ofile' = [ofile EXCEPT ![p][fd] = None]
  BY <1>1 DEF sys_close, OnFile, Idle
<1>3. f \in File /\ c # None BY <1>1, <1>2, OpenFd
<1>4. Rests(p, s, g, c) BY <1>1, <1>2, Resting
<1>5. t = <<Op("fileclose", f)>> /\ h = g /\ Only(p)
  <2>1. h = [g EXCEPT !.file = None] BY <1>1, <1>2, Here
  <2>2. g \in Regs /\ g.file = None BY <1>4 DEF Rests, NoRegs
  <2>3. h = g BY <2>1, <2>2 DEF Regs
  <2>. QED BY <2>3, <1>1, <1>2, Here DEF Only
<1>6. PICK x : x = Op("fileclose", f) OBVIOUS
<1>7. OpOK(x) /\ x.op = "fileclose" /\ x.ip = f BY <1>3, <1>6, GoodOps DEF Op
<1>8. Laid(t, 1, x, NoOp, NoOp, NoOp)
  <2>1. Fits(x.op, 1, "none") BY <1>7 DEF Fits
  <2>. QED BY <1>5, <1>6, <1>7, <2>1, Stack1
<1>9. /\ StackOK(t) /\ t # <<>> /\ Head(t) = x /\ Deep(t, 1) = x
      /\ Deep(t, 2) = NoOp /\ Deep(t, 3) = NoOp /\ Deep(t, 4) = NoOp /\ Deep(t, 5) = NoOp /\ Deep(t, 6) = NoOp
  BY <1>8 DEF Laid, Depths, Layers
<1>10. h \in Regs /\ h.ip = None BY <1>4, <1>5 DEF Rests
<1>11. RegsOK(t, h) BY <1>7, <1>9, <1>10, Six DEF RegsOK, NoOp, Op
<1>12. /\ ~InTransaction(t) /\ Closing(t) = f
       /\ Main(t, h) = None /\ Dying(t) = None /\ Fresh(t, h) = None /\ NextCwd(t, h) = None
       /\ CwdOwn(t, c) = c /\ ~Closed(t, h) /\ ~Busy(t)
  BY <1>7, <1>9, <1>10
  DEF InTransaction, Closing, Main, Dying, Fresh, NextCwd, CwdOwn, Closed, Leaving, Busy, NoOp, Op, Putting
<1>14. Known(t, h, c) BY <1>4, <1>9, <1>12 DEF Known, Rests, NoOp, Op
<1>15. ASSUME NEW j \in Inum PROVE Total(t, h, c, j) = Total(s, g, c, j)
  <2>1. \A m \in 1 .. 6 : OpOwn(t, m) = None BY <1>7, <1>9, Six DEF OpOwn, NoOp, Op, Owning, Putting
  <2>2. IpOwn(t, h) = None /\ OldOwn(t, h) = None /\ DpOwn(t, h) = None
    BY <1>7, <1>9 DEF IpOwn, OldOwn, DpOwn, NoOp, Op
  <2>3. Is(None, j) = 0 BY Constants DEF Is
  <2>4. /\ OpOwn(t, 1) = None /\ OpOwn(t, 2) = None /\ OpOwn(t, 3) = None
        /\ OpOwn(t, 4) = None /\ OpOwn(t, 5) = None /\ OpOwn(t, 6) = None
    BY <2>1
  <2>5. Is(c, j) \in Nat BY DEF Is
  <2>6. Total(t, h, c, j) = Is(c, j) BY <1>12, <2>2, <2>3, <2>4, <2>5 DEF Total
  <2>. QED BY <1>4, <2>6 DEF Rests
<1>16. Transacting
  <2>1. InTransaction(k[p]) <=> InTransaction(k'[p]) BY <1>1, <1>4, <1>12 DEF Rests
  <2>. QED BY <1>2, <1>5, <2>1, Stays
<1>18. Describing
  <2>1. Closing(k[p]) = None /\ Closing(k'[p]) = ofile[p][fd] BY <1>1, <1>4, <1>12 DEF Rests
  <2>. QED BY <1>2, <1>5, <2>1, Leaves
<1>19. /\ \A q \in Proc \ {p} : ofile'[q] = ofile[q]
       /\ ofile' \in [Proc -> [Fd -> File \cup {None}]]
  <2>1. ofile \in [Proc -> [Fd -> File \cup {None}]] BY Parts DEF TypeOK
  <2>. QED BY <1>2, <2>1
<1>20. Filing(p) /\ BlocksOwned' BY <1>2, Parts, SameFiling DEF BlocksOwned
<1>17. Handles(p, s, g, t, h, c)
  BY <1>1, <1>2, <1>3, <1>4, <1>5, <1>7, <1>9, <1>11, <1>12, <1>14, <1>15, <1>16, <1>18, <1>19, <1>20 DEF Handles, Rests
<1>. QED BY <1>17, HandlesStep

\* The references to an open file change, and nothing else of it.
Recounts(f, v) == file' = [file EXCEPT ![f].ref = v]

LEMMA Recounted ==
    ASSUME FsInv, NEW f \in File, NEW v \in Nat, v # 0, file[f].ip # None, Recounts(f, v)
    PROVE  /\ file' \in [File -> [ref : Nat, ip : Inum \cup {None}, off : 0 .. MAXFILE, writable : BOOLEAN]]
           /\ \A e \in File : /\ file'[e].ip = file[e].ip /\ file'[e].writable = file[e].writable
                              /\ file'[e].ref = IF e = f THEN v ELSE file[e].ref
           /\ \A e \in File : IF file'[e].ref = 0 THEN file'[e] = NoFile ELSE file'[e].ip # None
<1>1. file \in [File -> [ref : Nat, ip : Inum \cup {None}, off : 0 .. MAXFILE, writable : BOOLEAN]]
  BY Parts DEF TypeOK
<1>2. PICK new : new = [file[f] EXCEPT !.ref = v] OBVIOUS
<1>3. file[f] \in [ref : Nat, ip : Inum \cup {None}, off : 0 .. MAXFILE, writable : BOOLEAN] BY <1>1
<1>4. /\ new \in [ref : Nat, ip : Inum \cup {None}, off : 0 .. MAXFILE, writable : BOOLEAN]
      /\ new.ref = v /\ new.ip = file[f].ip /\ new.writable = file[f].writable
  BY <1>2, <1>3
<1>5. file' = [file EXCEPT ![f] = new] BY <1>2 DEF Recounts
<1>6. \A e \in File : file'[e] = IF e = f THEN new ELSE file[e] BY <1>1, <1>5
<1>7. file' \in [File -> [ref : Nat, ip : Inum \cup {None}, off : 0 .. MAXFILE, writable : BOOLEAN]]
  BY <1>1, <1>4, <1>5
<1>8. \A e \in File : IF file[e].ref = 0 THEN file[e] = NoFile ELSE file[e].ip # None
  BY Parts DEF Counts
<1>. QED BY <1>4, <1>6, <1>7, <1>8

\* The slot of the file that a process closes.
LEMMA ClosingSlot ==
    ASSUME FsInv, NEW p \in Proc, Only(p), UNCHANGED ofile
    PROVE  /\ NOFILE \in 0 .. NOFILE /\ OneSlot(p, NOFILE)
           /\ Descriptors[<<p, NOFILE>>] = Closing(k[p]) /\ Descriptors'[<<p, NOFILE>>] = Closing(k'[p])
<1>1. NOFILE \in Nat BY Constants
<1>2. NOFILE \in 0 .. NOFILE /\ ~(NOFILE < NOFILE) BY <1>1
<1>3. Descriptors[<<p, NOFILE>>] = Closing(k[p]) /\ Descriptors'[<<p, NOFILE>>] = Closing(k'[p])
  BY <1>2 DEF Descriptors
<1>4. ASSUME NEW x \in Proc \X (0 .. NOFILE), x # <<p, NOFILE>>
      PROVE  Descriptors'[x] = Descriptors[x]
  <2>1. x = <<x[1], x[2]>> /\ x[1] \in Proc /\ x[2] \in 0 .. NOFILE OBVIOUS
  <2>2. CASE x[2] < NOFILE BY <2>2 DEF Descriptors
  <2>3. CASE ~(x[2] < NOFILE)
    <3>1. x[2] = NOFILE BY <1>1, <2>1, <2>3
    <3>2. Descriptors'[x] = Closing(k'[x[1]]) /\ Descriptors[x] = Closing(k[x[1]])
      BY <2>3 DEF Descriptors
    <3>3. x[1] # p BY <1>4, <2>1, <3>1
    <3>. QED BY <2>1, <3>2, <3>3 DEF Only
  <2>. QED BY <2>2, <2>3
<1>. QED BY <1>2, <1>3, <1>4 DEF OneSlot

\* dup() of a descriptor.
LEMMA SysDupStep == ASSUME FsInv, NEW p \in Proc, NEW fd \in Fd, sys_dup(p, fd) PROVE FsInv'
<1>1. PICK s, g, c, f, n, v : /\ s = k[p] /\ g = r[p] /\ c = cwd[p] /\ f = ofile[p][fd]
                              /\ n = Min(FreeFds(p)) /\ v = file[f].ref + 1
  OBVIOUS
<1>2. /\ s = <<>> /\ f # None /\ FreeFds(p) # {} /\ UNCHANGED <<d, outstanding, ref, valid, lock, cwd, k, r>>
      /\ Holds(p, n, f) /\ Recounts(f, v)
  BY <1>1 DEF sys_dup, Idle, Holds, Recounts
<1>3. f \in File /\ file[f].ref \in Nat /\ file[f].ip \in Inum /\ c # None BY <1>1, <1>2, OpenFd
<1>4. n \in Fd /\ ofile[p][n] = None
  <2>1. FreeFds(p) \in SUBSET Nat BY Constants DEF FreeFds
  <2>2. n \in FreeFds(p) BY <1>1, <1>2, <2>1, MinIn
  <2>. QED BY <2>2 DEF FreeFds
<1>5. Rests(p, s, g, c) BY <1>1, <1>2, Resting
<1>6. Only(p) /\ k'[p] = s /\ r'[p] = g BY <1>1, <1>2, Here DEF Only
<1>7. v \in Nat /\ v # 0 /\ file[f].ip # None BY <1>1, <1>3, Constants
<1>8. /\ file' \in [File -> [ref : Nat, ip : Inum \cup {None}, off : 0 .. MAXFILE, writable : BOOLEAN]]
      /\ \A e \in File : /\ file'[e].ip = file[e].ip /\ file'[e].writable = file[e].writable
                         /\ file'[e].ref = IF e = f THEN v ELSE file[e].ref
      /\ \A e \in File : IF file'[e].ref = 0 THEN file'[e] = NoFile ELSE file'[e].ip # None
  BY <1>2, <1>3, <1>7, Recounted
<1>9. /\ n \in 0 .. NOFILE /\ Descriptors[<<p, n>>] = None /\ Descriptors'[<<p, n>>] = f /\ OneSlot(p, n)
      /\ \A q \in Proc \ {p} : ofile'[q] = ofile[q]
      /\ ofile' \in [Proc -> [Fd -> File \cup {None}]]
  <2>1. Closing(k'[p]) = Closing(k[p]) BY <1>1, <1>6
  <2>2. f \in File \cup {None} BY <1>3
  <2>3. Settles(p, n, f) BY <1>2, <1>4, <1>6, <2>1, <2>2, SlotPlaced
  <2>. QED BY <1>4, <2>3 DEF Settles
<1>10. PICK none : none = None OBVIOUS
<1>11. Tallied(p, n, none, f)
  <2>1. ASSUME NEW e \in File PROVE file'[e].ref + Is(none, e) = file[e].ref + Is(f, e)
    <3>1. none # e BY <1>10, Constants
    <3>2. file[e].ref \in Nat BY Parts DEF TypeOK
    <3>. QED BY <1>1, <1>8, <3>1, <3>2 DEF Is
  <2>. QED BY <1>8, <1>9, <1>10, <2>1 DEF Tallied
<1>12. Describing BY <1>9, <1>11, TalliedOne
<1>13. Transacting BY <1>1, <1>2, <1>6, Stays
<1>14. Filing(p) /\ BlocksOwned'
  <2>1. \A e \in File : file'[e].ip = file[e].ip /\ (file'[e].writable => file[e].writable) BY <1>8
  <2>2. Filing(p) BY <1>2, <2>1, SameFiling
  <2>. QED BY <1>2, <2>2, Parts DEF BlocksOwned
<1>15. StackOK(s) /\ RegsOK(s, g) /\ Known(s, g, c) BY <1>1, Here
<1>16. Deep(s, 1).op # "fileclose" /\ ~Closed(s, g) /\ ~Busy(s)
  BY <1>5 DEF Rests, NoOp, Op, Closed, Leaving, Busy
<1>17. Handles(p, s, g, s, g, c)
  BY <1>1, <1>2, <1>3, <1>5, <1>6, <1>8, <1>9, <1>12, <1>13, <1>14, <1>15, <1>16 DEF Handles, Rests
<1>. QED BY <1>17, HandlesStep

\* The invariant does not depend on panics or on what is run.
LEMMA SameState ==
    ASSUME FsInv, UNCHANGED <<d, outstanding, ref, valid, lock, file, ofile, cwd, k, r>>
    PROVE  FsInv'
<1>1. UNCHANGED <<d, outstanding, ref, valid, lock, file, ofile, cwd, k, r>> OBVIOUS
<1>2. TypeOK' BY <1>1, Parts DEF TypeOK
<1>3. Local' BY <1>1, Parts DEF Local, FileOK
<1>4. Counts'
  <2>1. Owned' = Owned BY <1>1 DEF Owned
  <2>2. Descriptors' = Descriptors BY <1>1 DEF Descriptors
  <2>. QED BY <1>1, <2>1, <2>2, Parts DEF Counts, Count
<1>5. Locks' BY <1>1, Parts DEF Locks
<1>6. InUse' BY <1>1, Parts DEF InUse, Known, Forgotten, Type, IsDir
<1>7. BlocksOwned' BY <1>1, Parts DEF BlocksOwned
<1>. QED BY <1>2, <1>3, <1>4, <1>5, <1>6, <1>7 DEF FsInv

\* A panic stops everything as it is.
LEMMA PanicStep == ASSUME FsInv, NEW p \in Proc, panic(p) PROVE FsInv'
BY SameState DEF panic

\* The offset of an open file is set, and nothing else of it.
Seeks(f, v) == file' = [file EXCEPT ![f].off = v]

LEMMA Seeking ==
    ASSUME FsInv, NEW p \in Proc, Only(p), UNCHANGED ofile, Closing(k[p]) = None, Closing(k'[p]) = None,
           NEW f \in File, NEW v \in 0 .. MAXFILE, file[f].ref # 0, Seeks(f, v)
    PROVE  /\ Describing
           /\ \A e \in File : /\ file'[e].ip = file[e].ip /\ file'[e].writable = file[e].writable
                              /\ file'[e].off = IF e = f THEN v ELSE file[e].off
<1>1. file \in [File -> [ref : Nat, ip : Inum \cup {None}, off : 0 .. MAXFILE, writable : BOOLEAN]]
  BY Parts DEF TypeOK
<1>2. PICK new : new = [file[f] EXCEPT !.off = v] OBVIOUS
<1>3. file[f] \in [ref : Nat, ip : Inum \cup {None}, off : 0 .. MAXFILE, writable : BOOLEAN] BY <1>1
<1>4. /\ new \in [ref : Nat, ip : Inum \cup {None}, off : 0 .. MAXFILE, writable : BOOLEAN]
      /\ new.off = v /\ new.ip = file[f].ip /\ new.writable = file[f].writable /\ new.ref = file[f].ref
  BY <1>2, <1>3
<1>5. file' = [file EXCEPT ![f] = new] BY <1>2 DEF Seeks
<1>6. \A e \in File : file'[e] = IF e = f THEN new ELSE file[e] BY <1>1, <1>5
<1>7. file' \in [File -> [ref : Nat, ip : Inum \cup {None}, off : 0 .. MAXFILE, writable : BOOLEAN]]
  BY <1>1, <1>4, <1>5
<1>8. \A e \in File : IF file[e].ref = 0 THEN file[e] = NoFile ELSE file[e].ip # None
  BY Parts DEF Counts
<1>9. \A e \in File : IF file'[e].ref = 0 THEN file'[e] = NoFile ELSE file'[e].ip # None
  BY <1>4, <1>6, <1>8
<1>10. PICK none : none = None OBVIOUS
<1>11. /\ NOFILE \in 0 .. NOFILE /\ OneSlot(p, NOFILE)
       /\ none = Descriptors[<<p, NOFILE>>] /\ none = Descriptors'[<<p, NOFILE>>]
  BY <1>10, ClosingSlot
<1>12. \A e \in File : file'[e].ref + Is(none, e) = file[e].ref + Is(none, e) BY <1>4, <1>6
<1>13. Tallied(p, NOFILE, none, none) BY <1>7, <1>9, <1>11, <1>12 DEF Tallied
<1>14. Describing BY <1>11, <1>13, TalliedOne
<1>. QED BY <1>4, <1>6, <1>14

\* fileclose() of a file that others have open too.
LEMMA CloseSharedStep ==
    ASSUME FsInv, NEW p \in Proc, fileclose(p), file[Head(k[p]).ip].ref > 1 PROVE FsInv'
<1>1. PICK s, g, L, c, t, h, f, v : /\ s = k[p] /\ g = r[p] /\ L = Len(s) /\ c = cwd[p]
                                    /\ t = k'[p] /\ h = r'[p] /\ f = Head(s).ip /\ v = file[f].ref - 1
  OBVIOUS
<1>2. /\ s # <<>> /\ L \in 1 .. 6 /\ Deep(s, L).op = "fileclose" /\ Head(s).op = "fileclose"
      /\ Fits("fileclose", L, Deep(s, L - 1).op) /\ OpOK(Head(s))
  BY <1>1, AtOp DEF fileclose
<1>3. StackOK(s) /\ RegsOK(s, g) /\ Layers(s, L) /\ g \in Regs /\ Known(s, g, c) /\ c \in Inum
  BY <1>1, <1>2, Here
<1>4. L = 1 \/ (L = 5 /\ Deep(s, 4).op = "exit_files")
  BY <1>2, <1>3 DEF Layers, Layer, Fits, Putting
<1>5. f \in File BY <1>1, <1>2 DEF OpOK, Owning, Naming, Putting
<1>6. Closing(s) = f BY <1>1, <1>2 DEF Closing
<1>7. file[f].ref > 1 /\ file[f].ref \in Nat BY <1>1, <1>5, Parts DEF TypeOK
<1>8. /\ UNCHANGED <<d, ref, valid, lock, ofile, cwd, r, outstanding>>
      /\ Continue(p, <<>>) /\ Recounts(f, v)
  BY <1>1, <1>7 DEF fileclose, Recounts
<1>9. v \in Nat /\ v # 0 /\ file[f].ip # None
  <2>1. IF file[f].ref = 0 THEN file[f] = NoFile ELSE file[f].ip # None BY <1>5, Parts DEF Counts
  <2>. QED BY <1>1, <1>7, <2>1
<1>10. /\ file' \in [File -> [ref : Nat, ip : Inum \cup {None}, off : 0 .. MAXFILE, writable : BOOLEAN]]
       /\ \A e \in File : /\ file'[e].ip = file[e].ip /\ file'[e].writable = file[e].writable
                          /\ file'[e].ref = IF e = f THEN v ELSE file[e].ref
       /\ \A e \in File : IF file'[e].ref = 0 THEN file'[e] = NoFile ELSE file'[e].ip # None
  BY <1>5, <1>8, <1>9, Recounted
<1>11. Regular(p) /\ h = g BY <1>1, <1>8 DEF Regular
<1>12. Next0(p, s, t, L) BY <1>1, <1>2, <1>8, <1>11 DEF Next0
<1>13. Only(p) BY <1>12, ToNext0
<1>14. StackOK(t) /\ Layers(t, L - 1) /\ \A m \in 1 .. 6 : Deep(t, m) = IF m = L THEN NoOp ELSE Deep(s, m)
  BY <1>12, ToNext0
<1>15. /\ Deep(t, 1) = (IF L = 1 THEN NoOp ELSE Deep(s, 1)) /\ Deep(t, 2) = Deep(s, 2)
       /\ Deep(t, 3) = Deep(s, 3) /\ Deep(t, 4) = Deep(s, 4)
       /\ Deep(t, 5) = (IF L = 5 THEN NoOp ELSE Deep(s, 5)) /\ Deep(t, 6) = Deep(s, 6)
  BY <1>4, <1>14, Six
<1>16. RegsOK(t, h)
  <2>1. CASE L = 1
    <3>1. t = <<>> BY <1>14, <2>1 DEF Layers
    <3>2. g = NoRegs BY <1>1, <1>2, <2>1, Parts DEF Local
    <3>. QED BY <3>1, <3>2, <1>11, EmptyStack
  <2>2. CASE L # 1
    BY <1>2, <1>3, <1>4, <1>11, <1>14, <1>15, <2>2, Six, Constants DEF RegsOK, Layers, Layer, Fits, NoOp, Op, Putting
  <2>. QED BY <2>1, <2>2
<1>17. /\ ~InTransaction(s) /\ ~InTransaction(t) /\ ~Busy(t) /\ ~Closed(t, h)
       /\ Closing(t) = None /\ Deep(t, 1).op # "fileclose"
       /\ Dying(s) = None /\ Dying(t) = None /\ Main(t, h) = Main(s, g) 
       /\ NextCwd(t, h) = NextCwd(s, g) /\ Fresh(t, h) = None /\ CwdOwn(t, c) = CwdOwn(s, c)
  BY <1>2, <1>3, <1>4, <1>11, <1>14, <1>15, EmptyStack DEF Layers, Layer, Fits, NoOp, Op, Putting, 
     InTransaction, Busy, Closed, Leaving, Closing, Main, Dying, NextCwd, Fresh, CwdOwn
<1>18. Transacting BY <1>1, <1>8, <1>13, <1>17, Stays
<1>19. Known(t, h, c)
  <2>1. Deep(t, 2).op = "open_file" => Deep(s, 2).op = "open_file" /\ h = g BY <1>11, <1>15
  <2>. QED BY <1>3, <1>17, <2>1 DEF Known
<1>20. ASSUME NEW j \in Inum PROVE Total(t, h, c, j) = Total(s, g, c, j)
  <2>1. \A m \in 1 .. 6 : OpOwn(t, m) = OpOwn(s, m)
    BY <1>2, <1>4, <1>14, Six DEF OpOwn, Owning, Putting, NoOp, Op
  <2>2. IpOwn(t, h) = IpOwn(s, g) /\ OldOwn(t, h) = OldOwn(s, g) /\ DpOwn(t, h) = DpOwn(s, g)
    BY <1>2, <1>3, <1>4, <1>11, <1>14, <1>15 DEF IpOwn, OldOwn, DpOwn, Layers, Layer, Fits, NoOp, Op, Putting
  <2>. QED BY <1>17, <2>1, <2>2, Six DEF Total
<1>21. c # None BY <1>3, Constants
<1>22. PICK none : none = None OBVIOUS
<1>23. Describing
  <2>1. /\ NOFILE \in 0 .. NOFILE /\ OneSlot(p, NOFILE)
        /\ f = Descriptors[<<p, NOFILE>>] /\ none = Descriptors'[<<p, NOFILE>>]
    BY <1>1, <1>6, <1>8, <1>13, <1>17, <1>22, ClosingSlot
  <2>2. ASSUME NEW e \in File PROVE file'[e].ref + Is(f, e) = file[e].ref + Is(none, e)
    <3>1. none # e BY <1>22, Constants
    <3>2. file[e].ref \in Nat BY Parts DEF TypeOK
    <3>. QED BY <1>1, <1>10, <3>1, <3>2 DEF Is
  <2>3. Tallied(p, NOFILE, f, none) BY <1>10, <2>1, <2>2 DEF Tallied
  <2>. QED BY <2>1, <2>3, TalliedOne
<1>24. Filing(p) /\ BlocksOwned'
  <2>1. \A e \in File : file'[e].ip = file[e].ip /\ (file'[e].writable => file[e].writable) BY <1>10
  <2>2. Filing(p) BY <1>8, <2>1, SameFiling
  <2>. QED BY <1>8, <2>2, Parts DEF BlocksOwned
<1>25. ofile \in [Proc -> [Fd -> File \cup {None}]] BY Parts DEF TypeOK
<1>26. Handles(p, s, g, t, h, c)
  BY <1>1, <1>8, <1>10, <1>13, <1>14, <1>16, <1>17, <1>18, <1>19, <1>20, <1>21, <1>23, <1>24, <1>25 DEF Handles
<1>. QED BY <1>26, HandlesStep

\* The lock is held no longer than the step takes.
LEMMA Touched ==
    ASSUME FsInv, NEW p \in Proc, NEW i \in Inum, Type(i) # "none", lock[i] = None,
           ilock(p, i, FALSE, None)
    PROVE  /\ UNCHANGED <<ref, lock>> /\ valid' \in [Inum -> BOOLEAN]
           /\ \A j \in Inum : valid'[j] => Type(j) # "none"
<1>1. lock \in [Inum -> Proc \cup {None}] /\ lock' = [lock EXCEPT ![i] = None]
  BY Parts DEF TypeOK, ilock
<1>2. lock' = lock BY <1>1
<1>3. ref' = ref BY DEF ilock
<1>4. None \in Inum \cup {None} OBVIOUS
<1>5. Cached(p, i, FALSE, None) BY <1>4, Ilocked
<1>. QED BY <1>2, <1>3, <1>5 DEF Cached

\* writei() of a block, at the end of the file or before.
LEMMA WriteStep == ASSUME FsInv, NEW p \in Proc, write(p) PROVE FsInv'
<1>1. PICK s, g, L, c, t, h, f, i : /\ s = k[p] /\ g = r[p] /\ L = Len(s) /\ c = cwd[p]
                                    /\ t = k'[p] /\ h = r'[p] /\ f = g.file /\ i = Target(p)
  OBVIOUS
<1>2. /\ s # <<>> /\ Deep(s, L).op = "write" /\ i \in Inum /\ i = Head(s).ip /\ Head(s).op = "write"
      /\ Type(i) # "none" /\ lock[i] = None /\ Fits("write", L, Deep(s, L - 1).op)
  <2>1. At(p, "write") /\ CanLock(p, "write") BY LockAt DEF write
  <2>2. Type(i) # "none" /\ lock[i] = None /\ i \in Inum BY <2>1, <1>1, LockAt
  <2>3. "write" \in Owning \cup Naming BY DEF Naming
  <2>. QED BY <2>1, <2>2, <2>3, <1>1, AtOp
<1>3. StackOK(s) /\ RegsOK(s, g) /\ Layers(s, L) /\ g \in Regs /\ Known(s, g, c) /\ c \in Inum
  BY <1>1, <1>2, Here
<1>4. L = 2 /\ Deep(s, 1).op = "end_op" /\ Deep(s, 2).op = "write"
      /\ Deep(s, 3) = NoOp /\ Deep(s, 4) = NoOp /\ Deep(s, 5) = NoOp /\ Deep(s, 6) = NoOp
  BY <1>2, <1>3 DEF Layers, Layer, Fits, Putting
<1>5. Busy(s) BY <1>4 DEF Busy
<1>6. f \in File /\ file[f].ip = i /\ file[f].writable BY <1>1, <1>2, <1>4, <1>5, Parts DEF Local, FileOK
<1>7. file[f].ref # 0 BY <1>1, <1>5, BusyOpen
<1>8. i # None /\ Type(i) # "dir" BY <1>2, <1>6, Constants, Parts DEF InUse
<1>9. /\ UNCHANGED <<outstanding, ofile, cwd, r>> /\ Continue(p, <<>>) /\ ilock(p, i, FALSE, None)
      /\ d' = IF Grows(p) THEN Appended(i) ELSE d
      /\ IF OnDisk(p) /\ file[f].off < MAXFILE THEN file' = [file EXCEPT ![f].off = @ + 1] ELSE UNCHANGED file
  BY <1>1 DEF write
<1>10. file \in [File -> [ref : Nat, ip : Inum \cup {None}, off : 0 .. MAXFILE, writable : BOOLEAN]]
  BY Parts DEF TypeOK
<1>11. PICK v : v = IF OnDisk(p) /\ file[f].off < MAXFILE THEN file[f].off + 1 ELSE file[f].off OBVIOUS
<1>12. v \in 0 .. MAXFILE /\ Seeks(f, v)
  <2>1. file[f].off \in 0 .. MAXFILE /\ MAXFILE \in Nat BY <1>6, <1>10, Constants
  <2>2. v \in 0 .. MAXFILE BY <2>1, <1>11
  <2>3. CASE OnDisk(p) /\ file[f].off < MAXFILE BY <1>9, <1>11, <2>3, <2>2 DEF Seeks
  <2>4. CASE ~(OnDisk(p) /\ file[f].off < MAXFILE)
    <3>1. file' = file /\ v = file[f].off BY <1>9, <1>11, <2>4
    <3>2. [file EXCEPT ![f].off = v] = file
      <4>1. file[f] \in [ref : Nat, ip : Inum \cup {None}, off : 0 .. MAXFILE, writable : BOOLEAN]
        BY <1>6, <1>10
      <4>2. [file[f] EXCEPT !.off = v] = file[f] BY <3>1, <4>1
      <4>. QED BY <1>10, <4>2
    <3>3. file' = [file EXCEPT ![f].off = v] BY <3>1, <3>2, Zenon
    <3>. QED BY <2>2, <3>3, Zenon DEF Seeks
  <2>. QED BY <2>2, <2>3, <2>4
<1>13. UNCHANGED <<ref, lock>> /\ valid' \in [Inum -> BOOLEAN] /\ \A j \in Inum : valid'[j] => Type(j) # "none"
  BY <1>2, <1>9, Touched
<1>14. Regular(p) /\ h = g BY <1>1, <1>9 DEF Regular
<1>15. Next0(p, s, t, L) BY <1>1, <1>2, <1>9, <1>14 DEF Next0
<1>16. Only(p) BY <1>15, ToNext0
<1>17. StackOK(t) /\ Layers(t, L - 1) /\ \A m \in 1 .. 6 : Deep(t, m) = IF m = L THEN NoOp ELSE Deep(s, m)
  BY <1>15, ToNext0
<1>18. /\ Deep(t, 1) = Deep(s, 1) /\ Deep(t, 2) = NoOp /\ Deep(t, 3) = NoOp
       /\ Deep(t, 4) = NoOp /\ Deep(t, 5) = NoOp /\ Deep(t, 6) = NoOp
  BY <1>4, <1>17, Six
<1>19. RegsOK(t, h)
  BY <1>2, <1>3, <1>4, <1>14, <1>17, <1>18, Six, Constants DEF RegsOK, Layers, Layer, Fits, NoOp, Op, Putting
<1>20. /\ InTransaction(s) /\ InTransaction(t) /\ ~Busy(t) /\ ~Closed(t, h)
       /\ Closing(s) = None /\ Closing(t) = None /\ Deep(t, 1).op # "fileclose"
       /\ Dying(s) = None /\ Dying(t) = None /\ Main(t, h) = Main(s, g) 
       /\ NextCwd(t, h) = NextCwd(s, g) /\ Fresh(t, h) = None /\ CwdOwn(t, c) = CwdOwn(s, c)
  BY <1>2, <1>3, <1>4, <1>14, <1>17, <1>18 DEF Layers, Layer, Fits, NoOp, Op, Putting, 
     InTransaction, Busy, Closed, Leaving, Closing, Main, Dying, NextCwd, Fresh, CwdOwn
<1>21. Transacting BY <1>1, <1>9, <1>16, <1>20, Stays
<1>22. Known(t, h, c) BY <1>3, <1>18, <1>20 DEF Known, NoOp, Op
<1>23. ASSUME NEW j \in Inum PROVE Total(t, h, c, j) = Total(s, g, c, j)
  <2>1. \A m \in 1 .. 6 : OpOwn(t, m) = OpOwn(s, m)
    BY <1>2, <1>4, <1>17, Six DEF OpOwn, Owning, Putting, NoOp, Op
  <2>2. IpOwn(t, h) = IpOwn(s, g) /\ OldOwn(t, h) = OldOwn(s, g) /\ DpOwn(t, h) = DpOwn(s, g)
    BY <1>4, <1>14, <1>18 DEF IpOwn, OldOwn, DpOwn, NoOp, Op
  <2>. QED BY <1>20, <2>1, <2>2, Six DEF Total
<1>24. c # None BY <1>3, Constants
<1>25. /\ Describing
       /\ \A e \in File : file'[e].ip = file[e].ip /\ file'[e].writable = file[e].writable
  BY <1>1, <1>6, <1>7, <1>9, <1>12, <1>16, <1>20, Seeking
<1>26. /\ d' \in Disks /\ BlocksOwned'
       /\ \A j \in Inum : /\ d'.ino[j].type = d.ino[j].type
                          /\ Type(j) = "dir" => d'.ino[j].addrs = d.ino[j].addrs
                          /\ Type(j) = "none" => d'.ino[j] = d.ino[j] /\ d'.ent[j] = d.ent[j]
  <2>1. CASE Grows(p)
    <3>1. Block \ d.used # {}
      <4>1. Why(p) = "no" /\ Head(k[p]).op = "write" BY <1>1, <1>2 DEF write, CanLock
      <4>. QED BY <2>1, <4>1 DEF Why
    <3>2. Len(d.ino[i].addrs) < MAXFILE BY <1>1, <2>1 DEF Grows, AtEnd
    <3>3. d' = Appended(i) BY <1>9, <2>1
    <3>4. /\ d' \in Disks /\ BlocksOwned' /\ d'.ent = d.ent
          /\ \A j \in Inum : d'.ino[j].type = d.ino[j].type /\ (j # i => d'.ino[j] = d.ino[j])
      BY <1>2, <3>1, <3>2, <3>3, Parts, OneMoreBlock
    <3>. QED BY <1>2, <1>8, <3>4 DEF Type
  <2>2. CASE ~Grows(p)
    <3>1. d' = d BY <1>9, <2>2
    <3>. QED BY <3>1, Parts DEF TypeOK, BlocksOwned
  <2>. QED BY <2>1, <2>2
<1>27. Filing(p) BY <1>13, <1>25, <1>26 DEF Filing
<1>28. ofile \in [Proc -> [Fd -> File \cup {None}]] BY Parts DEF TypeOK
<1>29. Handles(p, s, g, t, h, c)
  BY <1>1, <1>9, <1>13, <1>16, <1>17, <1>19, <1>20, <1>21, <1>22, <1>23, <1>24, <1>25, <1>26, <1>27, <1>28 DEF Handles
<1>. QED BY <1>29, HandlesStep

\* A file is no longer than it may be, and none is open beyond its end.
Offsets ==
    /\ \A i \in Inum : Len(d.ino[i].addrs) <= MAXFILE
    /\ \A f \in File : file[f].ip # None /\ Type(file[f].ip) # "dev" =>
          file[f].off <= Len(d.ino[file[f].ip].addrs)

\* The length of what inode i has on the disk.
LEMMA Lengths == TypeOK => \A i \in Inum : Len(d.ino[i].addrs) \in Nat
<1>. SUFFICES ASSUME TypeOK, NEW i \in Inum PROVE Len(d.ino[i].addrs) \in Nat OBVIOUS
<1>1. d.ino[i].addrs \in Addrs BY DiskParts DEF TypeOK, Inodes
<1>2. PICK n \in 0 .. MAXFILE + 1 : d.ino[i].addrs \in [1 .. n -> Block] BY <1>1 DEF Addrs
<1>3. n \in Nat BY Constants
<1>4. d.ino[i].addrs \in Seq(Block) BY <1>2, <1>3
<1>. QED BY <1>4, LenProperties

\* readi() of a block, not beyond the end.
LEMMA ReadStep == ASSUME FsInv, Offsets, NEW p \in Proc, read(p) PROVE FsInv'
<1>1. PICK s, g, L, c, t, h, f, i : /\ s = k[p] /\ g = r[p] /\ L = Len(s) /\ c = cwd[p]
                                    /\ t = k'[p] /\ h = r'[p] /\ f = g.file /\ i = Target(p)
  OBVIOUS
<1>2. /\ s # <<>> /\ Deep(s, L).op = "read" /\ i \in Inum /\ i = Head(s).ip /\ Head(s).op = "read"
      /\ Type(i) # "none" /\ lock[i] = None /\ Fits("read", L, Deep(s, L - 1).op)
  <2>1. At(p, "read") /\ CanLock(p, "read") BY LockAt DEF read
  <2>2. Type(i) # "none" /\ lock[i] = None /\ i \in Inum BY <2>1, <1>1, LockAt
  <2>3. "read" \in Owning \cup Naming BY DEF Naming
  <2>. QED BY <2>1, <2>2, <2>3, <1>1, AtOp
<1>3. StackOK(s) /\ RegsOK(s, g) /\ Layers(s, L) /\ g \in Regs /\ Known(s, g, c) /\ c \in Inum
  BY <1>1, <1>2, Here
<1>4. L = 1 /\ Deep(s, 1).op = "read" /\ Deep(s, 2) = NoOp
      /\ Deep(s, 3) = NoOp /\ Deep(s, 4) = NoOp /\ Deep(s, 5) = NoOp /\ Deep(s, 6) = NoOp
  BY <1>2, <1>3 DEF Layers, Layer, Fits, Putting
<1>5. Busy(s) BY <1>4 DEF Busy
<1>6. f \in File /\ file[f].ip = i BY <1>1, <1>2, <1>5, Parts DEF Local, FileOK
<1>7. file[f].ref # 0 BY <1>1, <1>5, BusyOpen
<1>8. i # None BY <1>2, Constants
<1>9. /\ UNCHANGED <<d, outstanding, ofile, cwd>> /\ Continue(p, <<>>) /\ ilock(p, i, FALSE, None)
      /\ r' = [r EXCEPT ![p] = NoRegs]
      /\ file' = [file EXCEPT ![f].off = IF AtEnd(p) \/ ~OnDisk(p) THEN @ ELSE @ + 1]
  BY <1>1 DEF read
<1>10. file \in [File -> [ref : Nat, ip : Inum \cup {None}, off : 0 .. MAXFILE, writable : BOOLEAN]]
  BY Parts DEF TypeOK
<1>11. PICK v : v = IF AtEnd(p) \/ ~OnDisk(p) THEN file[f].off ELSE file[f].off + 1 OBVIOUS
<1>12. v \in 0 .. MAXFILE /\ Seeks(f, v)
  <2>1. file[f].off \in 0 .. MAXFILE /\ MAXFILE \in Nat BY <1>6, <1>10, Constants
  <2>2. CASE AtEnd(p) \/ ~OnDisk(p) BY <2>1, <1>9, <1>11, <2>2 DEF Seeks
  <2>3. CASE ~(AtEnd(p) \/ ~OnDisk(p))
    <3>1. file[f].off # Len(d.ino[i].addrs) /\ Type(i) # "dev"
      BY <1>1, <2>3 DEF AtEnd, OnDisk, Type
    <3>2. file[f].off <= Len(d.ino[i].addrs) /\ Len(d.ino[i].addrs) <= MAXFILE
      BY <1>2, <1>6, <1>8, <3>1 DEF Offsets
    <3>3. Len(d.ino[i].addrs) \in Nat BY <1>2, Parts, Lengths
    <3>4. file[f].off + 1 \in 0 .. MAXFILE BY <2>1, <3>1, <3>2, <3>3
    <3>. QED BY <1>9, <1>11, <2>3, <3>4 DEF Seeks
  <2>. QED BY <2>2, <2>3
<1>13. UNCHANGED <<ref, lock>> /\ valid' \in [Inum -> BOOLEAN] /\ \A j \in Inum : valid'[j] => Type(j) # "none"
  BY <1>2, <1>9, Touched
<1>14. Regular(p) /\ h = NoRegs BY <1>1, <1>9, Here DEF Regular
<1>15. Next0(p, s, t, L) BY <1>1, <1>2, <1>9, <1>14 DEF Next0
<1>16. Only(p) BY <1>15, ToNext0
<1>17. StackOK(t) /\ Layers(t, 0) /\ \A m \in 1 .. 6 : Deep(t, m) = NoOp
  <2>1. StackOK(t) /\ Layers(t, L - 1) /\ \A m \in 1 .. 6 : Deep(t, m) = IF m = L THEN NoOp ELSE Deep(s, m)
    BY <1>15, ToNext0
  <2>2. L - 1 = 0 BY <1>4
  <2>. QED BY <2>1, <2>2, <1>4, Six
<1>18. /\ t = <<>> /\ Deep(t, 1) = NoOp /\ Deep(t, 2) = NoOp /\ Deep(t, 3) = NoOp
       /\ Deep(t, 4) = NoOp /\ Deep(t, 5) = NoOp /\ Deep(t, 6) = NoOp
  BY <1>17, Six DEF Layers
<1>19. RegsOK(t, h) BY <1>14, <1>18, EmptyStack
<1>20. /\ ~InTransaction(s) /\ ~InTransaction(t) /\ ~Busy(t) /\ ~Closed(t, h)
       /\ Closing(s) = None /\ Closing(t) = None /\ Deep(t, 1).op # "fileclose"
       /\ Dying(s) = None /\ Dying(t) = None /\ Main(s, g) = None /\ Main(t, h) = None
       /\ NextCwd(s, g) = None /\ NextCwd(t, h) = None /\ Fresh(t, h) = None
       /\ CwdOwn(s, c) = c /\ CwdOwn(t, c) = c
  BY <1>2, <1>3, <1>4, <1>18 DEF NoOp, Op, Putting, 
     InTransaction, Busy, Closed, Leaving, Closing, Main, Dying, NextCwd, Fresh, CwdOwn
<1>21. Transacting BY <1>1, <1>9, <1>16, <1>20, Stays
<1>22. Known(t, h, c) BY <1>3, <1>18, <1>20 DEF Known, NoOp, Op
<1>23. ASSUME NEW j \in Inum PROVE Total(t, h, c, j) = Total(s, g, c, j)
  <2>1. \A m \in 1 .. 6 : OpOwn(t, m) = OpOwn(s, m)
    BY <1>4, <1>18, Six DEF OpOwn, Owning, Putting, NoOp, Op
  <2>2. IpOwn(t, h) = IpOwn(s, g) /\ OldOwn(t, h) = OldOwn(s, g) /\ DpOwn(t, h) = DpOwn(s, g)
    BY <1>4, <1>18 DEF IpOwn, OldOwn, DpOwn, NoOp, Op
  <2>. QED BY <1>20, <2>1, <2>2, Six DEF Total
<1>24. c # None BY <1>3, Constants
<1>25. /\ Describing
       /\ \A e \in File : file'[e].ip = file[e].ip /\ file'[e].writable = file[e].writable
  BY <1>1, <1>6, <1>7, <1>9, <1>12, <1>16, <1>20, Seeking
<1>26. d \in Disks /\ BlocksOwned' BY <1>9, Parts DEF TypeOK, BlocksOwned
<1>27. Filing(p) BY <1>9, <1>13, <1>25, <1>26 DEF Filing
<1>28. ofile \in [Proc -> [Fd -> File \cup {None}]] BY Parts DEF TypeOK
<1>29. Handles(p, s, g, t, h, c)
  BY <1>1, <1>9, <1>13, <1>16, <1>17, <1>19, <1>20, <1>21, <1>22, <1>23, <1>24, <1>25, <1>26, <1>27, <1>28 DEF Handles
<1>. QED BY <1>29, HandlesStep

\* The working directory that a call ends with.
LEMMA SetCwdStep == ASSUME FsInv, NEW p \in Proc, set_cwd(p) PROVE FsInv'
<1>1. PICK s, g, L, c, t, h, e : /\ s = k[p] /\ g = r[p] /\ L = Len(s) /\ c = cwd[p]
                                 /\ t = k'[p] /\ h = r'[p] /\ e = g.ip
  OBVIOUS
<1>2. /\ s # <<>> /\ Deep(s, L).op = "set_cwd" /\ Head(s).op = "set_cwd"
      /\ Fits("set_cwd", L, Deep(s, L - 1).op)
  BY <1>1, AtOp DEF set_cwd
<1>3. StackOK(s) /\ RegsOK(s, g) /\ Layers(s, L) /\ g \in Regs /\ Known(s, g, c) /\ c \in Inum
  BY <1>1, <1>2, Here
<1>4. L = 1 /\ Deep(s, 1).op = "set_cwd" /\ Deep(s, 2) = NoOp
      /\ Deep(s, 3) = NoOp /\ Deep(s, 4) = NoOp /\ Deep(s, 5) = NoOp /\ Deep(s, 6) = NoOp
  BY <1>2, <1>3 DEF Layers, Layer, Fits, Putting
<1>9. /\ UNCHANGED <<d, outstanding, ref, valid, lock, file, ofile>> /\ Continue(p, <<>>)
      /\ r' = [r EXCEPT ![p] = NoRegs] /\ cwd' = [cwd EXCEPT ![p] = e]
  BY <1>1 DEF set_cwd
<1>10. e \in Inum \cup {None} BY <1>1, <1>3 DEF Regs
<1>11. /\ cwd' \in [Proc -> Inum \cup {None}] /\ cwd'[p] = e
       /\ \A q \in Proc \ {p} : cwd'[q] = cwd[q]
  <2>1. cwd \in [Proc -> Inum \cup {None}] BY Parts DEF TypeOK
  <2>. QED BY <1>9, <1>10, <2>1
<1>14. Regular(p) /\ h = NoRegs BY <1>1, <1>9, Here DEF Regular
<1>15. Next0(p, s, t, L) BY <1>1, <1>2, <1>9, <1>14 DEF Next0
<1>16. Only(p) BY <1>15, ToNext0
<1>17. StackOK(t) /\ Layers(t, 0) /\ \A m \in 1 .. 6 : Deep(t, m) = NoOp
  <2>1. StackOK(t) /\ Layers(t, L - 1) /\ \A m \in 1 .. 6 : Deep(t, m) = IF m = L THEN NoOp ELSE Deep(s, m)
    BY <1>15, ToNext0
  <2>2. L - 1 = 0 BY <1>4
  <2>. QED BY <2>1, <2>2, <1>4, Six
<1>18. /\ t = <<>> /\ Deep(t, 1) = NoOp /\ Deep(t, 2) = NoOp /\ Deep(t, 3) = NoOp
       /\ Deep(t, 4) = NoOp /\ Deep(t, 5) = NoOp /\ Deep(t, 6) = NoOp
  BY <1>17, Six DEF Layers
<1>19. RegsOK(t, h) BY <1>14, <1>18, EmptyStack
<1>20. /\ ~InTransaction(s) /\ ~InTransaction(t) /\ ~Busy(t) /\ ~Closed(t, h)
       /\ Closing(s) = None /\ Closing(t) = None /\ Deep(t, 1).op # "fileclose"
       /\ Dying(s) = None /\ Dying(t) = None /\ Main(s, g) = None /\ Main(t, h) = None
       /\ NextCwd(s, g) = e /\ NextCwd(t, h) = None /\ Fresh(t, h) = None
       /\ CwdOwn(s, c) = None /\ CwdOwn(t, e) = e
  BY <1>1, <1>2, <1>3, <1>4, <1>18 DEF NoOp, Op, Putting, 
     InTransaction, Busy, Closed, Leaving, Closing, Main, Dying, NextCwd, Fresh, CwdOwn
<1>21. Transacting BY <1>1, <1>9, <1>16, <1>20, Stays
<1>22. Known(t, h, e) BY <1>3, <1>18, <1>20 DEF Known, NoOp, Op
<1>23. ASSUME NEW j \in Inum PROVE Total(t, h, e, j) = Total(s, g, c, j)
  <2>1. \A m \in 1 .. 6 : OpOwn(t, m) = None /\ OpOwn(s, m) = None
    BY <1>4, <1>18, Six DEF OpOwn, Owning, Putting, NoOp, Op
  <2>2. /\ IpOwn(t, h) = None /\ OldOwn(t, h) = None /\ DpOwn(t, h) = None
        /\ IpOwn(s, g) = e /\ OldOwn(s, g) = None /\ DpOwn(s, g) = None
    BY <1>1, <1>4, <1>18 DEF IpOwn, OldOwn, DpOwn, NoOp, Op
  <2>3. Is(None, j) = 0 /\ Is(e, j) \in Nat BY Constants DEF Is
  <2>4. /\ OpOwn(t, 1) = None /\ OpOwn(t, 2) = None /\ OpOwn(t, 3) = None
        /\ OpOwn(t, 4) = None /\ OpOwn(t, 5) = None /\ OpOwn(t, 6) = None
        /\ OpOwn(s, 1) = None /\ OpOwn(s, 2) = None /\ OpOwn(s, 3) = None
        /\ OpOwn(s, 4) = None /\ OpOwn(s, 5) = None /\ OpOwn(s, 6) = None
    BY <2>1
  <2>. QED BY <1>20, <2>2, <2>3, <2>4 DEF Total
<1>24. e = None => \A fd \in Fd : ofile[p][fd] = None
  <2>1. e = None => Closed(s, g) BY <1>1, <1>4 DEF Closed, Leaving, NoOp, Op
  <2>. QED BY <1>1, <2>1, Parts DEF Local
<1>25. Others(p)
  <2>1. ofile \in [Proc -> [Fd -> File \cup {None}]] BY Parts DEF TypeOK
  <2>. QED BY <1>9, <1>11, <1>16, <2>1 DEF Others
<1>26. LocalOf(p, t, h)'
  BY <1>1, <1>9, <1>11, <1>14, <1>17, <1>18, <1>19, <1>20, <1>24 DEF LocalOf
<1>27. Referring
  <2>1. ref \in [Inum -> Nat] /\ \A f \in File : file'[f].ip = file[f].ip BY <1>9, Parts DEF TypeOK
  <2>2. \A j \in Inum : ref'[j] + Total(s, g, cwd[p], j) = ref[j] + Total(t, h, cwd'[p], j)
    BY <1>1, <1>9, <1>11, <1>23
  <2>3. Balanced(p, s, g, t, h) BY <1>1, <1>9, <1>11, <1>16, <2>1, <2>2 DEF Balanced
  <2>. QED BY <2>3, Parts, BalancedRefs
<1>28. Describing BY <1>1, <1>9, <1>16, <1>20, NoneOpened
<1>29. Locked(p)
  <2>1. Main(k'[p], r'[p]) = Main(k[p], r[p]) /\ Dying(k[p]) = None /\ Dying(k'[p]) = None
    BY <1>1, <1>20
  <2>. QED BY <1>9, <2>1, SameLocked
<1>30. Filing(p) /\ BlocksOwned' BY <1>9, Parts, SameFiling DEF BlocksOwned
<1>31. RolesOf(p, t, h, e)
  <2>1. \A i \in Inum : i \in {CwdOwn(t, e), NextCwd(t, h)} => i \in {CwdOwn(k[p], cwd[p]), NextCwd(k[p], r[p])}
    BY <1>1, <1>20, Constants
  <2>. QED BY <1>1, <1>11, <1>20, <1>22, <2>1 DEF RolesOf
<1>32. Changes(p, t, h, e) BY <1>21, <1>25, <1>26, <1>27, <1>28, <1>29, <1>30, <1>31 DEF Changes
<1>. QED BY <1>30, <1>32, OutStep

\* What is left of file f is v.
Renews(f, v) == file' = [file EXCEPT ![f] = v]

LEMMA Renewed ==
    ASSUME FsInv, NEW f \in File, NEW v, Renews(f, v),
           v \in [ref : Nat, ip : Inum \cup {None}, off : 0 .. MAXFILE, writable : BOOLEAN],
           IF v.ref = 0 THEN v = NoFile ELSE v.ip # None
    PROVE  /\ file' \in [File -> [ref : Nat, ip : Inum \cup {None}, off : 0 .. MAXFILE, writable : BOOLEAN]]
           /\ file'[f] = v /\ \A e \in File \ {f} : file'[e] = file[e]
           /\ \A e \in File : IF file'[e].ref = 0 THEN file'[e] = NoFile ELSE file'[e].ip # None
<1>1. file \in [File -> [ref : Nat, ip : Inum \cup {None}, off : 0 .. MAXFILE, writable : BOOLEAN]]
  BY Parts DEF TypeOK
<1>2. file'[f] = v /\ \A e \in File \ {f} : file'[e] = file[e] BY <1>1 DEF Renews
<1>3. file' \in [File -> [ref : Nat, ip : Inum \cup {None}, off : 0 .. MAXFILE, writable : BOOLEAN]]
  BY <1>1 DEF Renews
<1>4. \A e \in File : IF file[e].ref = 0 THEN file[e] = NoFile ELSE file[e].ip # None
  BY Parts DEF Counts
<1>5. ASSUME NEW e \in File PROVE IF file'[e].ref = 0 THEN file'[e] = NoFile ELSE file'[e].ip # None
  <2>1. CASE e = f BY <1>2, <2>1
  <2>2. CASE e # f BY <1>2, <1>4, <2>2
  <2>. QED BY <2>1, <2>2
<1>. QED BY <1>2, <1>3, <1>5

\* fileclose() of a file that nobody else has open: the process has its inode.
LEMMA CloseLastStep ==
    ASSUME FsInv, NEW p \in Proc, fileclose(p), ~(file[Head(k[p]).ip].ref > 1) PROVE FsInv'
<1>1. PICK s, g, L, c, t, h, f, i, v, none :
         /\ s = k[p] /\ g = r[p] /\ L = Len(s) /\ c = cwd[p] /\ t = k'[p] /\ h = r'[p]
         /\ f = Head(s).ip /\ i = file[f].ip /\ v = NoFile /\ none = None
  OBVIOUS
<1>2. /\ s # <<>> /\ L \in 1 .. 6 /\ Deep(s, L).op = "fileclose" /\ Head(s).op = "fileclose"
      /\ Fits("fileclose", L, Deep(s, L - 1).op) /\ OpOK(Head(s))
  BY <1>1, AtOp DEF fileclose
<1>3. StackOK(s) /\ RegsOK(s, g) /\ Layers(s, L) /\ g \in Regs /\ Known(s, g, c) /\ c \in Inum
  BY <1>1, <1>2, Here
<1>4. L = 1 \/ (L = 5 /\ Deep(s, 4).op = "exit_files")
  BY <1>2, <1>3 DEF Layers, Layer, Fits, Putting
<1>5. f \in File BY <1>1, <1>2 DEF OpOK, Owning, Naming, Putting
<1>6. Closing(s) = f BY <1>1, <1>2 DEF Closing
<1>7. /\ file[f].ref = 1
      /\ \A y \in Proc \X (0 .. NOFILE) : Descriptors[y] = f => y = <<p, NOFILE>>
  <2>1. <<p, NOFILE>> \in Proc \X (0 .. NOFILE) /\ Descriptors[<<p, NOFILE>>] = f
    BY <1>1, <1>6, DescriptorPlaces
  <2>2. PICK x : x = <<p, NOFILE>> OBVIOUS
  <2>3. /\ file[f].ref \in Nat /\ file[f].ref > 0
        /\ \A y \in Proc \X (0 .. NOFILE) : file[f].ref = 1 /\ Descriptors[y] = f => y = x
    BY <1>5, <2>1, <2>2, Parts, OpenOnce
  <2>4. file[f].ref = 1 BY <1>1, <2>3
  <2>. QED BY <2>2, <2>3, <2>4
<1>8. /\ UNCHANGED <<d, outstanding, ref, valid, lock, ofile, cwd, r>>
      /\ Continue(p, <<Op("close_begin", i)>>) /\ Renews(f, v)
  BY <1>1 DEF fileclose, Renews
<1>9. i \in Inum
  <2>1. IF file[f].ref = 0 THEN file[f] = NoFile ELSE file[f].ip # None BY <1>5, Parts DEF Counts
  <2>2. file[f].ip \in Inum \cup {None} BY <1>5, Parts DEF TypeOK
  <2>. QED BY <1>1, <1>7, <2>1, <2>2
<1>10. /\ file' \in [File -> [ref : Nat, ip : Inum \cup {None}, off : 0 .. MAXFILE, writable : BOOLEAN]]
       /\ file'[f] = v /\ \A e \in File \ {f} : file'[e] = file[e]
       /\ \A e \in File : IF file'[e].ref = 0 THEN file'[e] = NoFile ELSE file'[e].ip # None
  <2>1. /\ v \in [ref : Nat, ip : Inum \cup {None}, off : 0 .. MAXFILE, writable : BOOLEAN]
        /\ v.ref = 0 /\ v = NoFile
    BY <1>1, Constants DEF NoFile
  <2>2. IF v.ref = 0 THEN v = NoFile ELSE v.ip # None BY <2>1
  <2>. QED BY <1>5, <1>8, <2>1, <2>2, Renewed
<1>11. Regular(p) /\ h = g BY <1>1, <1>8 DEF Regular
<1>12. Next1(p, s, t, L, "close_begin", i)
  <2>1. OpOK(Op("close_begin", i)) BY <1>9, GoodOps DEF Owning
  <2>2. Fits("close_begin", L, Deep(s, L - 1).op) BY <1>2, <1>4 DEF Fits
  <2>. QED BY <1>1, <1>2, <1>8, <1>11, <2>1, <2>2 DEF Next1
<1>13. Only(p) BY <1>12, ToNext1
<1>14. /\ StackOK(t) /\ Layers(t, L)
       /\ \A m \in 1 .. 6 : Deep(t, m) = IF m = L THEN Op("close_begin", i) ELSE Deep(s, m)
  BY <1>12, ToNext1
<1>15. /\ Deep(t, 1) = (IF L = 1 THEN Op("close_begin", i) ELSE Deep(s, 1))
       /\ Deep(t, 2) = Deep(s, 2) /\ Deep(t, 3) = Deep(s, 3) /\ Deep(t, 4) = Deep(s, 4)
       /\ Deep(t, 5) = (IF L = 5 THEN Op("close_begin", i) ELSE Deep(s, 5))
       /\ Deep(t, 6) = Deep(s, 6)
  BY <1>4, <1>14, Six
<1>16. RegsOK(t, h)
  BY <1>2, <1>3, <1>4, <1>11, <1>14, <1>15, Six, Constants DEF RegsOK, Layers, Layer, Fits, NoOp, Op, Putting
<1>17. /\ ~InTransaction(s) /\ ~InTransaction(t) /\ ~Busy(t) /\ ~Closed(t, h)
       /\ Closing(t) = None /\ Deep(t, 1).op # "fileclose"
       /\ Dying(s) = None /\ Dying(t) = None /\ Main(t, h) = Main(s, g) 
       /\ NextCwd(t, h) = NextCwd(s, g) /\ Fresh(t, h) = None /\ CwdOwn(t, c) = CwdOwn(s, c)
  BY <1>2, <1>3, <1>4, <1>11, <1>14, <1>15, EmptyStack DEF Layers, Layer, Fits, NoOp, Op, Putting, 
     InTransaction, Busy, Closed, Leaving, Closing, Main, Dying, NextCwd, Fresh, CwdOwn
<1>18. Transacting BY <1>1, <1>8, <1>13, <1>17, Stays
<1>19. Known(t, h, c)
  <2>1. Deep(t, 2).op = "open_file" => Deep(s, 2).op = "open_file" /\ h = g
    BY <1>4, <1>11, <1>15 DEF Op
  <2>. QED BY <1>3, <1>17, <2>1 DEF Known
<1>20. ASSUME NEW j \in Inum PROVE Total(t, h, c, j) = Total(s, g, c, j) + Is(i, j)
  <2>1. \A m \in 1 .. 6 : OpOwn(t, m) = IF m = L THEN i ELSE OpOwn(s, m)
    BY <1>2, <1>4, <1>14, Six DEF OpOwn, Owning, Op
  <2>2. IpOwn(t, h) = IpOwn(s, g) /\ OldOwn(t, h) = OldOwn(s, g) /\ DpOwn(t, h) = DpOwn(s, g)
    BY <1>2, <1>3, <1>4, <1>11, <1>14, <1>15 DEF IpOwn, OldOwn, DpOwn, Layers, Layer, Fits, NoOp, Op, Putting
  <2>3. OpOwn(s, L) = None BY <1>2 DEF OpOwn, Owning, Putting
  <2>4. Is(None, j) = 0 /\ \A u : Is(u, j) \in Nat BY Constants DEF Is
  <2>5. CASE L = 1
    <3>1. /\ OpOwn(t, 1) = i /\ OpOwn(t, 2) = OpOwn(s, 2) /\ OpOwn(t, 3) = OpOwn(s, 3)
          /\ OpOwn(t, 4) = OpOwn(s, 4) /\ OpOwn(t, 5) = OpOwn(s, 5) /\ OpOwn(t, 6) = OpOwn(s, 6)
          /\ OpOwn(s, 1) = None
      BY <2>1, <2>3, <2>5
    <3>. QED BY <1>17, <2>2, <2>4, <3>1 DEF Total
  <2>6. CASE L = 5
    <3>1. /\ OpOwn(t, 1) = OpOwn(s, 1) /\ OpOwn(t, 2) = OpOwn(s, 2) /\ OpOwn(t, 3) = OpOwn(s, 3)
          /\ OpOwn(t, 4) = OpOwn(s, 4) /\ OpOwn(t, 5) = i /\ OpOwn(t, 6) = OpOwn(s, 6)
          /\ OpOwn(s, 5) = None
      BY <2>1, <2>3, <2>6
    <3>. QED BY <1>17, <2>2, <2>4, <3>1 DEF Total
  <2>. QED BY <1>4, <2>5, <2>6
<1>21. c # None BY <1>3, Constants
<1>23. Describing
  <2>1. /\ NOFILE \in 0 .. NOFILE /\ OneSlot(p, NOFILE)
        /\ f = Descriptors[<<p, NOFILE>>] /\ none = Descriptors'[<<p, NOFILE>>]
    BY <1>1, <1>6, <1>8, <1>13, <1>17, ClosingSlot
  <2>2. ASSUME NEW e \in File PROVE file'[e].ref + Is(f, e) = file[e].ref + Is(none, e)
    <3>1. none # e BY <1>1, Constants
    <3>2. file[e].ref \in Nat /\ v.ref = 0 BY <1>1, Parts DEF TypeOK, NoFile
    <3>. QED BY <1>1, <1>7, <1>10, <3>1, <3>2 DEF Is
  <2>3. Tallied(p, NOFILE, f, none) BY <1>10, <2>1, <2>2 DEF Tallied
  <2>. QED BY <2>1, <2>3, TalliedOne
<1>24. Filing(p) /\ BlocksOwned'
  <2>1. v.ip = None BY <1>1 DEF NoFile
  <2>2. \A e \in File : \/ file'[e].ip = None
                        \/ file'[e].ip = file[e].ip /\ (file'[e].writable => file[e].writable)
    BY <1>10, <2>1
  <2>3. Filing(p) BY <1>8, <2>2, SameFiling
  <2>. QED BY <1>8, <2>3, Parts DEF BlocksOwned
<1>25. Others(p)
  <2>1. ofile \in [Proc -> [Fd -> File \cup {None}]] /\ cwd \in [Proc -> Inum \cup {None}]
    BY Parts DEF TypeOK
  <2>2. ASSUME NEW q \in Proc \ {p}, Busy(k[q]) PROVE r[q].file \in File \ {f}
    <3>1. r[q].file \in File BY <2>2, BusyOpen
    <3>2. PICK fd \in Fd : ofile[q][fd] = r[q].file BY <2>2, BusyOpen
    <3>3. <<q, fd>> \in Proc \X (0 .. NOFILE) /\ Descriptors[<<q, fd>>] = r[q].file
      BY <3>2, DescriptorPlaces
    <3>4. r[q].file = f => <<q, fd>> = <<p, NOFILE>> BY <1>7, <3>3
    <3>. QED BY <3>1, <3>4
  <2>. QED BY <1>8, <1>10, <1>13, <2>1, <2>2 DEF Others
<1>26. LocalOf(p, t, h)'
  <2>1. cwd'[p] = c BY <1>1, <1>8
  <2>. QED BY <1>1, <1>14, <1>16, <1>17, <1>21, <2>1 DEF LocalOf
<1>27. Referring
  <2>1. ref \in [Inum -> Nat] BY Parts DEF TypeOK
  <2>2. ASSUME NEW j \in Inum
        PROVE  ref'[j] + Total(s, g, cwd[p], j) + Is(file[f].ip, j)
                 = ref[j] + Total(t, h, cwd'[p], j) + Is(file'[f].ip, j)
    <3>1. Total(s, g, c, j) \in Nat /\ ref[j] \in Nat /\ Is(i, j) \in Nat BY <2>1, TotalType DEF Is
    <3>2. Is(file'[f].ip, j) = 0 BY <1>1, <1>10, Constants DEF NoFile, Is
    <3>. QED BY <1>1, <1>8, <1>20, <3>1, <3>2
  <2>3. FileBalanced(p, s, g, t, h, f) BY <1>1, <1>5, <1>8, <1>10, <1>13, <2>1, <2>2 DEF FileBalanced
  <2>. QED BY <2>3, Parts, FileBalancedRefs
<1>29. Locked(p)
  <2>1. Main(k'[p], r'[p]) = Main(k[p], r[p]) /\ Dying(k[p]) = None /\ Dying(k'[p]) = None
    BY <1>1, <1>17
  <2>. QED BY <1>8, <2>1, SameLocked
<1>31. RolesOf(p, t, h, c)
  <2>1. \A e \in Inum : e \in {CwdOwn(t, c), NextCwd(t, h)} => e \in {CwdOwn(k[p], cwd[p]), NextCwd(k[p], r[p])}
    BY <1>1, <1>17
  <2>. QED BY <1>1, <1>8, <1>17, <1>19, <2>1 DEF RolesOf
<1>32. Changes(p, t, h, c) BY <1>18, <1>23, <1>24, <1>25, <1>26, <1>27, <1>29, <1>31 DEF Changes
<1>. QED BY <1>24, <1>32, OutStep

\* fileclose() begins the transaction that puts the inode.
LEMMA CloseBeginStep == ASSUME FsInv, NEW p \in Proc, close_begin(p) PROVE FsInv'
<1>1. PICK s, g, L, c, t, h, i : /\ s = k[p] /\ g = r[p] /\ L = Len(s) /\ c = cwd[p]
                                 /\ t = k'[p] /\ h = r'[p] /\ i = Head(s).ip
  OBVIOUS
<1>2. /\ s # <<>> /\ L \in 1 .. 6 /\ Deep(s, L).op = "close_begin" /\ Head(s).op = "close_begin"
      /\ Head(s) = Deep(s, L) /\ Fits("close_begin", L, Deep(s, L - 1).op) /\ OpOK(Head(s))
  BY <1>1, AtOp DEF close_begin
<1>3. StackOK(s) /\ RegsOK(s, g) /\ Layers(s, L) /\ g \in Regs /\ Known(s, g, c) /\ c \in Inum
  BY <1>1, <1>2, Here
<1>4. L = 1 \/ (L = 5 /\ Deep(s, 4).op = "exit_files")
  BY <1>2, <1>3 DEF Layers, Layer, Fits, Putting
<1>5. i \in Inum BY <1>1, <1>2 DEF OpOK, Owning
<1>8. /\ UNCHANGED <<d, ref, valid, lock, file, ofile, cwd, r>> /\ outstanding' = outstanding + 1
      /\ Continue(p, <<Op("iput", i), Op("end_op", None)>>)
  BY <1>1 DEF close_begin
<1>11. Regular(p) /\ h = g BY <1>1, <1>8 DEF Regular
<1>12. Next2(p, s, t, L, "iput", i, "end_op", None)
  <2>1. OpOK(Op("iput", i)) /\ OpOK(Op("end_op", None))
    BY <1>5, GoodOps DEF Operations, Owning, Naming, Putting
  <2>2. Fits("end_op", L, Deep(s, L - 1).op) /\ Fits("iput", L + 1, "end_op") /\ L < 6
    BY <1>2, <1>4 DEF Fits, Putting
  <2>. QED BY <1>1, <1>2, <1>8, <1>11, <2>1, <2>2 DEF Next2
<1>13. Only(p) BY <1>12, ToNext2
<1>14. /\ StackOK(t) /\ Layers(t, L + 1)
       /\ \A m \in 1 .. 6 : Deep(t, m) = IF m = L + 1 THEN Op("iput", i)
                                         ELSE IF m = L THEN Op("end_op", None) ELSE Deep(s, m)
  BY <1>12, ToNext2
<1>15. /\ Deep(t, 1) = (IF L = 1 THEN Op("end_op", None) ELSE Deep(s, 1))
       /\ Deep(t, 2) = (IF L = 1 THEN Op("iput", i) ELSE Deep(s, 2))
       /\ Deep(t, 3) = Deep(s, 3) /\ Deep(t, 4) = Deep(s, 4)
       /\ Deep(t, 5) = (IF L = 5 THEN Op("end_op", None) ELSE Deep(s, 5))
       /\ Deep(t, 6) = (IF L = 5 THEN Op("iput", i) ELSE Deep(s, 6))
  BY <1>4, <1>14, Six
<1>16. RegsOK(t, h)
  BY <1>2, <1>3, <1>4, <1>11, <1>14, <1>15, Six, Constants DEF RegsOK, Layers, Layer, Fits, NoOp, Op, Putting
<1>17. /\ ~InTransaction(s) /\ InTransaction(t) /\ ~Busy(t) /\ ~Closed(t, h)
       /\ Closing(s) = None /\ Closing(t) = None /\ Deep(t, 1).op # "fileclose"
       /\ Dying(s) = None /\ Dying(t) = None /\ Main(t, h) = Main(s, g)
       /\ NextCwd(t, h) = NextCwd(s, g) /\ Fresh(t, h) = None /\ CwdOwn(t, c) = CwdOwn(s, c)
  BY <1>2, <1>3, <1>4, <1>11, <1>14, <1>15, EmptyStack DEF Layers, Layer, Fits, NoOp, Op, Putting,
     InTransaction, Busy, Closed, Leaving, Closing, Main, Dying, NextCwd, Fresh, CwdOwn
<1>18. Transacting BY <1>1, <1>8, <1>13, <1>17, Begins
<1>19. Known(t, h, c)
  <2>1. Deep(t, 2).op = "open_file" => Deep(s, 2).op = "open_file" /\ h = g
    BY <1>4, <1>11, <1>15 DEF Op
  <2>. QED BY <1>3, <1>17, <2>1 DEF Known
<1>20. ASSUME NEW j \in Inum PROVE Total(t, h, c, j) = Total(s, g, c, j)
  <2>1. \A m \in 1 .. 6 : OpOwn(t, m) = IF m = L + 1 THEN i ELSE IF m = L THEN None ELSE OpOwn(s, m)
    BY <1>2, <1>4, <1>14, Six DEF OpOwn, Owning, Putting, NoOp, Op
  <2>2. IpOwn(t, h) = IpOwn(s, g) /\ OldOwn(t, h) = OldOwn(s, g) /\ DpOwn(t, h) = DpOwn(s, g)
    BY <1>2, <1>3, <1>4, <1>11, <1>14, <1>15 DEF IpOwn, OldOwn, DpOwn, Layers, Layer, Fits, NoOp, Op, Putting
  <2>3. OpOwn(s, L) = i /\ OpOwn(s, L + 1) = None
    <3>1. Deep(s, L + 1) = NoOp BY <1>2, <1>3, <1>4 DEF Layers, Layer, Fits, Putting
    <3>. QED BY <1>1, <1>2, <3>1 DEF OpOwn, Owning, Putting, NoOp, Op
  <2>4. Is(None, j) = 0 /\ \A u : Is(u, j) \in Nat BY Constants DEF Is
  <2>5. CASE L = 1
    <3>1. /\ OpOwn(t, 1) = None /\ OpOwn(t, 2) = i /\ OpOwn(t, 3) = OpOwn(s, 3)
          /\ OpOwn(t, 4) = OpOwn(s, 4) /\ OpOwn(t, 5) = OpOwn(s, 5) /\ OpOwn(t, 6) = OpOwn(s, 6)
          /\ OpOwn(s, 1) = i /\ OpOwn(s, 2) = None
      BY <2>1, <2>3, <2>5
    <3>. QED BY <1>17, <2>2, <2>4, <3>1 DEF Total
  <2>6. CASE L = 5
    <3>1. /\ OpOwn(t, 1) = OpOwn(s, 1) /\ OpOwn(t, 2) = OpOwn(s, 2) /\ OpOwn(t, 3) = OpOwn(s, 3)
          /\ OpOwn(t, 4) = OpOwn(s, 4) /\ OpOwn(t, 5) = None /\ OpOwn(t, 6) = i
          /\ OpOwn(s, 5) = i /\ OpOwn(s, 6) = None
      BY <2>1, <2>3, <2>6
    <3>. QED BY <1>17, <2>2, <2>4, <3>1 DEF Total
  <2>. QED BY <1>4, <2>5, <2>6
<1>21. c # None BY <1>3, Constants
<1>22. Quiet(p, s, g, t, h, c)
  BY <1>1, <1>8, <1>13, <1>14, <1>16, <1>17, <1>18, <1>19, <1>20, <1>21 DEF Quiet
<1>. QED BY <1>22, QuietStep

\* open() has a file and a descriptor for the inode.
LEMMA OpenFileStep ==
    ASSUME FsInv, NEW p \in Proc, open_file(p), ~(FreeFiles = {} \/ FreeFds(p) = {}) PROVE FsInv'
<1>1. PICK s, g, L, c, t, h, f, i, n, v, none :
         /\ s = k[p] /\ g = r[p] /\ L = Len(s) /\ c = cwd[p] /\ t = k'[p] /\ h = r'[p]
         /\ f = Min(FreeFiles) /\ n = Min(FreeFds(p)) /\ i = Target(p) /\ none = None
         /\ v = [ref |-> 1, ip |-> i, off |-> 0, writable |-> g.writable]
  OBVIOUS
<1>2. /\ s # <<>> /\ L \in 1 .. 6 /\ Deep(s, L).op = "open_file" /\ Head(s).op = "open_file"
      /\ Fits("open_file", L, Deep(s, L - 1).op) /\ i = g.ip /\ i # None
  <2>1. "open_file" \notin Owning \cup Naming \cup {"fileclose"} BY DEF Owning, Naming, Putting
  <2>. QED BY <1>1, <2>1, AtOp DEF open_file
<1>3. StackOK(s) /\ RegsOK(s, g) /\ Layers(s, L) /\ g \in Regs /\ Known(s, g, c) /\ c \in Inum
  BY <1>1, <1>2, Here
<1>4. L = 2 /\ Deep(s, 1).op = "end_op" /\ Deep(s, 2).op = "open_file"
      /\ Deep(s, 3) = NoOp /\ Deep(s, 4) = NoOp /\ Deep(s, 5) = NoOp /\ Deep(s, 6) = NoOp
  BY <1>2, <1>3 DEF Layers, Layer, Fits, Putting
<1>5. i \in Inum BY <1>2, <1>3 DEF Regs
<1>6. /\ f \in File /\ file[f] = NoFile /\ n \in Fd /\ ofile[p][n] = None
  <2>1. FreeFiles \in SUBSET Nat /\ FreeFds(p) \in SUBSET Nat BY Constants DEF FreeFiles, FreeFds
  <2>2. f \in FreeFiles /\ n \in FreeFds(p) BY <1>1, <2>1, MinIn
  <2>3. f \in File /\ file[f].ref = 0 /\ n \in Fd /\ ofile[p][n] = None BY <2>2 DEF FreeFiles, FreeFds
  <2>. QED BY <2>3, Parts DEF Counts
<1>7. /\ Main(s, g) = i /\ Dying(s) = None /\ Closing(s) = None /\ InTransaction(s)
      /\ CwdOwn(s, c) = c /\ NextCwd(s, g) = None
  BY <1>1, <1>2, <1>4 DEF Main, Dying, Closing, InTransaction, CwdOwn, NextCwd, NoOp, Op
<1>8. /\ UNCHANGED <<d, outstanding, ref, valid, cwd, r>> /\ lock' = [lock EXCEPT ![i] = None]
      /\ Continue(p, <<>>) /\ Renews(f, v) /\ Holds(p, n, f)
  BY <1>1 DEF open_file, iunlock, Renews, Holds
<1>9. Type(i) # "none" /\ (g.writable => Type(i) # "dir") /\ lock[i] = p
  <2>1. lock[i] = p BY <1>1, <1>5, <1>7, Parts DEF Locks
  <2>. QED BY <1>2, <1>3, <1>4, <1>7, <2>1 DEF Known
<1>10. /\ file' \in [File -> [ref : Nat, ip : Inum \cup {None}, off : 0 .. MAXFILE, writable : BOOLEAN]]
       /\ file'[f] = v /\ \A e \in File \ {f} : file'[e] = file[e]
       /\ \A e \in File : IF file'[e].ref = 0 THEN file'[e] = NoFile ELSE file'[e].ip # None
  <2>1. v \in [ref : Nat, ip : Inum \cup {None}, off : 0 .. MAXFILE, writable : BOOLEAN]
    BY <1>1, <1>3, <1>5, Constants DEF Regs
  <2>2. IF v.ref = 0 THEN v = NoFile ELSE v.ip # None BY <1>1, <1>2
  <2>. QED BY <1>6, <1>8, <2>1, <2>2, Renewed
<1>11. Regular(p) /\ h = g BY <1>1, <1>8 DEF Regular
<1>12. Next0(p, s, t, L) BY <1>1, <1>2, <1>8, <1>11 DEF Next0
<1>13. Only(p) BY <1>12, ToNext0
<1>14. StackOK(t) /\ Layers(t, 1) /\ \A m \in 1 .. 6 : Deep(t, m) = IF m = 2 THEN NoOp ELSE Deep(s, m)
  BY <1>4, <1>12, ToNext0
<1>15. /\ Deep(t, 1) = Deep(s, 1) /\ Deep(t, 2) = NoOp /\ Deep(t, 3) = NoOp
       /\ Deep(t, 4) = NoOp /\ Deep(t, 5) = NoOp /\ Deep(t, 6) = NoOp
  BY <1>4, <1>14, Six
<1>16. RegsOK(t, h)
  BY <1>2, <1>3, <1>4, <1>11, <1>14, <1>15, Six, Constants DEF RegsOK, Layers, Layer, Fits, NoOp, Op, Putting
<1>17. /\ InTransaction(t) /\ ~Busy(t) /\ ~Closed(t, h)
       /\ Closing(t) = None /\ Deep(t, 1).op # "fileclose"
       /\ Dying(t) = None /\ Main(t, h) = None 
       /\ NextCwd(t, h) = None /\ Fresh(t, h) = None /\ CwdOwn(t, c) = c
  BY <1>4, <1>14, <1>15 DEF Layers, NoOp, Op, Putting, 
     InTransaction, Busy, Closed, Leaving, Closing, Main, Dying, NextCwd, Fresh, CwdOwn
<1>18. Transacting BY <1>1, <1>7, <1>8, <1>13, <1>17, Stays
<1>19. Known(t, h, c) BY <1>3, <1>7, <1>15, <1>17 DEF Known, NoOp, Op
<1>20. ASSUME NEW j \in Inum PROVE Total(s, g, c, j) = Total(t, h, c, j) + Is(i, j)
  <2>1. \A m \in 1 .. 6 : OpOwn(t, m) = None /\ OpOwn(s, m) = None
    BY <1>4, <1>15, Six DEF OpOwn, Owning, Putting, NoOp, Op
  <2>2. /\ IpOwn(t, h) = None /\ OldOwn(t, h) = None /\ DpOwn(t, h) = None
        /\ IpOwn(s, g) = i /\ OldOwn(s, g) = None /\ DpOwn(s, g) = None
    BY <1>2, <1>4, <1>15 DEF IpOwn, OldOwn, DpOwn, NoOp, Op
  <2>3. Is(None, j) = 0 /\ \A u : Is(u, j) \in Nat BY Constants DEF Is
  <2>4. /\ OpOwn(t, 1) = None /\ OpOwn(t, 2) = None /\ OpOwn(t, 3) = None
        /\ OpOwn(t, 4) = None /\ OpOwn(t, 5) = None /\ OpOwn(t, 6) = None
        /\ OpOwn(s, 1) = None /\ OpOwn(s, 2) = None /\ OpOwn(s, 3) = None
        /\ OpOwn(s, 4) = None /\ OpOwn(s, 5) = None /\ OpOwn(s, 6) = None
    BY <2>1
  <2>. QED BY <1>7, <1>17, <2>2, <2>3, <2>4 DEF Total
<1>21. c # None BY <1>3, Constants
<1>22. /\ n \in 0 .. NOFILE /\ none = Descriptors[<<p, n>>] /\ f = Descriptors'[<<p, n>>] /\ OneSlot(p, n)
       /\ ofile' \in [Proc -> [Fd -> File \cup {None}]] /\ \A q \in Proc \ {p} : ofile'[q] = ofile[q]
  <2>1. Closing(k'[p]) = Closing(k[p]) BY <1>1, <1>7, <1>17
  <2>2. Holds(p, n, f) /\ n \in Fd /\ f \in File \cup {None} /\ Only(p) BY <1>6, <1>8, <1>13
  <2>3. Settles(p, n, f) BY <2>1, <2>2, SlotPlaced
  <2>. QED BY <1>1, <1>6, <2>3 DEF Settles
<1>23. Describing
  <2>2. ASSUME NEW e \in File PROVE file'[e].ref + Is(none, e) = file[e].ref + Is(f, e)
    <3>1. none # e BY <1>1, Constants
    <3>2. file[e].ref \in Nat /\ v.ref = 1 /\ NoFile.ref = 0 BY <1>1, Parts DEF TypeOK, NoFile
    <3>. QED BY <1>6, <1>10, <3>1, <3>2 DEF Is
  <2>3. Tallied(p, n, none, f) BY <1>10, <1>22, <2>2 DEF Tallied
  <2>. QED BY <1>22, <2>3, TalliedOne
<1>24. Filing(p) /\ BlocksOwned'
  <2>1. v.ip = i /\ v.writable = g.writable BY <1>1
  <2>2. d \in Disks /\ valid \in [Inum -> BOOLEAN] /\ \A j \in Inum : valid[j] => Type(j) # "none"
    BY Parts DEF TypeOK, InUse
  <2>3. Filing(p) BY <1>8, <1>9, <1>10, <2>1, <2>2 DEF Filing
  <2>. QED BY <1>8, <2>3, Parts DEF BlocksOwned
<1>25. Others(p)
  <2>1. cwd \in [Proc -> Inum \cup {None}] BY Parts DEF TypeOK
  <2>2. ASSUME NEW q \in Proc \ {p}, Busy(k[q]) PROVE r[q].file \in File \ {f}
    <3>1. r[q].file \in File /\ file[r[q].file].ref > 0 BY <2>2, BusyOpen
    <3>. QED BY <1>6, <3>1 DEF NoFile
  <2>. QED BY <1>8, <1>10, <1>13, <1>22, <2>1, <2>2 DEF Others
<1>26. LocalOf(p, t, h)'
  <2>1. cwd'[p] = c BY <1>1, <1>8
  <2>. QED BY <1>1, <1>14, <1>16, <1>17, <1>21, <2>1 DEF LocalOf
<1>27. Referring
  <2>1. ref \in [Inum -> Nat] BY Parts DEF TypeOK
  <2>2. ASSUME NEW j \in Inum
        PROVE  ref'[j] + Total(s, g, cwd[p], j) + Is(file[f].ip, j)
                 = ref[j] + Total(t, h, cwd'[p], j) + Is(file'[f].ip, j)
    <3>1. Total(t, h, c, j) \in Nat /\ ref[j] \in Nat /\ Is(i, j) \in Nat BY <2>1, TotalType DEF Is
    <3>2. Is(file[f].ip, j) = 0 BY <1>6, Constants DEF NoFile, Is
    <3>3. file'[f].ip = i BY <1>1, <1>10
    <3>. QED BY <1>1, <1>8, <1>20, <3>1, <3>2, <3>3
  <2>3. FileBalanced(p, s, g, t, h, f) BY <1>1, <1>6, <1>8, <1>10, <1>13, <2>1, <2>2 DEF FileBalanced
  <2>. QED BY <2>3, Parts, FileBalancedRefs
<1>29. Locked(p)
  <2>1. lock \in [Inum -> Proc \cup {None}] BY Parts DEF TypeOK
  <2>2. Main(k'[p], r'[p]) = none /\ Dying(k'[p]) = none BY <1>1, <1>17
  <2>3. \A j \in Inum : j # none BY <1>1, Constants
  <2>4. Relocks(p, none, none) BY <1>1, <1>5, <1>7, <1>8, <2>1, <2>2, <2>3, Constants DEF Relocks
  <2>. QED BY <2>4, Relocked
<1>31. RolesOf(p, t, h, c)
  <2>1. \A e \in Inum : e \in {CwdOwn(t, c), NextCwd(t, h)} => e \in {CwdOwn(k[p], cwd[p]), NextCwd(k[p], r[p])}
    BY <1>1, <1>7, <1>17
  <2>. QED BY <1>1, <1>7, <1>8, <1>17, <1>19, <2>1 DEF RolesOf
<1>32. Changes(p, t, h, c) BY <1>18, <1>23, <1>24, <1>25, <1>26, <1>27, <1>29, <1>31 DEF Changes
<1>. QED BY <1>24, <1>32, OutStep

\* What a call has to do when it begins, with nothing on top of it yet, and the
\* local variables that go with it.
Base(b, n, z, y, x, g) ==
    /\ Laid(b, n, z, y, x, NoOp) /\ g \in Regs /\ g.old = None
    /\ z = Op(z.op, None) /\ y = Op(y.op, None) /\ x = IF n = 3 THEN Op(x.op, None) ELSE NoOp
    /\ \/ n = 3 /\ z.op = "end_op" /\ y.op = "open_file" /\ x.op = "create" /\ g.parent /\ g.type = "file"
       \/ n = 3 /\ z.op = "end_op" /\ y.op = "open_file" /\ x.op = "open_lock" /\ ~g.parent
       \/ n = 3 /\ z.op = "end_op" /\ y.op = "put_new" /\ x.op = "create" /\ g.parent /\ g.type # "none"
       \/ n = 3 /\ z.op = "end_op" /\ y.op = "link_dir" /\ x.op = "link_count" /\ ~g.parent
       \/ n = 2 /\ z.op = "end_op" /\ y.op = "unlink" /\ g.parent
       \/ n = 3 /\ z.op = "set_cwd" /\ y.op = "end_op" /\ x.op = "chdir" /\ ~g.parent

\* The call has begun: namex() has taken a reference to inode a.
Begun(p, t, h, c, a) ==
    /\ t = k'[p] /\ h = r'[p] /\ a \in Inum
    /\ StackOK(t) /\ RegsOK(t, h)
    /\ InTransaction(t) /\ ~Busy(t) /\ Closing(t) = None /\ Deep(t, 1).op # "fileclose"
    /\ ~Closed(t, h) /\ Dying(t) = None /\ Main(t, h) = None /\ Fresh(t, h) = None
    /\ NextCwd(t, h) = None /\ CwdOwn(t, c) = c
    /\ \A j \in Inum : Total(t, h, c, j) = Is(c, j) + Is(a, j)

LEMMA BegunStep ==
    ASSUME FsInv, NEW p \in Proc, NEW s, NEW g, NEW t, NEW h, NEW c, NEW a,
           Rests(p, s, g, c), c # None, Only(p), Begun(p, t, h, c, a), iget(a),
           outstanding' = outstanding + 1, UNCHANGED <<d, valid, lock, file, ofile, cwd>>
    PROVE  FsInv'
<1>1. t = k'[p] /\ h = r'[p] /\ a \in Inum BY DEF Begun
<1>2. /\ s = k[p] /\ g = r[p] /\ c = cwd[p] /\ s = <<>>
      /\ Main(s, g) = None /\ Dying(s) = None /\ Closing(s) = None /\ ~InTransaction(s)
      /\ CwdOwn(s, c) = c /\ NextCwd(s, g) = None /\ c \in Inum /\ Type(c) = "dir"
      /\ \A j \in Inum : Total(s, g, c, j) = Is(c, j)
  BY DEF Rests
<1>3. Transacting
  <2>1. ~InTransaction(k[p]) /\ InTransaction(k'[p]) BY <1>1, <1>2 DEF Begun
  <2>. QED BY <2>1, Begins
<1>4. Known(t, h, c)
  <2>1. CwdOwn(t, c) = c /\ NextCwd(t, h) = None /\ Main(t, h) = None /\ Fresh(t, h) = None BY DEF Begun
  <2>. QED BY <1>2, <2>1 DEF Known
<1>5. Describing
  <2>1. Closing(k'[p]) = Closing(k[p]) BY <1>1, <1>2 DEF Begun
  <2>. QED BY <2>1, NoneOpened
<1>6. Filing(p) /\ BlocksOwned'
  <2>1. Filing(p) BY SameFiling
  <2>. QED BY <2>1, Parts DEF BlocksOwned
<1>7. Others(p)
  <2>1. ofile \in [Proc -> [Fd -> File \cup {None}]] /\ cwd \in [Proc -> Inum \cup {None}]
    BY Parts DEF TypeOK
  <2>. QED BY <2>1 DEF Others
<1>8. LocalOf(p, t, h)'
  <2>1. cwd'[p] = c BY <1>2
  <2>. QED BY <1>1, <2>1 DEF LocalOf, Begun
<1>9. Referring
  <2>1. ref \in [Inum -> Nat] BY Parts DEF TypeOK
  <2>2. ref' \in [Inum -> Nat] /\ \A j \in Inum : ref'[j] = ref[j] + Is(a, j)
    BY <1>1, <2>1 DEF iget, Is
  <2>3. ASSUME NEW j \in Inum PROVE ref'[j] + Total(s, g, cwd[p], j) = ref[j] + Total(t, h, cwd'[p], j)
    <3>1. Is(c, j) \in Nat /\ ref[j] \in Nat /\ Is(a, j) \in Nat BY <2>1 DEF Is
    <3>2. Total(t, h, c, j) = Is(c, j) + Is(a, j) BY DEF Begun
    <3>. QED BY <1>2, <2>2, <3>1, <3>2
  <2>4. Balanced(p, s, g, t, h) BY <1>1, <1>2, <2>2, <2>3 DEF Balanced
  <2>. QED BY <2>4, Parts, BalancedRefs
<1>10. Locked(p)
  <2>1. Main(k'[p], r'[p]) = Main(k[p], r[p]) /\ Dying(k[p]) = None /\ Dying(k'[p]) = None
    BY <1>1, <1>2 DEF Begun
  <2>. QED BY <2>1, SameLocked
<1>11. RolesOf(p, t, h, c)
  <2>1. \A e \in Inum : e \in {CwdOwn(t, c), NextCwd(t, h)} => e \in {CwdOwn(k[p], cwd[p]), NextCwd(k[p], r[p])}
    BY <1>2, Constants DEF Begun
  <2>. QED BY <1>1, <1>2, <1>4, <2>1 DEF RolesOf, Begun
<1>12. Changes(p, t, h, c) BY <1>3, <1>5, <1>6, <1>7, <1>8, <1>9, <1>10, <1>11 DEF Changes
<1>. QED BY <1>6, <1>12, OutStep

\* namex() is on top of them, or has nothing to do.
OnTop(b, n, t, h, u, a) ==
    \/ /\ u = NoOp /\ Len(t) = n /\ ~h.parent /\ h.ip = a
       /\ \A m \in 1 .. 6 : Deep(t, m) = Deep(b, m)
    \/ /\ u \in {Op("walk", a), Op("iput", a)} /\ Len(t) = n + 1
       /\ u.op = "walk" => h.ip = a /\ h.path # <<>>
       /\ u.op = "iput" => h.ip = None /\ h.parent
       /\ \A m \in 1 .. 6 : Deep(t, m) = IF m = n + 1 THEN u ELSE Deep(b, m)

\* The reference is what the call finds in ip, or what the next iput() gives back.
LEMMA BeginOwns ==
    ASSUME FsInv, NEW p \in Proc, NEW s, NEW g, NEW t, NEW h, NEW c, NEW a, NEW b, NEW n, NEW z, NEW y, NEW x,
           NEW u, Base(b, n, z, y, x, h), Layers(t, Len(t)), StackOK(t), c # None, a \in Inum,
           t = k'[p], h = r'[p], OnTop(b, n, t, h, u, a)
    PROVE  Begun(p, t, h, c, a)
<1>1. /\ Deep(b, 1) = z /\ Deep(b, 2) = y /\ Deep(b, 3) = x
      /\ Deep(b, 4) = NoOp /\ Deep(b, 5) = NoOp /\ Deep(b, 6) = NoOp /\ n \in {2, 3}
      /\ h \in Regs /\ h.old = None
      /\ z = Op(z.op, None) /\ y = Op(y.op, None) /\ x = IF n = 3 THEN Op(x.op, None) ELSE NoOp
      /\ \/ n = 3 /\ z.op = "end_op" /\ y.op = "open_file" /\ x.op = "create" /\ h.parent /\ h.type = "file"
         \/ n = 3 /\ z.op = "end_op" /\ y.op = "open_file" /\ x.op = "open_lock" /\ ~h.parent
         \/ n = 3 /\ z.op = "end_op" /\ y.op = "put_new" /\ x.op = "create" /\ h.parent /\ h.type # "none"
         \/ n = 3 /\ z.op = "end_op" /\ y.op = "link_dir" /\ x.op = "link_count" /\ ~h.parent
         \/ n = 2 /\ z.op = "end_op" /\ y.op = "unlink" /\ h.parent
         \/ n = 3 /\ z.op = "set_cwd" /\ y.op = "end_op" /\ x.op = "chdir" /\ ~h.parent
  BY DEF Base, Laid, Depths
<1>0. \/ /\ u = NoOp /\ Len(t) = n /\ ~h.parent /\ h.ip = a
         /\ \A m \in 1 .. 6 : Deep(t, m) = Deep(b, m)
      \/ /\ u \in {Op("walk", a), Op("iput", a)} /\ Len(t) = n + 1
         /\ u.op = "walk" => h.ip = a /\ h.path # <<>>
         /\ u.op = "iput" => h.ip = None /\ h.parent
         /\ \A m \in 1 .. 6 : Deep(t, m) = IF m = n + 1 THEN u ELSE Deep(b, m)
  BY DEF OnTop
<1>2. /\ Deep(t, 1) = z /\ Deep(t, 2) = y
      /\ Deep(t, 3) = (IF n = 3 THEN x ELSE u)
      /\ Deep(t, 4) = (IF n = 3 THEN u ELSE NoOp)
      /\ Deep(t, 5) = NoOp /\ Deep(t, 6) = NoOp
  BY <1>0, <1>1, Six
<1>3. t # <<>> /\ Head(t) = (IF u = NoOp THEN x ELSE u) /\ (u = NoOp => n = 3)
  <2>1. NoOp.op = "none" /\ Op("walk", a).op = "walk" /\ Op("iput", a).op = "iput" BY DEF Op, NoOp
  <2>2. u = NoOp => n = 3 /\ Len(t) = 3 BY <1>0, <1>1, <2>1
  <2>3. u # NoOp => Len(t) = n + 1 BY <1>0
  <2>4. t # <<>> /\ Head(t) = Deep(t, Len(t)) BY <1>1, <2>2, <2>3 DEF Layers
  <2>5. CASE u = NoOp BY <1>2, <2>2, <2>4, <2>5
  <2>6. CASE u # NoOp
    <3>1. Deep(t, Len(t)) = u
      <4>1. CASE n = 2
        <5>1. Len(t) = 3 BY <2>3, <2>6, <4>1
        <5>. QED BY <1>2, <4>1, <5>1
      <4>2. CASE n = 3
        <5>1. Len(t) = 4 BY <2>3, <2>6, <4>2
        <5>. QED BY <1>2, <4>2, <5>1
      <4>. QED BY <1>1, <4>1, <4>2
    <3>. QED BY <2>4, <2>6, <3>1
  <2>. QED BY <2>2, <2>4, <2>5, <2>6
<1>4. u \in {NoOp, Op("walk", a), Op("iput", a)} /\ u.op \in {"none", "walk", "iput"}
  BY <1>0 DEF NoOp, Op
<1>5. RegsOK(t, h)
  <2>1. \A m \in 1 .. 6 :
          /\ Deep(t, m).op \in {"walk", "create_found", "create_new"} => Deep(t, m).ip = h.ip
          /\ Deep(t, m).op = "walk" => h.path # <<>>
    BY <1>0, <1>1, <1>2, <1>4, Six DEF NoOp, Op
  <2>. QED BY <1>1, <1>2, <1>3, <1>4, <2>1 DEF RegsOK, NoOp, Op
<1>6. /\ InTransaction(t) /\ ~Busy(t) /\ Closing(t) = None /\ Deep(t, 1).op # "fileclose"
      /\ Dying(t) = None
  BY <1>1, <1>2, <1>3, <1>4 DEF InTransaction, Busy, Closing, Dying, NoOp, Op
<1>7. ~Closed(t, h) /\ NextCwd(t, h) = None /\ CwdOwn(t, c) = c
  BY <1>1, <1>2, <1>4 DEF Closed, Leaving, NextCwd, CwdOwn, NoOp, Op
<1>8. Main(t, h) = None /\ Fresh(t, h) = None
  BY <1>1, <1>2, <1>4 DEF Main, Fresh, NoOp, Op, Putting
<1>9. ASSUME NEW j \in Inum PROVE Total(t, h, c, j) = Is(c, j) + Is(a, j)
  <2>1. /\ OpOwn(t, 1) = None /\ OpOwn(t, 2) = None /\ OpOwn(t, 5) = None /\ OpOwn(t, 6) = None
    BY <1>1, <1>2 DEF OpOwn, NoOp, Op, Owning, Putting
  <2>2. OldOwn(t, h) = None /\ DpOwn(t, h) = None
    BY <1>1, <1>2, <1>4 DEF OldOwn, DpOwn, NoOp, Op
  <2>3. Is(None, j) = 0 /\ Is(c, j) \in Nat /\ Is(a, j) \in Nat BY Constants DEF Is
  <2>4. IpOwn(t, h) = h.ip BY <1>1, <1>2 DEF IpOwn, Op
  <2>5. CASE u = Op("iput", a)
    <3>1. h.ip = None BY <1>0, <2>5 DEF Op, NoOp
    <3>2. \/ OpOwn(t, 3) = None /\ OpOwn(t, 4) = a
          \/ OpOwn(t, 3) = a /\ OpOwn(t, 4) = None
      BY <1>1, <1>2, <2>5 DEF OpOwn, NoOp, Op, Owning, Putting
    <3>. QED BY <1>7, <2>1, <2>2, <2>3, <2>4, <3>1, <3>2 DEF Total
  <2>6. CASE u # Op("iput", a)
    <3>1. h.ip = a BY <1>0, <1>4, <2>6 DEF Op, NoOp
    <3>2. OpOwn(t, 3) = None /\ OpOwn(t, 4) = None
      BY <1>1, <1>2, <1>4, <2>6 DEF OpOwn, NoOp, Op, Owning, Putting
    <3>. QED BY <1>7, <2>1, <2>2, <2>3, <2>4, <3>1, <3>2 DEF Total
  <2>. QED BY <2>5, <2>6
<1>. QED BY <1>5, <1>6, <1>7, <1>8, <1>9 DEF Begun

\* A call begins with a path name.
LEMMA BeginStep ==
    ASSUME FsInv, NEW p \in Proc, NEW call, NEW w, NEW g0, NEW ops, NEW b, NEW n, NEW z, NEW y, NEW x,
           Begin(p, call, w, g0, ops), Path(w), b = Ops(ops), Base(b, n, z, y, x, g0)
    PROVE  FsInv'
<1>1. PICK s, g, c, t, h, a : /\ s = k[p] /\ g = r[p] /\ c = cwd[p] /\ t = k'[p] /\ h = r'[p]
                              /\ a = Start(p, w)
  OBVIOUS
<1>2. /\ s = <<>> /\ c # None /\ UNCHANGED <<d, valid, lock, file, ofile, cwd>>
      /\ outstanding' = outstanding + 1 /\ iget(a)
      /\ k' = [k EXCEPT ![p] = namex_ops(p, w, g0) \o b] /\ r' = [r EXCEPT ![p] = namex_regs(p, w, g0)]
  BY <1>1 DEF Begin, Idle
<1>3. Rests(p, s, g, c) BY <1>1, <1>2, Resting
<1>4. t = namex_ops(p, w, g0) \o b /\ h = namex_regs(p, w, g0) /\ Only(p)
  BY <1>1, <1>2, Here DEF Only
<1>5. a \in Inum
  <2>1. c \in Inum BY <1>2, <1>3 DEF Rests
  <2>. QED BY <1>1, <2>1, Constants DEF Start
<1>6. g0 \in Regs /\ w.names \in Seq(Name) /\ Laid(b, n, z, y, x, NoOp) BY DEF Base, Path
<1>7. h = [g0 EXCEPT !.path = w.names, !.ip = IF w.names = <<>> /\ g0.parent THEN None ELSE a]
  BY <1>1, <1>4 DEF namex_regs
<1>8. /\ h \in Regs /\ h.path = w.names /\ h.ip = (IF w.names = <<>> /\ g0.parent THEN None ELSE a)
      /\ h.old = g0.old /\ h.parent = g0.parent /\ h.type = g0.type
  BY <1>5, <1>6, <1>7 DEF Regs
<1>9. Base(b, n, z, y, x, h) BY <1>8 DEF Base
<1>10. /\ StackOK(b) /\ Len(b) = n /\ n \in {2, 3} /\ \A m \in Nat : m > n => Deep(b, m) = NoOp
       /\ Deep(b, n).op \in {"create", "open_lock", "link_count", "unlink", "chdir"}
       /\ Deep(b, n).op \in {"create", "unlink"} <=> g0.parent
  <2>1. n \in {2, 3} BY DEF Base
  <2>2. StackOK(b) /\ Len(b) = n /\ Deep(b, 2) = y /\ Deep(b, 3) = x BY <1>6 DEF Laid, Depths
  <2>3. \A m \in Nat : m > n => Deep(b, m) = NoOp BY <2>2, Layered
  <2>4. \/ n = 2 /\ y.op = "unlink" /\ g0.parent
        \/ n = 3 /\ x.op = "create" /\ g0.parent
        \/ n = 3 /\ x.op \in {"open_lock", "link_count", "chdir"} /\ ~g0.parent
    BY DEF Base
  <2>. QED BY <2>1, <2>2, <2>3, <2>4
<1>11. Begun(p, t, h, c, a)
  <2>1. CASE w.names = <<>> /\ ~g0.parent
    <3>1. PICK u : u = NoOp OBVIOUS
    <3>2. t = <<>> \o b BY <1>4, <2>1 DEF namex_ops
    <3>3. b \in Seq(OpType) BY <1>10 DEF StackOK
    <3>4. t = b BY <3>2, <3>3, ConcatEmptySeq
    <3>5. Layers(t, Len(t)) /\ StackOK(t) BY <1>10, <3>4, Layered
    <3>6. Len(t) = n /\ ~h.parent /\ h.ip = a /\ \A m \in 1 .. 6 : Deep(t, m) = Deep(b, m)
      BY <1>8, <1>10, <2>1, <3>4
    <3>7. OnTop(b, n, t, h, u, a) BY <3>1, <3>6 DEF OnTop
    <3>. QED BY <1>1, <1>2, <1>5, <1>9, <3>5, <3>7, BeginOwns
  <2>2. CASE ~(w.names = <<>> /\ ~g0.parent)
    <3>1. PICK u : u = IF w.names # <<>> THEN Op("walk", a) ELSE Op("iput", a) OBVIOUS
    <3>2. namex_ops(p, w, g0) = <<u>> BY <1>1, <2>2, <3>1 DEF namex_ops
    <3>3. t = <<u>> \o b BY <1>4, <3>2
    <3>4. OpOK(u) /\ u \in {Op("walk", a), Op("iput", a)}
      <4>1. OpOK(Op("walk", a)) /\ OpOK(Op("iput", a)) BY <1>5, GoodOps DEF Owning, Naming, Putting
      <4>. QED BY <3>1, <4>1
    <3>5. Op("walk", a).op = "walk" /\ Op("iput", a).op = "iput" BY DEF Op
    <3>6. u.op \in {"walk", "iput"} /\ (u.op = "iput" => w.names = <<>>) BY <3>1, <3>5
    <3>7. Fits(u.op, n + 1, Deep(b, n).op)
      <4>1. CASE n = 2
        <5>1. Deep(b, n).op = "unlink"
          <6>1. y.op = "unlink" /\ Deep(b, 2) = y BY <4>1, <1>6 DEF Base, Laid, Depths
          <6>. QED BY <4>1, <6>1
        <5>2. n + 1 = 3 BY <4>1
        <5>. QED BY <3>6, <5>1, <5>2 DEF Fits, Putting
      <4>2. CASE n = 3
        <5>1. Deep(b, n).op \in {"create", "open_lock", "link_count", "chdir"}
          <6>1. x.op \in {"create", "open_lock", "link_count", "chdir"} /\ Deep(b, 3) = x
            BY <4>2, <1>6 DEF Base, Laid, Depths
          <6>. QED BY <4>2, <6>1
        <5>2. n + 1 = 4 BY <4>2
        <5>. QED BY <3>6, <5>1, <5>2 DEF Fits, Putting
      <4>. QED BY <1>10, <4>1, <4>2
    <3>8. /\ StackOK(<<u>> \o b) /\ Len(<<u>> \o b) = Len(b) + 1
          /\ \A m \in Nat : Deep(<<u>> \o b, m) = IF m = Len(b) + 1 THEN u ELSE Deep(b, m)
      <4>1. Len(b) < 6 /\ Fits(u.op, Len(b) + 1, Deep(b, Len(b)).op) BY <1>10, <3>7
      <4>. QED BY <1>10, <3>4, <4>1, Put1
    <3>9. StackOK(t) /\ Len(t) = n + 1 /\ \A m \in 1 .. 6 : Deep(t, m) = IF m = n + 1 THEN u ELSE Deep(b, m)
      BY <1>10, <3>3, <3>8
    <3>10. Layers(t, Len(t)) BY <3>9, Layered
    <3>11. /\ u.op = "walk" => h.ip = a /\ h.path # <<>>
           /\ u.op = "iput" => h.ip = None /\ h.parent
      BY <1>8, <2>2, <3>1, <3>5
    <3>12. OnTop(b, n, t, h, u, a) BY <3>4, <3>9, <3>11 DEF OnTop
    <3>. QED BY <1>1, <1>2, <1>5, <1>9, <3>9, <3>10, <3>12, BeginOwns
  <2>. QED BY <2>1, <2>2
<1>. QED BY <1>2, <1>3, <1>4, <1>11, BegunStep

LEMMA OpsOf ==
    /\ \A a, b : Ops(<<a, b>>) = <<Op(a, None), Op(b, None)>>
    /\ \A a, b, c : Ops(<<a, b, c>>) = <<Op(a, None), Op(b, None), Op(c, None)>>
<1>1. ASSUME NEW a, NEW b PROVE Ops(<<a, b>>) = <<Op(a, None), Op(b, None)>>
  BY DEF Ops
<1>2. ASSUME NEW a, NEW b, NEW c PROVE Ops(<<a, b, c>>) = <<Op(a, None), Op(b, None), Op(c, None)>>
  BY DEF Ops
<1>. QED BY <1>1, <1>2

\* The three operations of most calls.
LEMMA Base3 ==
    ASSUME NEW l3 \in {"create", "open_lock", "link_count", "chdir"},
           NEW l2 \in {"open_file", "put_new", "link_dir", "end_op"},
           NEW l1 \in {"end_op", "set_cwd"}, NEW g \in Regs, g.old = None,
           \/ l1 = "end_op" /\ l2 = "open_file" /\ l3 = "create" /\ g.parent /\ g.type = "file"
           \/ l1 = "end_op" /\ l2 = "open_file" /\ l3 = "open_lock" /\ ~g.parent
           \/ l1 = "end_op" /\ l2 = "put_new" /\ l3 = "create" /\ g.parent /\ g.type # "none"
           \/ l1 = "end_op" /\ l2 = "link_dir" /\ l3 = "link_count" /\ ~g.parent
           \/ l1 = "set_cwd" /\ l2 = "end_op" /\ l3 = "chdir" /\ ~g.parent
    PROVE  Base(Ops(<<l3, l2, l1>>), 3, Op(l1, None), Op(l2, None), Op(l3, None), g)
<1>1. PICK x, y, z : x = Op(l3, None) /\ y = Op(l2, None) /\ z = Op(l1, None) OBVIOUS
<1>2. x.op = l3 /\ y.op = l2 /\ z.op = l1 BY <1>1 DEF Op
<1>3. OpOK(x) /\ OpOK(y) /\ OpOK(z)
  <2>1. l3 \in Operations \ (Owning \cup Naming \cup {"fileclose"}) 
    BY DEF Operations, Locking, Owning, Naming, Putting
  <2>2. l2 \in Operations \ (Owning \cup Naming \cup {"fileclose"}) 
    BY DEF Operations, Locking, Owning, Naming, Putting
  <2>3. l1 \in Operations \ (Owning \cup Naming \cup {"fileclose"}) 
    BY DEF Operations, Locking, Owning, Naming, Putting
  <2>. QED BY <1>1, <2>1, <2>2, <2>3, GoodOps
<1>4. Fits(z.op, 1, "none") /\ Fits(y.op, 2, z.op) /\ Fits(x.op, 3, y.op) BY <1>2 DEF Fits
<1>5. Laid(<<x, y, z>>, 3, z, y, x, NoOp) BY <1>3, <1>4, Stack3
<1>6. Ops(<<l3, l2, l1>>) = <<x, y, z>> BY <1>1, OpsOf
<1>7. Base(<<x, y, z>>, 3, z, y, x, g) BY <1>1, <1>2, <1>5 DEF Base
<1>. QED BY <1>1, <1>6, <1>7

LEMMA Base2 ==
    ASSUME NEW g \in Regs, g.old = None, g.parent
    PROVE  Base(Ops(<<"unlink", "end_op">>), 2, Op("end_op", None), Op("unlink", None), NoOp, g)
<1>1. PICK y, z : y = Op("unlink", None) /\ z = Op("end_op", None) OBVIOUS
<1>2. y.op = "unlink" /\ z.op = "end_op" BY <1>1 DEF Op
<1>3. OpOK(y) /\ OpOK(z)
  <2>1. {"unlink", "end_op"} \subseteq Operations \ (Owning \cup Naming \cup {"fileclose"}) 
    BY DEF Operations, Locking, Owning, Naming, Putting
  <2>. QED BY <1>1, <2>1, GoodOps
<1>4. Fits(z.op, 1, "none") /\ Fits(y.op, 2, z.op) BY <1>2 DEF Fits
<1>5. Laid(<<y, z>>, 2, z, y, NoOp, NoOp) BY <1>3, <1>4, Stack2
<1>6. Ops(<<"unlink", "end_op">>) = <<y, z>> BY <1>1, OpsOf
<1>7. Base(<<y, z>>, 2, z, y, NoOp, g) BY <1>1, <1>2, <1>5 DEF Base
<1>. QED BY <1>1, <1>6, <1>7

\* What the calls begin with.
LEMMA Beginnings ==
    /\ NoRegs \in Regs /\ NoRegs.old = None /\ ~NoRegs.parent
    /\ \A m \in {"file", "dir", "dev"} : /\ Making(m) \in Regs /\ Making(m).old = None
                                         /\ Making(m).parent /\ Making(m).type = m
<1>1. NoRegs \in Regs BY EmptyStack
<1>2. NoRegs.old = None /\ ~NoRegs.parent BY DEF NoRegs
<1>3. ASSUME NEW m \in {"file", "dir", "dev"}
      PROVE  Making(m) \in Regs /\ Making(m).old = None /\ Making(m).parent /\ Making(m).type = m
  BY <1>1, <1>2 DEF Making, Regs
<1>. QED BY <1>1, <1>2, <1>3


\* open(), mkdir(), mknod(), link(), unlink() and chdir().
LEMMA SysOpenStep ==
    ASSUME FsInv, NEW p \in Proc, NEW w, NEW m, NEW e, Path(w), m \in BOOLEAN, sys_open(p, w, m, e)
    PROVE  FsInv'
<1>1. CASE e
  <2>1. PICK g : g = [Making("file") EXCEPT !.writable = m] OBVIOUS
  <2>2. g \in Regs /\ g.old = None /\ g.parent /\ g.type = "file" BY <2>1, Beginnings DEF Regs
  <2>3. PICK l3, l2, l1 : l3 = "create" /\ l2 = "open_file" /\ l1 = "end_op" OBVIOUS
  <2>4. Base(Ops(<<l3, l2, l1>>), 3, Op(l1, None), Op(l2, None), Op(l3, None), g) BY <2>2, <2>3, Base3
  <2>5. Begin(p, "open", w, g, <<l3, l2, l1>>) BY <1>1, <2>1, <2>3 DEF sys_open
  <2>. QED BY <2>4, <2>5, BeginStep
<1>2. CASE ~e
  <2>1. PICK g : g = [NoRegs EXCEPT !.writable = m] OBVIOUS
  <2>2. g \in Regs /\ g.old = None /\ ~g.parent BY <2>1, Beginnings DEF Regs
  <2>3. PICK l3, l2, l1 : l3 = "open_lock" /\ l2 = "open_file" /\ l1 = "end_op" OBVIOUS
  <2>4. Base(Ops(<<l3, l2, l1>>), 3, Op(l1, None), Op(l2, None), Op(l3, None), g) BY <2>2, <2>3, Base3
  <2>5. Begin(p, "open", w, g, <<l3, l2, l1>>) BY <1>2, <2>1, <2>3 DEF sys_open
  <2>. QED BY <2>4, <2>5, BeginStep
<1>. QED BY <1>1, <1>2

LEMMA SysMkdirStep == ASSUME FsInv, NEW p \in Proc, NEW w, Path(w), sys_mkdir(p, w) PROVE FsInv'
<1>1. PICK g : g = Making("dir") OBVIOUS
<1>2. g \in Regs /\ g.old = None /\ g.parent /\ g.type # "none" BY <1>1, Beginnings
<1>3. PICK l3, l2, l1 : l3 = "create" /\ l2 = "put_new" /\ l1 = "end_op" OBVIOUS
<1>4. Base(Ops(<<l3, l2, l1>>), 3, Op(l1, None), Op(l2, None), Op(l3, None), g) BY <1>2, <1>3, Base3
<1>5. Begin(p, "mkdir", w, g, <<l3, l2, l1>>) BY <1>1, <1>3 DEF sys_mkdir
<1>. QED BY <1>4, <1>5, BeginStep

LEMMA SysMknodStep == ASSUME FsInv, NEW p \in Proc, NEW w, Path(w), sys_mknod(p, w) PROVE FsInv'
<1>1. PICK g : g = Making("dev") OBVIOUS
<1>2. g \in Regs /\ g.old = None /\ g.parent /\ g.type # "none" BY <1>1, Beginnings
<1>3. PICK l3, l2, l1 : l3 = "create" /\ l2 = "put_new" /\ l1 = "end_op" OBVIOUS
<1>4. Base(Ops(<<l3, l2, l1>>), 3, Op(l1, None), Op(l2, None), Op(l3, None), g) BY <1>2, <1>3, Base3
<1>5. Begin(p, "mknod", w, g, <<l3, l2, l1>>) BY <1>1, <1>3 DEF sys_mknod
<1>. QED BY <1>4, <1>5, BeginStep

LEMMA SysLinkStep ==
    ASSUME FsInv, NEW p \in Proc, NEW w, Path(w), NEW new, Path(new), sys_link(p, w, new) PROVE FsInv'
<1>1. PICK g : g = [NoRegs EXCEPT !.new = new] OBVIOUS
<1>2. g \in Regs /\ g.old = None /\ ~g.parent BY <1>1, Beginnings DEF Regs, Path
<1>3. PICK l3, l2, l1 : l3 = "link_count" /\ l2 = "link_dir" /\ l1 = "end_op" OBVIOUS
<1>4. Base(Ops(<<l3, l2, l1>>), 3, Op(l1, None), Op(l2, None), Op(l3, None), g) BY <1>2, <1>3, Base3
<1>5. Begin(p, "link", w, g, <<l3, l2, l1>>) BY <1>1, <1>3 DEF sys_link
<1>. QED BY <1>4, <1>5, BeginStep

LEMMA SysChdirStep == ASSUME FsInv, NEW p \in Proc, NEW w, Path(w), sys_chdir(p, w) PROVE FsInv'
<1>1. PICK g : g = NoRegs OBVIOUS
<1>2. g \in Regs /\ g.old = None /\ ~g.parent BY <1>1, Beginnings
<1>3. PICK l3, l2, l1 : l3 = "chdir" /\ l2 = "end_op" /\ l1 = "set_cwd" OBVIOUS
<1>4. Base(Ops(<<l3, l2, l1>>), 3, Op(l1, None), Op(l2, None), Op(l3, None), g) BY <1>2, <1>3, Base3
<1>5. Begin(p, "chdir", w, g, <<l3, l2, l1>>) BY <1>1, <1>3 DEF sys_chdir
<1>. QED BY <1>4, <1>5, BeginStep

LEMMA SysUnlinkStep == ASSUME FsInv, NEW p \in Proc, NEW w, Path(w), sys_unlink(p, w) PROVE FsInv'
<1>1. PICK g : g = [NoRegs EXCEPT !.parent = TRUE] OBVIOUS
<1>2. g \in Regs /\ g.old = None /\ g.parent BY <1>1, Beginnings DEF Regs
<1>3. PICK l2, l1 : l2 = "unlink" /\ l1 = "end_op" OBVIOUS
<1>4. Base(Ops(<<l2, l1>>), 2, Op(l1, None), Op(l2, None), NoOp, g) BY <1>2, <1>3, Base2
<1>5. Begin(p, "unlink", w, g, <<l2, l1>>) BY <1>1, <1>3 DEF sys_unlink
<1>. QED BY <1>4, <1>5, BeginStep

\* fork() gives the child what the parent has open.
Shares(p, q, n) ==
    /\ ofile' = [ofile EXCEPT ![q] = ofile[p]] /\ UNCHANGED k
    /\ n = [f \in File |-> Cardinality({fd \in Fd : ofile[p][fd] = f})]
    /\ file' = [f \in File |-> [file[f] EXCEPT !.ref = @ + n[f]]]

LEMMA Sharing ==
    ASSUME FsInv, NEW p \in Proc, NEW q \in Proc, p # q, NEW n, Shares(p, q, n),
           \A fd \in Fd : ofile[q][fd] = None
    PROVE  /\ Describing /\ ofile' \in [Proc -> [Fd -> File \cup {None}]]
           /\ \A x \in Proc \ {q} : ofile'[x] = ofile[x]
           /\ \A f \in File : file'[f].ip = file[f].ip /\ file'[f].writable = file[f].writable
<1>0. /\ ofile' = [ofile EXCEPT ![q] = ofile[p]] /\ UNCHANGED k
      /\ n = [f \in File |-> Cardinality({fd \in Fd : ofile[p][fd] = f})]
      /\ file' = [f \in File |-> [file[f] EXCEPT !.ref = @ + n[f]]]
  BY DEF Shares
<1>1. ofile \in [Proc -> [Fd -> File \cup {None}]] BY Parts DEF TypeOK
<1>2. /\ ofile'[q] = ofile[p] /\ \A x \in Proc \ {q} : ofile'[x] = ofile[x]
      /\ ofile' \in [Proc -> [Fd -> File \cup {None}]]
  BY <1>0, <1>1
<1>3. ASSUME NEW f \in File
      PROVE  /\ n[f] \in Nat /\ Count(Descriptors, f)' = file[f].ref + n[f]
             /\ file[f].ref \in Nat /\ (file[f].ref = 0 => n[f] = 0)
  <2>1. PICK D, S, A, B : /\ D = Proc \X (0 .. NOFILE) /\ S = {fd \in Fd : ofile[p][fd] = f}
                          /\ A = {x \in D : Descriptors[x] = f} /\ B = {q} \X S
    OBVIOUS
  <2>2. n[f] = Cardinality(S) BY <1>0, <2>1
  <2>3. IsFiniteSet(D) /\ DOMAIN Descriptors = D /\ DOMAIN Descriptors' = D
    BY <2>1, DescriptorPlaces DEF Descriptors
  <2>4. file[f].ref = Cardinality(A) BY <2>1, <2>3, Parts DEF Counts, Count
  <2>5. IsFiniteSet(S) /\ IsFiniteSet(A) BY <2>1, <2>3, Constants, FS_Subset
  <2>6. IsFiniteSet({q}) /\ Cardinality({q}) = 1 BY FS_Singleton
  <2>7. /\ Cardinality(S) \in Nat /\ Cardinality(A) \in Nat
        /\ IsFiniteSet(B) /\ Cardinality(B) = 1 * Cardinality(S)
    BY <2>1, <2>5, <2>6, FS_CardinalityType, FS_Product
  <2>8. A \cap B = {}
    <3>1. \A x \in B : x = <<q, x[2]>> /\ x[2] \in Fd BY <2>1
    <3>2. \A fd \in Fd : Descriptors[<<q, fd>>] = None BY DescriptorPlaces
    <3>3. \A x \in B : Descriptors[x] = None BY <3>1, <3>2
    <3>4. f # None BY Constants
    <3>. QED BY <2>1, <3>3, <3>4
  <2>9. {x \in D : Descriptors'[x] = f} = A \cup B
    <3>1. ASSUME NEW x \in D PROVE Descriptors'[x] = f <=> x \in A \cup B
      <4>1. x = <<x[1], x[2]>> /\ x[1] \in Proc /\ x[2] \in 0 .. NOFILE BY <2>1
      <4>2. NOFILE \in Nat BY Constants
      <4>3. CASE x[1] = q /\ x[2] < NOFILE
        <5>1. x[2] \in Fd BY <4>1, <4>2, <4>3 DEF Fd
        <5>2. Descriptors'[x] = ofile[p][x[2]] BY <2>1, <1>2, <4>3 DEF Descriptors
        <5>3. Descriptors[x] = None BY <4>1, <4>3, <5>1, DescriptorPlaces
        <5>4. f # None BY Constants
        <5>5. x \notin A BY <2>1, <5>3, <5>4
        <5>6. x \in B <=> ofile[p][x[2]] = f BY <2>1, <4>1, <4>3, <5>1
        <5>. QED BY <5>2, <5>5, <5>6
      <4>4. CASE ~(x[1] = q /\ x[2] < NOFILE)
        <5>1. Descriptors'[x] = Descriptors[x]
          <6>1. CASE x[2] < NOFILE BY <2>1, <1>2, <4>1, <4>4, <6>1 DEF Descriptors
          <6>2. CASE ~(x[2] < NOFILE) BY <2>1, <1>0, <4>1, <6>2 DEF Descriptors
          <6>. QED BY <6>1, <6>2
        <5>2. x \notin B
          <6>1. \A fd \in Fd : fd < NOFILE BY <4>2 DEF Fd
          <6>2. x \in B => x[1] = q /\ x[2] \in Fd BY <2>1
          <6>. QED BY <4>4, <6>1, <6>2
        <5>. QED BY <2>1, <5>1, <5>2
      <4>. QED BY <4>3, <4>4
    <3>2. A \cup B \subseteq D
      <4>1. NOFILE \in Nat BY Constants
      <4>2. Fd \subseteq 0 .. NOFILE BY <4>1 DEF Fd
      <4>. QED BY <2>1, <4>2
    <3>. QED BY <3>1, <3>2
  <2>10. Cardinality(A \cup B) = Cardinality(A) + Cardinality(B) - Cardinality(A \cap B)
    BY <2>5, <2>7, FS_Union
  <2>11. Cardinality(A \cap B) = 0 BY <2>8, FS_EmptySet
  <2>12. Count(Descriptors, f)' = Cardinality(A \cup B) BY <2>3, <2>9 DEF Count
  <2>13. file[f].ref = 0 => n[f] = 0
    <3>1. CASE S = {} BY <2>2, <3>1, FS_EmptySet
    <3>2. CASE S # {}
      <4>1. PICK fd \in Fd : ofile[p][fd] = f BY <2>1, <3>2
      <4>2. <<p, fd>> \in Proc \X (0 .. NOFILE) /\ Descriptors[<<p, fd>>] = f BY <4>1, DescriptorPlaces
      <4>3. file[f].ref \in Nat /\ file[f].ref > 0 BY <4>2, Parts, OpenOnce
      <4>. QED BY <4>3
    <3>. QED BY <3>1, <3>2
  <2>. QED BY <2>2, <2>4, <2>7, <2>10, <2>11, <2>12, <2>13
<1>4. ASSUME NEW f \in File
      PROVE  /\ file'[f] \in [ref : Nat, ip : Inum \cup {None}, off : 0 .. MAXFILE, writable : BOOLEAN]
             /\ file'[f].ref = file[f].ref + n[f] /\ file'[f].ip = file[f].ip
             /\ file'[f].writable = file[f].writable
             /\ (n[f] = 0 => file'[f] = file[f])
  <2>1. file[f] \in [ref : Nat, ip : Inum \cup {None}, off : 0 .. MAXFILE, writable : BOOLEAN]
    BY Parts DEF TypeOK
  <2>2. file'[f] = [file[f] EXCEPT !.ref = @ + n[f]] BY <1>0
  <2>3. n[f] \in Nat /\ file[f].ref \in Nat BY <1>3
  <2>. QED BY <2>1, <2>2, <2>3
<1>5. file' \in [File -> [ref : Nat, ip : Inum \cup {None}, off : 0 .. MAXFILE, writable : BOOLEAN]]
  BY <1>0, <1>4
<1>6. ASSUME NEW f \in File PROVE IF file'[f].ref = 0 THEN file'[f] = NoFile ELSE file'[f].ip # None
  <2>1. IF file[f].ref = 0 THEN file[f] = NoFile ELSE file[f].ip # None BY Parts DEF Counts
  <2>. QED BY <1>3, <1>4, <2>1
<1>7. \A f \in File : file'[f].ref = Count(Descriptors, f)' BY <1>3, <1>4
<1>8. Describing BY <1>5, <1>6, <1>7 DEF Describing
<1>. QED BY <1>2, <1>4, <1>8

\* fork().
LEMMA ForkStep == ASSUME FsInv, NEW p \in Proc, NEW q \in Proc, fork(p, q) PROVE FsInv'
<1>1. PICK s, g, c, n, none : /\ s = k[q] /\ g = r[q] /\ c = cwd[p] /\ none = None
                              /\ n = [f \in File |-> Cardinality({fd \in Fd : ofile[p][fd] = f})]
  OBVIOUS
<1>2. /\ k[p] = <<>> /\ c # None /\ s = <<>> /\ cwd[q] = None /\ p # q
      /\ UNCHANGED <<d, outstanding, valid, lock, k, r>> /\ iget(c)
      /\ cwd' = [cwd EXCEPT ![q] = c]
  BY <1>1 DEF fork, Idle, iget
<1>3. Shares(p, q, n) BY <1>1 DEF fork, Shares
<1>4. Rests(q, s, g, none) BY <1>1, <1>2, Resting
<1>5. c \in Inum /\ Type(c) = "dir" /\ CwdOwn(k[p], cwd[p]) = c
  <2>1. PICK s2, g2 : s2 = k[p] /\ g2 = r[p] OBVIOUS
  <2>2. Rests(p, s2, g2, c) BY <1>1, <1>2, <2>1, Resting
  <2>. QED BY <1>1, <1>2, <2>1, <2>2 DEF Rests
<1>6. /\ g = NoRegs /\ (\A m \in Nat : Deep(s, m) = NoOp) /\ Closing(s) = None
      /\ Main(s, g) = None /\ Dying(s) = None /\ Fresh(s, g) = None /\ NextCwd(s, g) = None
      /\ \A j \in Inum : Total(s, g, none, j) = Is(none, j)
  BY <1>4 DEF Rests
<1>7. /\ Deep(s, 1) = NoOp /\ Deep(s, 2) = NoOp /\ Deep(s, 3) = NoOp
      /\ Deep(s, 4) = NoOp /\ Deep(s, 5) = NoOp /\ Deep(s, 6) = NoOp
  BY <1>6
<1>8. Only(q) /\ s = k'[q] /\ g = r'[q] BY <1>1, <1>2, Here DEF Only
<1>9. /\ Describing /\ ofile' \in [Proc -> [Fd -> File \cup {None}]]
      /\ \A x \in Proc \ {q} : ofile'[x] = ofile[x]
      /\ \A f \in File : file'[f].ip = file[f].ip /\ file'[f].writable = file[f].writable
  <2>1. \A fd \in Fd : ofile[q][fd] = None BY <1>2, Parts DEF Local
  <2>. QED BY <1>2, <1>3, <2>1, Sharing
<1>10. cwd' \in [Proc -> Inum \cup {None}] /\ cwd'[q] = c /\ \A x \in Proc \ {q} : cwd'[x] = cwd[x]
  <2>1. cwd \in [Proc -> Inum \cup {None}] BY Parts DEF TypeOK
  <2>. QED BY <1>2, <1>5, <2>1
<1>11. Others(q)
  <2>1. \A x \in Proc : Busy(k[x]) => r[x].file \in File BY BusyOpen
  <2>. QED BY <1>8, <1>9, <1>10, <2>1 DEF Others
<1>12. CwdOwn(s, c) = c /\ ~Busy(s) /\ ~Closed(s, g) /\ Deep(s, 1).op # "fileclose"
  BY <1>7 DEF CwdOwn, Busy, Closed, Leaving, NoOp, Op
<1>13. LocalOf(q, s, g)'
  <2>1. StackOK(s) /\ RegsOK(s, g) BY <1>1, Here
  <2>. QED BY <1>2, <1>8, <1>10, <1>12, <2>1 DEF LocalOf
<1>14. Known(s, g, c) BY <1>5, <1>6, <1>12 DEF Known
<1>15. Referring
  <2>1. ref \in [Inum -> Nat] BY Parts DEF TypeOK
  <2>2. ref' \in [Inum -> Nat] /\ \A j \in Inum : ref'[j] = ref[j] + Is(c, j)
    BY <1>2, <1>5, <2>1 DEF iget, Is
  <2>3. ASSUME NEW j \in Inum PROVE ref'[j] + Total(s, g, cwd[q], j) = ref[j] + Total(s, g, cwd'[q], j)
    <3>1. \A m \in 1 .. 6 : OpOwn(s, m) = None BY <1>7, Six DEF OpOwn, NoOp, Op, Owning, Putting
    <3>2. IpOwn(s, g) = None /\ OldOwn(s, g) = None /\ DpOwn(s, g) = None
      BY <1>7 DEF IpOwn, OldOwn, DpOwn, NoOp, Op
    <3>3. Is(None, j) = 0 /\ Is(none, j) = 0 /\ Is(c, j) \in Nat /\ ref[j] \in Nat
      BY <1>1, <2>1, Constants DEF Is
    <3>4. /\ OpOwn(s, 1) = None /\ OpOwn(s, 2) = None /\ OpOwn(s, 3) = None
          /\ OpOwn(s, 4) = None /\ OpOwn(s, 5) = None /\ OpOwn(s, 6) = None
      BY <3>1
    <3>5. Total(s, g, c, j) = Is(c, j) BY <1>12, <3>2, <3>3, <3>4 DEF Total
    <3>. QED BY <1>1, <1>2, <1>6, <1>10, <2>2, <3>3, <3>5
  <2>4. Balanced(q, s, g, s, g) BY <1>1, <1>8, <1>9, <1>10, <2>2, <2>3 DEF Balanced
  <2>. QED BY <2>4, Parts, BalancedRefs
<1>16. Transacting
  <2>1. InTransaction(k[q]) <=> InTransaction(k'[q]) BY <1>2
  <2>. QED BY <1>2, <1>8, <2>1, Stays
<1>17. Locked(q)
  <2>1. Main(k'[q], r'[q]) = Main(k[q], r[q]) /\ Dying(k[q]) = None /\ Dying(k'[q]) = None
    BY <1>1, <1>2, <1>6
  <2>. QED BY <1>2, <2>1, SameLocked
<1>18. Filing(q) /\ BlocksOwned'
  <2>1. \A f \in File : file'[f].ip = file[f].ip /\ (file'[f].writable => file[f].writable) BY <1>9
  <2>2. Filing(q) BY <1>2, <2>1, SameFiling
  <2>. QED BY <1>2, <2>2, Parts DEF BlocksOwned
<1>19. RolesOf(q, s, g, c)
  <2>1. \A e \in Inum : e \in {CwdOwn(s, c), NextCwd(s, g)} =>
           \E x \in Proc : e \in {CwdOwn(k[x], cwd[x]), NextCwd(k[x], r[x])}
    BY <1>5, <1>6, <1>12, Constants
  <2>. QED BY <1>1, <1>6, <1>8, <1>10, <1>14, <2>1 DEF RolesOf
<1>20. Changes(q, s, g, c) BY <1>9, <1>11, <1>13, <1>15, <1>16, <1>17, <1>18, <1>19 DEF Changes
<1>. QED BY <1>18, <1>20, OutStep

\* userinit(), and what mkfs has made.
LEMMA AtStart ==
    ASSUME Init
    PROVE  /\ \A p \in Proc : /\ StackOK(k[p]) /\ RegsOK(k[p], r[p]) /\ k[p] = <<>> /\ r[p] = NoRegs
                              /\ \A m \in 1 .. 6 : Deep(k[p], m) = NoOp
                              /\ Main(k[p], r[p]) = None /\ Dying(k[p]) = None /\ Fresh(k[p], r[p]) = None
                              /\ NextCwd(k[p], r[p]) = None /\ CwdOwn(k[p], cwd[p]) = cwd[p]
                              /\ ~Busy(k[p]) /\ ~InTransaction(k[p]) /\ Closing(k[p]) = None
                              /\ \A m \in 1 .. 9 : OwnOf(k[p], r[p], cwd[p])[m] = None
                              /\ OwnOf(k[p], r[p], cwd[p])[10] = cwd[p]
           /\ program \in Programs /\ DOMAIN k = Proc /\ DOMAIN r = Proc
           /\ \A p \in Proc : cwd[p] = IF program[p].boot THEN ROOTINO ELSE None
           /\ \A f \in File : file[f] = NoFile
           /\ \A p \in Proc : \A fd \in Fd : ofile[p][fd] = None
<1>1. /\ \A p \in Proc : k[p] = <<>> /\ r[p] = NoRegs /\ cwd[p] = IF program[p].boot THEN ROOTINO ELSE None
      /\ program \in Programs /\ DOMAIN k = Proc /\ DOMAIN r = Proc
      /\ \A f \in File : file[f] = NoFile
      /\ \A p \in Proc : \A fd \in Fd : ofile[p][fd] = None
  BY DEF Init
<1>2. ASSUME NEW p \in Proc, NEW s, NEW g, NEW c, s = k[p], g = r[p], c = cwd[p]
      PROVE  /\ StackOK(s) /\ RegsOK(s, g)
             /\ \A m \in 1 .. 6 : Deep(s, m) = NoOp
             /\ Main(s, g) = None /\ Dying(s) = None /\ Fresh(s, g) = None
             /\ NextCwd(s, g) = None /\ CwdOwn(s, c) = c
             /\ ~Busy(s) /\ ~InTransaction(s) /\ Closing(s) = None
             /\ \A m \in 1 .. 9 : OwnOf(s, g, c)[m] = None
             /\ OwnOf(s, g, c)[10] = c
  <2>1. s = <<>> /\ g = NoRegs BY <1>1, <1>2
  <2>2. StackOK(s) /\ RegsOK(s, g) /\ \A m \in 1 .. 6 : Deep(s, m) = NoOp BY <2>1, EmptyStack
  <2>3. /\ Deep(s, 1) = NoOp /\ Deep(s, 2) = NoOp /\ Deep(s, 3) = NoOp
        /\ Deep(s, 4) = NoOp /\ Deep(s, 5) = NoOp /\ Deep(s, 6) = NoOp
    BY <2>2
  <2>4. /\ Main(s, g) = None /\ Dying(s) = None /\ Fresh(s, g) = None
        /\ NextCwd(s, g) = None /\ CwdOwn(s, c) = c
        /\ ~Busy(s) /\ ~InTransaction(s) /\ Closing(s) = None
    BY <2>1, <2>3 DEF Main, Dying, Fresh, NextCwd, CwdOwn, Busy, InTransaction, Closing, NoOp, Op, Putting
  <2>5. \A m \in 1 .. 6 : OpOwn(s, m) = None BY <2>2 DEF OpOwn, NoOp, Op, Owning, Putting
  <2>6. IpOwn(s, g) = None /\ OldOwn(s, g) = None /\ DpOwn(s, g) = None
    BY <2>3 DEF IpOwn, OldOwn, DpOwn, NoOp, Op
  <2>7. \A m \in 1 .. 9 : m \in 1 .. 6 \/ m = 7 \/ m = 8 \/ m = 9 OBVIOUS
  <2>8. \A m \in 1 .. 9 : OwnOf(s, g, c)[m] = None BY <2>5, <2>6, <2>7, Slots
  <2>9. OwnOf(s, g, c)[10] = c BY <2>4, Slots
  <2>. QED BY <2>2, <2>4, <2>8, <2>9
<1>. QED BY <1>1, <1>2

LEMMA RootCount ==
    ASSUME Init, NEW i \in Inum
    PROVE  ref[i] = Count(Owned, i) /\ ref[i] \in Nat
<1>1. PICK D, A, B : /\ D = (Proc \X (1 .. 10)) \cup ({0} \X File)
                     /\ A = {x \in D : Owned[x] = i} /\ B = {p \in Proc : program[p].boot}
  OBVIOUS
<1>2. DOMAIN Owned = D BY <1>1 DEF Owned
<1>3. i # None /\ ROOTINO \in Inum /\ 0 \notin Proc BY Constants
<1>4. IsFiniteSet(B) /\ Cardinality(B) \in Nat BY <1>1, Constants, FS_Subset, FS_CardinalityType
<1>5. ref[i] = IF i = ROOTINO THEN Cardinality(B) ELSE 0 BY <1>1 DEF Init
<1>6. ASSUME NEW x \in D
      PROVE  Owned[x] = i <=> i = ROOTINO /\ x \in B \X {10}
  <2>1. CASE x[1] = 0
    <3>1. x[2] \in File /\ Owned[x] = file[x[2]].ip BY <1>1, <1>3, <2>1 DEF Owned
    <3>2. Owned[x] = None BY <3>1, AtStart DEF NoFile
    <3>3. x \notin B \X {10} BY <1>1, <1>3, <2>1
    <3>. QED BY <1>3, <3>2, <3>3
  <2>2. CASE x[1] # 0
    <3>1. x[1] \in Proc /\ x[2] \in 1 .. 10 /\ x = <<x[1], x[2]>> BY <1>1, <2>2
    <3>2. Owned[x] = OwnOf(k[x[1]], r[x[1]], cwd[x[1]])[x[2]] BY <1>1, <2>2 DEF Owned
    <3>3. CASE x[2] = 10
      <4>1. Owned[x] = cwd[x[1]] BY <3>1, <3>2, <3>3, AtStart
      <4>2. Owned[x] = IF program[x[1]].boot THEN ROOTINO ELSE None BY <3>1, <4>1, AtStart
      <4>3. x \in B \X {10} <=> x[1] \in B BY <3>1, <3>3
      <4>4. x[1] \in B <=> program[x[1]].boot BY <1>1, <3>1
      <4>. QED BY <1>3, <4>2, <4>3, <4>4
    <3>4. CASE x[2] # 10
      <4>1. x[2] \in 1 .. 9 BY <3>1, <3>4
      <4>2. Owned[x] = None BY <3>1, <3>2, <4>1, AtStart
      <4>3. x \notin B \X {10} BY <3>4
      <4>. QED BY <1>3, <4>2, <4>3
    <3>. QED BY <3>3, <3>4
  <2>. QED BY <2>1, <2>2
<1>7. CASE i = ROOTINO
  <2>1. B \X {10} \subseteq D BY <1>1
  <2>2. A = B \X {10} BY <1>1, <1>6, <1>7, <2>1
  <2>3. IsFiniteSet({10}) /\ Cardinality({10}) = 1 BY FS_Singleton
  <2>4. Cardinality(B \X {10}) = Cardinality(B) * 1 BY <1>4, <2>3, FS_Product
  <2>5. Count(Owned, i) = Cardinality(A) BY <1>1, <1>2 DEF Count
  <2>6. Cardinality(A) = Cardinality(B) BY <1>4, <2>2, <2>4
  <2>. QED BY <1>4, <1>5, <1>7, <2>5, <2>6
<1>8. CASE i # ROOTINO
  <2>1. A = {} BY <1>1, <1>6, <1>8
  <2>. QED BY <1>1, <1>2, <1>5, <1>8, <2>1, FS_EmptySet DEF Count
<1>. QED BY <1>7, <1>8

LEMMA StartDisk ==
    ASSUME Init
    PROVE  /\ d \in Disks /\ BlocksOwned /\ Offsets
           /\ \A i \in Inum : IF i = ROOTINO THEN Type(i) = "dir"
                              ELSE d.ino[i] = FreeInode /\ d.ent[i] = NoEntries
<1>1. d = Mkfs /\ ROOTINO \in Inum /\ 1 \in Block BY Constants DEF Init
<1>2. /\ d.used = {1}
      /\ d.ino = [i \in Inum |-> IF i = ROOTINO
                   THEN [type |-> "dir", nlink |-> 1, addrs |-> <<1>>] ELSE FreeInode]
      /\ d.ent = [i \in Inum |-> [n \in Name |->
                   IF i = ROOTINO /\ n \in {".", ".."} THEN ROOTINO ELSE None]]
  BY <1>1 DEF Mkfs
<1>3. \A i \in Inum : d.ino[i].addrs = IF i = ROOTINO THEN <<1>> ELSE <<>> BY <1>2 DEF FreeInode
<1>4. <<1>> \in Addrs /\ ToSet(<<1>>) = {1} /\ IsInjective(<<1>>) /\ ToSet(<<>>) = {} /\ IsInjective(<<>>)
  BY <1>1, DiskParts
<1>5. d \in Disks
  <2>1. FreeInode \in Inodes /\ [type |-> "dir", nlink |-> 1, addrs |-> <<1>>] \in Inodes
    BY <1>4, DiskParts DEF Inodes
  <2>2. d.ino \in [Inum -> Inodes] BY <1>2, <2>1
  <2>3. d.ent \in [Inum -> [Name -> Inum \cup {None}]] BY <1>1, <1>2
  <2>4. d = [ino |-> d.ino, ent |-> d.ent, used |-> d.used] BY <1>1 DEF Mkfs
  <2>. QED BY <1>1, <1>2, <2>2, <2>3, <2>4, DiskParts
<1>6. BlocksOwned
  <2>1. \A i \in Inum : ToSet(d.ino[i].addrs) = IF i = ROOTINO THEN {1} ELSE {} BY <1>3, <1>4
  <2>2. d.used = UNION {ToSet(d.ino[i].addrs) : i \in Inum} BY <1>1, <1>2, <2>1
  <2>3. \A i, j \in Inum : i # j => ToSet(d.ino[i].addrs) \cap ToSet(d.ino[j].addrs) = {} BY <2>1
  <2>4. \A i \in Inum : IsInjective(d.ino[i].addrs) BY <1>3, <1>4
  <2>. QED BY <2>2, <2>3, <2>4 DEF BlocksOwned
<1>7. Offsets
  <2>1. Len(<<1>>) = 1 /\ Len(<<>>) = 0 OBVIOUS
  <2>2. ASSUME NEW i \in Inum PROVE Len(d.ino[i].addrs) <= MAXFILE
    <3>1. MAXFILE >= 1 /\ MAXFILE \in Nat BY Constants
    <3>2. PICK a : a = d.ino[i].addrs OBVIOUS
    <3>3. a = <<1>> \/ a = <<>> BY <1>3, <3>2
    <3>4. Len(a) = 1 \/ Len(a) = 0
      <4>1. CASE a = <<1>> BY <2>1, <4>1
      <4>2. CASE a = <<>> BY <2>1, <4>2
      <4>. QED BY <3>3, <4>1, <4>2
    <3>5. PICK m : m = Len(a) OBVIOUS
    <3>6. m \in Nat /\ m <= MAXFILE BY <3>1, <3>4, <3>5
    <3>. QED BY <3>2, <3>5, <3>6
  <2>3. \A f \in File : file[f].ip = None BY AtStart DEF NoFile
  <2>. QED BY <2>2, <2>3 DEF Offsets
<1>8. \A i \in Inum : IF i = ROOTINO THEN Type(i) = "dir"
                      ELSE d.ino[i] = FreeInode /\ d.ent[i] = NoEntries
  BY <1>2 DEF Type, NoEntries
<1>. QED BY <1>5, <1>6, <1>7, <1>8

\* The invariant holds at the start.
LEMMA InitInv == ASSUME Init PROVE FsInv /\ Offsets
<1>1. /\ d \in Disks /\ BlocksOwned /\ Offsets
      /\ \A i \in Inum : IF i = ROOTINO THEN Type(i) = "dir"
                         ELSE d.ino[i] = FreeInode /\ d.ent[i] = NoEntries
  BY StartDisk
<1>2. TypeOK
  <2>1. NoFile \in [ref : Nat, ip : Inum \cup {None}, off : 0 .. MAXFILE, writable : BOOLEAN]
    BY Constants DEF NoFile
  <2>2. ref \in [Inum -> Nat]
    <3>1. \A i \in Inum : ref[i] \in Nat BY RootCount
    <3>. QED BY <3>1 DEF Init
  <2>3. \A p \in Proc : \A n \in DOMAIN k[p] : k[p][n].op \in Operations
    <3>1. \A p \in Proc : k[p] = <<>> BY AtStart
    <3>. QED BY <3>1
  <2>4. ofile \in [Proc -> [Fd -> File \cup {None}]] /\ cwd \in [Proc -> Inum \cup {None}]
    BY Constants DEF Init
  <2>5. outstanding \in 0 .. NPROC BY Constants DEF Init
  <2>. QED BY <1>1, <2>1, <2>2, <2>3, <2>4, <2>5 DEF Init, TypeOK
<1>3. Local
  <2>1. ASSUME NEW p \in Proc
        PROVE  /\ StackOK(k[p]) /\ RegsOK(k[p], r[p])
               /\ cwd[p] = None => k[p] = <<>>
               /\ Deep(k[p], 1).op = "fileclose" => r[p] = NoRegs
               /\ cwd[p] = None \/ Closed(k[p], r[p]) => \A fd \in Fd : ofile[p][fd] = None
               /\ Busy(k[p]) => FileOK(k[p], r[p].file, ofile[p])
    BY AtStart
  <2>. QED BY <2>1, AtStart DEF Local
<1>4. Counts
  <2>1. ASSUME NEW f \in File PROVE file[f].ref = Count(Descriptors, f)
    <3>1. PICK D : D = Proc \X (0 .. NOFILE) OBVIOUS
    <3>2. DOMAIN Descriptors = D BY <3>1 DEF Descriptors
    <3>3. NOFILE \in Nat /\ f # None BY Constants
    <3>4. ASSUME NEW x \in D PROVE Descriptors[x] = None
      <4>1. x[1] \in Proc /\ x[2] \in 0 .. NOFILE BY <3>1
      <4>2. x[2] < NOFILE => x[2] \in Fd BY <3>3, <4>1 DEF Fd
      <4>. QED BY <3>1, <4>1, <4>2, AtStart DEF Descriptors
    <3>5. {x \in D : Descriptors[x] = f} = {} BY <3>3, <3>4
    <3>6. file[f].ref = 0 BY AtStart DEF NoFile
    <3>. QED BY <3>2, <3>5, <3>6, FS_EmptySet DEF Count
  <2>2. outstanding = Cardinality({p \in Proc : InTransaction(k[p])})
    <3>1. {p \in Proc : InTransaction(k[p])} = {} BY AtStart
    <3>. QED BY <3>1, FS_EmptySet DEF Init
  <2>3. \A f \in File : IF file[f].ref = 0 THEN file[f] = NoFile ELSE file[f].ip # None
    <3>1. NoFile.ref = 0 BY DEF NoFile
    <3>. QED BY <3>1, AtStart
  <2>. QED BY <2>1, <2>2, <2>3, RootCount DEF Counts
<1>5. Locks
  <2>1. \A i \in Inum : lock[i] = None BY DEF Init
  <2>. QED BY <2>1, AtStart, Constants DEF Locks
<1>6. InUse
  <2>1. FreeInode.type = "none" /\ "dir" # "none" BY DEF FreeInode
  <2>2. \A i \in Inum : ~valid[i] BY DEF Init
  <2>3. \A i \in Inum : Type(i) = "none" => d.ino[i] = FreeInode /\ d.ent[i] = NoEntries BY <1>1
  <2>4. \A f \in File : file[f].ip = None BY AtStart DEF NoFile
  <2>5. ASSUME NEW p \in Proc PROVE Known(k[p], r[p], cwd[p])
    <3>1. Main(k[p], r[p]) = None /\ Fresh(k[p], r[p]) = None /\ NextCwd(k[p], r[p]) = None
          /\ CwdOwn(k[p], cwd[p]) = cwd[p]
      BY AtStart
    <3>2. cwd[p] # None => Type(cwd[p]) = "dir" BY <1>1, AtStart, Constants
    <3>3. Main(k[p], r[p]) = r[p].ip => r[p].ip = None BY <3>1
    <3>. QED BY <3>1, <3>2, <3>3 DEF Known
  <2>6. \A p \in Proc : Fresh(k[p], r[p]) = None /\ Dying(k[p]) = None BY AtStart
  <2>. QED BY <2>2, <2>3, <2>4, <2>5, <2>6 DEF InUse
<1>. QED BY <1>1, <1>2, <1>3, <1>4, <1>5, <1>6 DEF FsInv

-----------------------------------------------------------------------------
(* No step leaves a file open beyond its end.                              *)

\* Inodes other than i keep their type and their blocks.
Keeps(i) ==
    \A j \in Inum : j # i => /\ d'.ino[j].type = d.ino[j].type
                             /\ d'.ino[j].addrs = d.ino[j].addrs

\* File f is closed, at its beginning, or where it was in an inode other than i.
Placed(f, i) ==
    \/ file'[f].ip = None \/ file'[f].off = 0
    \/ file'[f].ip = file[f].ip /\ file'[f].off = file[f].off /\ file[f].ip # i

\* A step that changes the blocks of one inode at most, and the place in files
\* that have this inode open.
LEMMA OffsetsKept ==
    ASSUME FsInv, FsInv', Offsets, NEW i \in Inum \cup {None}, Keeps(i),
           i # None => Len(d'.ino[i].addrs) <= MAXFILE,
           \A f \in File : \/ Placed(f, i)
                           \/ file'[f].ip = i /\ (d'.ino[i].type = "dev" \/
                                                  file'[f].off <= Len(d'.ino[i].addrs))
    PROVE  Offsets'
<1>1. TypeOK /\ TypeOK' BY DEF FsInv
<1>2. /\ \A f \in File : file[f].ip \in Inum \cup {None} /\ file'[f].ip \in Inum \cup {None}
      /\ d'.ino \in [Inum -> Inodes]
  BY <1>1, DiskParts DEF TypeOK
<1>3. ASSUME NEW j \in Inum PROVE Len(d'.ino[j].addrs) \in Nat
  <2>1. d'.ino[j].addrs \in Addrs BY <1>2 DEF Inodes
  <2>2. PICK n \in 0 .. MAXFILE + 1 : d'.ino[j].addrs \in [1 .. n -> Block] BY <2>1 DEF Addrs
  <2>3. n \in Nat BY Constants
  <2>4. d'.ino[j].addrs \in Seq(Block) BY <2>2, <2>3
  <2>. QED BY <2>4, LenProperties
<1>4. ASSUME NEW j \in Inum PROVE Len(d'.ino[j].addrs) <= MAXFILE
  <2>1. CASE j = i BY <2>1, Constants
  <2>2. CASE j # i BY <2>2 DEF Keeps, Offsets
  <2>. QED BY <2>1, <2>2
<1>5. ASSUME NEW f \in File, file'[f].ip # None, d'.ino[file'[f].ip].type # "dev"
      PROVE  file'[f].off <= Len(d'.ino[file'[f].ip].addrs)
  <2>1. file'[f].ip \in Inum BY <1>2, <1>5
  <2>2. CASE file'[f].off = 0 BY <2>1, <2>2, <1>3
  <2>3. CASE file'[f].ip = file[f].ip /\ file'[f].off = file[f].off /\ file[f].ip # i
    BY <1>5, <2>1, <2>3 DEF Keeps, Offsets, Type
  <2>4. CASE file'[f].ip = i /\ file'[f].off <= Len(d'.ino[i].addrs) BY <2>4
  <2>. QED BY <1>5, <2>2, <2>3, <2>4 DEF Placed
<1>. QED BY <1>4, <1>5 DEF Offsets, Type

\* A step that leaves the blocks of all inodes alone.
LEMMA OffsetsSame ==
    ASSUME FsInv, FsInv', Offsets, Keeps(None), \A f \in File : Placed(f, None)
    PROVE  Offsets'
BY OffsetsKept

\* ... and all open files where they are.
LEMMA OffsetsFiles ==
    ASSUME FsInv, FsInv', Offsets, Keeps(None), UNCHANGED file
    PROVE  Offsets'
<1>1. ASSUME NEW f \in File PROVE Placed(f, None)
  BY Constants DEF Placed
<1>. QED BY <1>1, OffsetsSame

\* The steps that change neither the disk nor an open file.
LEMMA Unmoved ==
    ASSUME NEW p \in Proc,
           \/ walk(p) \/ no_inode(p) \/ iput(p) \/ unref(p) \/ create_found(p) \/ put_new(p)
           \/ open_lock(p) \/ unlock_put(p) \/ unlink(p) \/ chdir(p) \/ set_cwd(p)
           \/ exit_files(p) \/ close_begin(p) \/ end_op(p) \/ panic(p) \/ exit(p)
    PROVE  UNCHANGED <<d, file>>
<1>1. CASE walk(p) BY <1>1 DEF walk, Within
<1>2. CASE no_inode(p) BY <1>2 DEF no_inode, Within
<1>3. CASE iput(p) BY <1>3 DEF iput, Within
<1>4. CASE unref(p) BY <1>4 DEF unref, Within
<1>5. CASE create_found(p) BY <1>5 DEF create_found, Within
<1>6. CASE put_new(p) BY <1>6 DEF put_new, Within
<1>7. CASE open_lock(p) BY <1>7 DEF open_lock, Within
<1>8. CASE unlock_put(p) BY <1>8 DEF unlock_put, Within
<1>9. CASE unlink(p) BY <1>9 DEF unlink, Within
<1>10. CASE chdir(p) BY <1>10 DEF chdir, Within
<1>11. CASE set_cwd(p) BY <1>11 DEF set_cwd
<1>12. CASE exit_files(p) BY <1>12 DEF exit_files
<1>13. CASE end_op(p) BY <1>13 DEF end_op
<1>14. CASE panic(p) BY <1>14 DEF panic
<1>15. CASE exit(p) BY <1>15 DEF exit
<1>16. CASE close_begin(p) BY <1>16 DEF close_begin
<1>. QED BY <1>16, <1>1, <1>2, <1>3, <1>4, <1>5, <1>6, <1>7, <1>8, <1>9, <1>10, <1>11, <1>12, <1>13,
            <1>14, <1>15

\* The steps of link() and unlink() change entries and counts of links.
LEMMA LinksKeep ==
    ASSUME FsInv, NEW p \in Proc,
           link_count(p) \/ link_dir(p) \/ link_undo(p) \/ unlink_inode(p) \/ unlink_done(p)
    PROVE  Keeps(None) /\ UNCHANGED file
<1>1. d \in Disks /\ d.ino \in [Inum -> Inodes] /\ d.ent \in [Inum -> [Name -> Inum \cup {None}]]
  BY Parts, DiskParts DEF TypeOK
<1>2. \A j \in Inum : d.ino[j] \in Inodes BY <1>1
<1>3. \A i, x : d' = [d EXCEPT !.ino[i].nlink = x] => Keeps(None)
  BY <1>1, <1>2 DEF Keeps, Disks, Inodes
<1>4. \A i, n, e : d' = [d EXCEPT !.ent[i][n] = e] => Keeps(None)
  BY <1>1, <1>2 DEF Keeps, Disks
<1>6. d' = d => Keeps(None) BY DEF Keeps
<1>7. CASE link_count(p) BY <1>3, <1>6, <1>7 DEF link_count, Within
<1>8. CASE link_dir(p) BY <1>4, <1>6, <1>8 DEF link_dir, Within
<1>9. CASE link_undo(p) BY <1>3, <1>9 DEF link_undo, Within
<1>10. CASE unlink_inode(p)
  <2>1. UNCHANGED file BY <1>10 DEF unlink_inode, Within
  <2>2. PICK dp, n : dp = r[p].dp /\ n = r[p].name OBVIOUS
  <2>3. \/ d' = d \/ d' = [d EXCEPT !.ent[dp][n] = None]
        \/ d' = [[d EXCEPT !.ent[dp][n] = None] EXCEPT !.ino[dp].nlink = @ - 1]
    BY <1>10, <2>2, Zenon DEF unlink_inode
  <2>4. CASE d' = [[d EXCEPT !.ent[dp][n] = None] EXCEPT !.ino[dp].nlink = @ - 1]
    <3>1. PICK b : b = [d EXCEPT !.ent[dp][n] = None] OBVIOUS
    <3>2. PICK x : x = b.ino[dp].nlink - 1 OBVIOUS
    <3>3. d' = [b EXCEPT !.ino[dp].nlink = x] BY <2>4, <3>1, <3>2, Zenon
    <3>4. b.ino = d.ino /\ d'.ino = [b.ino EXCEPT ![dp].nlink = x]
      BY <1>1, <3>1, <3>3 DEF Disks
    <3>. QED BY <1>1, <1>2, <2>1, <3>4 DEF Keeps, Inodes
  <2>. QED BY <1>4, <1>6, <2>1, <2>3, <2>4
<1>11. CASE unlink_done(p) BY <1>3, <1>11 DEF unlink_done, Within
<1>. QED BY <1>7, <1>8, <1>9, <1>10, <1>11

\* Files that are open stay where they are when inode i changes, that none of
\* them has.
LEMMA OthersPlaced ==
    ASSUME NEW i, i # None, UNCHANGED file, \A f \in File : file[f].ip # i
    PROVE  \A f \in File : Placed(f, i)
BY DEF Placed

\* iput() frees the blocks of an inode that nobody has open.
LEMMA ItruncKeeps == ASSUME FsInv, FsInv', Offsets, NEW p \in Proc, itrunc(p) PROVE Offsets'
<1>1. PICK i : i = Target(p) OBVIOUS
<1>2. k[p] # <<>> /\ Head(k[p]).op = "itrunc" /\ Head(k[p]).ip = i /\ i \in Inum
  BY <1>1, AtOp DEF itrunc, Owning, Putting
<1>3. i # None /\ Dying(k[p]) = i BY <1>2, Constants DEF Dying
<1>4. \A f \in File : file[f].ip # i BY <1>3, Parts DEF InUse, Forgotten
<1>5. d' = Freed(d, i) /\ UNCHANGED file BY <1>1 DEF itrunc, Within
<1>6. \A j \in Inum : IF j = i THEN d'.ino[j] = FreeInode ELSE d'.ino[j] = d.ino[j]
  BY <1>2, <1>5, Parts, FreedBlocks
<1>7. Keeps(i) /\ d'.ino[i].addrs = <<>> BY <1>2, <1>6 DEF Keeps, FreeInode
<1>8. Len(d'.ino[i].addrs) <= MAXFILE
  <2>1. Len(d'.ino[i].addrs) = 0 BY <1>7
  <2>. QED BY <2>1, Constants
<1>. QED BY <1>2, <1>3, <1>4, <1>5, <1>7, <1>8, OthersPlaced, OffsetsKept

\* create() makes an inode that was free, so that nobody has it open.
LEMMA CreateKeeps == ASSUME FsInv, FsInv', Offsets, NEW p \in Proc, create(p) PROVE Offsets'
<1>1. PICK dp, g : dp = Target(p) /\ g = r[p] OBVIOUS
<1>2. At(p, "create") /\ CanLock(p, "create") /\ dp \in Inum /\ Type(dp) # "none"
  BY <1>1, LockAt DEF create
<1>3. UNCHANGED file BY DEF create, Within
<1>4. CASE Found(dp, g.name) # None
  <2>1. d' = d BY <1>1, <1>4 DEF create
  <2>. QED BY <2>1, <1>3, OffsetsFiles DEF Keeps
<1>5. CASE Found(dp, g.name) = None
  <2>1. d' = [d EXCEPT !.ino[Min(FreeInodes)] = [FreeInode EXCEPT !.type = g.type]]
    BY <1>1, <1>5 DEF create
  <2>2. FreeInodes # {}
    <3>1. Why(p) = "no" /\ Head(k[p]).op = "create" BY <1>2 DEF CanLock, At
    <3>. QED BY <1>1, <1>5, <3>1 DEF Why, Found
  <2>3. PICK n : n = Min(FreeInodes) OBVIOUS
  <2>4. n \in Inum /\ Type(n) = "none"
    <3>1. FreeInodes \in SUBSET Nat BY Constants DEF FreeInodes
    <3>2. n \in FreeInodes BY <2>2, <2>3, <3>1, MinIn
    <3>. QED BY <3>2 DEF FreeInodes, Type
  <2>5. \A f \in File : file[f].ip # n
    BY <2>4, Constants, Parts DEF InUse
  <2>6. g.type \in {"file", "dir", "dev"}
    <3>1. /\ k[p] # <<>> /\ Deep(k[p], Len(k[p])).op = "create" /\ Len(k[p]) \in 1 .. 6
          /\ Fits("create", Len(k[p]), Deep(k[p], Len(k[p]) - 1).op)
      BY <1>2, AtOp
    <3>2. Deep(k[p], 3).op = "create" BY <3>1 DEF Fits, Putting
    <3>3. RegsOK(k[p], g) /\ g \in Regs BY <1>1, Here
    <3>. QED BY <3>2, <3>3 DEF RegsOK, Regs
  <2>7. d'.ino[n].addrs = <<>> /\ \A j \in Inum : j # n => d'.ino[j] = d.ino[j]
    BY <2>1, <2>3, <2>4, <2>6, Parts, Allocated
  <2>8. n # None /\ Keeps(n) BY <2>4, <2>7, Constants DEF Keeps
  <2>9. Len(d'.ino[n].addrs) <= MAXFILE
    <3>1. Len(d'.ino[n].addrs) = 0 BY <2>7
    <3>. QED BY <3>1, Constants
  <2>. QED BY <1>3, <2>4, <2>5, <2>8, <2>9, OthersPlaced, OffsetsKept
<1>. QED BY <1>4, <1>5

\* A directory that create() fills in has its first block.
LEMMA CreateLinkKeeps == ASSUME FsInv, FsInv', Offsets, NEW p \in Proc, create_new(p) PROVE Offsets'
<1>1. PICK i, g, s, dp : i = Target(p) /\ g = r[p] /\ s = k[p] /\ dp = g.dp OBVIOUS
<1>2. At(p, "create_new") /\ CanLock(p, "create_new") /\ i \in Inum /\ Type(i) # "none"
  BY <1>1, LockAt DEF create_new
<1>3. UNCHANGED file BY DEF create_new, Within
<1>4. d \in Disks /\ d.ino \in [Inum -> Inodes] /\ d.ent \in [Inum -> [Name -> Inum \cup {None}]]
      /\ \A j \in Inum : d.ino[j] \in Inodes
  BY Parts, DiskParts DEF TypeOK
<1>5. /\ d' = IF IsDir(i)
              THEN [[d EXCEPT !.ino[i].nlink = 1, !.ent[dp][g.name] = i] EXCEPT
                       !.ino[i].addrs = <<NewBlock>>, !.used = @ \cup {NewBlock},
                       !.ino[dp].nlink = @ + 1, !.ent[i]["."] = i, !.ent[i][".."] = dp]
              ELSE [d EXCEPT !.ino[i].nlink = 1, !.ent[dp][g.name] = i]
  BY <1>1 DEF create_new
<1>6. CASE ~IsDir(i)
  <2>1. d' = [d EXCEPT !.ino[i].nlink = 1, !.ent[dp][g.name] = i] BY <1>5, <1>6
  <2>2. d'.ino = [d.ino EXCEPT ![i].nlink = 1] BY <2>1, <1>4 DEF Disks
  <2>3. Keeps(None) BY <2>2, <1>4 DEF Keeps, Inodes
  <2>. QED BY <2>3, <1>3, OffsetsFiles
<1>7. CASE IsDir(i)
  <2>1. d' = [[d EXCEPT !.ino[i].nlink = 1, !.ent[dp][g.name] = i] EXCEPT
                !.ino[i].addrs = <<NewBlock>>, !.used = @ \cup {NewBlock},
                !.ino[dp].nlink = @ + 1, !.ent[i]["."] = i, !.ent[i][".."] = dp]
    BY <1>5, <1>7, Zenon
  <2>2. /\ \A j \in Inum : d'.ino[j].type = d.ino[j].type /\ (j # i => d'.ino[j].addrs = d.ino[j].addrs)
        /\ d'.ino[i].addrs = <<NewBlock>>
    <3>1. PICK m : m = [d EXCEPT !.ino[i].nlink = 1, !.ent[dp][g.name] = i] OBVIOUS
    <3>2. /\ m = [ino |-> m.ino, ent |-> m.ent, used |-> m.used]
          /\ m.ino = [d.ino EXCEPT ![i].nlink = 1]
      BY <1>4, <3>1, DiskParts
    <3>3. d' = [m EXCEPT !.ino[i].addrs = <<NewBlock>>, !.used = @ \cup {NewBlock},
                         !.ino[dp].nlink = @ + 1, !.ent[i]["."] = i, !.ent[i][".."] = dp]
      BY <2>1, <3>1, Zenon
    <3>4. d'.ino = [m.ino EXCEPT ![i].addrs = <<NewBlock>>, ![dp].nlink = @ + 1]
      BY <3>2, <3>3
    <3>5. /\ m.ino[i].type = d.ino[i].type /\ \A j \in Inum : j # i => m.ino[j] = d.ino[j]
          /\ DOMAIN m.ino = Inum /\ \A j \in Inum : m.ino[j] \in Inodes
      BY <1>2, <1>4, <3>2 DEF Inodes
    <3>. QED BY <3>4, <3>5, <1>2, <1>4 DEF Inodes
  <2>3. i # None /\ Keeps(i) BY <1>2, <2>2, Constants DEF Keeps
  <2>4. Len(d'.ino[i].addrs) = 1 BY <2>2
  <2>5. d.ino[i].addrs = <<>>
    <3>1. /\ s # <<>> /\ Deep(s, Len(s)).op = "create_new" /\ Deep(s, Len(s)).ip = i
          /\ Fits("create_new", Len(s), Deep(s, Len(s) - 1).op)
      <4>1. "create_new" \in Naming BY DEF Naming
      <4>. QED BY <4>1, <1>1, <1>2, AtOp
    <3>2. Deep(s, 3).op = "create_new" /\ Deep(s, 3).ip = i BY <3>1 DEF Fits, Putting
    <3>3. RegsOK(s, g) /\ Known(s, g, cwd[p]) BY <1>1, Here
    <3>4. g.ip = i /\ Fresh(s, g) = i BY <3>2, <3>3 DEF RegsOK, Fresh
    <3>. QED BY <3>3, <3>4, <1>7, <2>3 DEF Known
  <2>6. ASSUME NEW f \in File, file[f].ip = i
        PROVE  file'[f].ip = i /\ file'[f].off <= Len(d'.ino[i].addrs)
    <3>1. file[f].off \in Nat
      <4>1. file[f].off \in 0 .. MAXFILE BY Parts DEF TypeOK
      <4>. QED BY <4>1, Constants
    <3>2. Type(i) # "dev" BY <1>7 DEF IsDir, Type
    <3>3. file[f].off <= Len(d.ino[i].addrs) BY <2>6, <2>3, <3>2 DEF Offsets
    <3>4. Len(d.ino[i].addrs) = 0 BY <2>5
    <3>. QED BY <1>3, <2>4, <2>6, <3>1, <3>3, <3>4
  <2>7. \A f \in File : Placed(f, i) \/ (file'[f].ip = i /\ file'[f].off <= Len(d'.ino[i].addrs))
    BY <1>3, <2>6 DEF Placed
  <2>8. Len(d'.ino[i].addrs) <= MAXFILE BY <2>4, Constants
  <2>. QED BY <1>2, <2>3, <2>7, <2>8, OffsetsKept
<1>. QED BY <1>6, <1>7

\* Descriptors, counts and new files do not move what is open.
LEMMA FilesPlaced ==
    ASSUME FsInv, NEW p \in Proc,
           \/ open_file(p) \/ fileclose(p)
           \/ \E fd \in Fd : sys_close(p, fd) \/ sys_dup(p, fd) \/ sys_write(p, fd) \/ sys_read(p, fd)
           \/ \E q \in Proc : fork(p, q)
    PROVE  Keeps(None) /\ \A f \in File : Placed(f, None)
<1>1. file \in [File -> [ref : Nat, ip : Inum \cup {None}, off : 0 .. MAXFILE, writable : BOOLEAN]]
  BY Parts DEF TypeOK
<1>2. d' = d => Keeps(None) BY DEF Keeps
<1>3. file' = file => \A f \in File : Placed(f, None) BY DEF Placed
<1>4. \A e, v : file' = [file EXCEPT ![e].ref = v] => \A f \in File : Placed(f, None)
  BY <1>1 DEF Placed
<1>5. CASE open_file(p)
  <2>0. PICK e, i, w : e = Min(FreeFiles) /\ i = Target(p) /\ w = r[p].writable OBVIOUS
  <2>1. d' = d /\ (file' = file \/
                   file' = [file EXCEPT ![e] = [ref |-> 1, ip |-> i, off |-> 0, writable |-> w]])
    BY <1>5, <2>0 DEF open_file
  <2>2. ASSUME file' = [file EXCEPT ![e] = [ref |-> 1, ip |-> i, off |-> 0, writable |-> w]]
        PROVE  \A f \in File : Placed(f, None)
    <3>1. ASSUME NEW f \in File PROVE Placed(f, None)
      <4>1. CASE f = e
        <5>1. file'[f].off = 0 BY <1>1, <2>2, <4>1
        <5>. QED BY <5>1 DEF Placed
      <4>2. CASE f # e
        <5>1. file'[f] = file[f] BY <1>1, <2>2, <4>2
        <5>. QED BY <5>1 DEF Placed
      <4>. QED BY <4>1, <4>2
    <3>. QED BY <3>1
  <2>. QED BY <1>2, <1>3, <2>1, <2>2
<1>6. CASE fileclose(p)
  <2>1. PICK e : e = Head(k[p]).ip OBVIOUS
  <2>2. d' = d /\ (file' = [file EXCEPT ![e].ref = @ - 1] \/ file' = [file EXCEPT ![e] = NoFile])
    BY <1>6, <2>1 DEF fileclose
  <2>3. CASE file' = [file EXCEPT ![e] = NoFile]
    <3>1. ASSUME NEW f \in File PROVE Placed(f, None)
      <4>1. CASE f = e
        <5>1. file'[f].ip = None BY <1>1, <2>3, <4>1 DEF NoFile
        <5>. QED BY <5>1 DEF Placed
      <4>2. CASE f # e
        <5>1. file'[f] = file[f] BY <1>1, <2>3, <4>2
        <5>. QED BY <5>1 DEF Placed
      <4>. QED BY <4>1, <4>2
    <3>. QED BY <1>2, <2>2, <3>1
  <2>. QED BY <1>2, <1>4, <2>2, <2>3
<1>7. CASE \E fd \in Fd : sys_close(p, fd) \/ sys_dup(p, fd) \/ sys_write(p, fd) \/ sys_read(p, fd)
  <2>1. PICK fd \in Fd : sys_close(p, fd) \/ sys_dup(p, fd) \/ sys_write(p, fd) \/ sys_read(p, fd)
    BY <1>7
  <2>2. CASE sys_close(p, fd) BY <2>2, <1>2, <1>3 DEF sys_close, OnFile
  <2>3. CASE sys_dup(p, fd)
    <3>1. PICK e : e = ofile[p][fd] OBVIOUS
    <3>2. d' = d /\ file' = [file EXCEPT ![e].ref = @ + 1] BY <2>3, <3>1 DEF sys_dup
    <3>. QED BY <3>2, <1>2, <1>4
  <2>4. CASE sys_write(p, fd) BY <2>4, <1>2, <1>3 DEF sys_write, OnFile
  <2>5. CASE sys_read(p, fd) BY <2>5, <1>2, <1>3 DEF sys_read, OnFile
  <2>. QED BY <2>1, <2>2, <2>3, <2>4, <2>5
<1>8. CASE \E q \in Proc : fork(p, q)
  <2>1. d' = d /\ file' = [f \in File |-> [file[f] EXCEPT
                  !.ref = @ + Cardinality({fd \in Fd : ofile[p][fd] = f})]]
    BY <1>8, Zenon DEF fork
  <2>2. ASSUME NEW f \in File PROVE Placed(f, None)
    <3>1. PICK v : v = file[f].ref + Cardinality({fd \in Fd : ofile[p][fd] = f}) OBVIOUS
    <3>2. file'[f] = [file[f] EXCEPT !.ref = v] BY <2>1, <3>1
    <3>3. file'[f].ip = file[f].ip /\ file'[f].off = file[f].off BY <1>1, <3>2
    <3>. QED BY <3>3, Constants, <1>1 DEF Placed
  <2>. QED BY <1>2, <2>1, <2>2
<1>. QED BY <1>5, <1>6, <1>7, <1>8

\* A call begins with no file moved.
LEMMA BeginStill ==
    ASSUME NEW p, NEW w, NEW new, NEW m, NEW e,
           \/ sys_open(p, w, m, e) \/ sys_mkdir(p, w) \/ sys_mknod(p, w)
           \/ sys_link(p, w, new) \/ sys_unlink(p, w) \/ sys_chdir(p, w)
    PROVE  UNCHANGED <<d, file>>
BY DEF sys_open, sys_mkdir, sys_mknod, sys_link, sys_unlink, sys_chdir, Begin

\* read() goes no further than the end, where it is told there is nothing.
LEMMA ReadKeeps == ASSUME FsInv, FsInv', Offsets, NEW p \in Proc, read(p) PROVE Offsets'
<1>1. PICK s, f, i : s = k[p] /\ f = r[p].file /\ i = Target(p) OBVIOUS
<1>2. s # <<>> /\ i \in Inum /\ i = Head(s).ip /\ Deep(s, 1).op = "read"
  <2>1. At(p, "read") /\ CanLock(p, "read") BY LockAt DEF read
  <2>2. "read" \in Owning \cup Naming BY DEF Naming
  <2>3. /\ s # <<>> /\ Deep(s, Len(s)).op = "read" /\ i \in Inum /\ i = Head(s).ip
        /\ Fits("read", Len(s), Deep(s, Len(s) - 1).op)
    BY <2>1, <2>2, <1>1, AtOp
  <2>. QED BY <2>3 DEF Fits, Putting
<1>3. f \in File /\ file[f].ip = i
  <2>1. Busy(s) BY <1>2 DEF Busy
  <2>. QED BY <1>1, <1>2, <2>1, Parts DEF Local, FileOK
<1>4. /\ d' = d /\ file' = [file EXCEPT ![f].off = IF AtEnd(p) \/ ~OnDisk(p) THEN @ ELSE @ + 1]
  BY <1>1 DEF read
<1>5. file \in [File -> [ref : Nat, ip : Inum \cup {None}, off : 0 .. MAXFILE, writable : BOOLEAN]]
  BY Parts DEF TypeOK
<1>6. Keeps(i) /\ Keeps(None) /\ i # None BY <1>2, <1>4, Constants DEF Keeps
<1>7. CASE AtEnd(p) \/ ~OnDisk(p)
  <2>1. \A e \in File : file'[e].ip = file[e].ip /\ file'[e].off = file[e].off BY <1>4, <1>5, <1>7
  <2>2. \A e \in File : Placed(e, None) BY <2>1 DEF Placed
  <2>. QED BY <1>6, <2>2, OffsetsSame
<1>8. CASE ~(AtEnd(p) \/ ~OnDisk(p))
  <2>1. file[f].off # Len(d.ino[i].addrs) /\ Type(i) # "dev"
    BY <1>1, <1>8 DEF AtEnd, OnDisk, Type
  <2>2. file[f].off <= Len(d.ino[i].addrs) /\ Len(d.ino[i].addrs) <= MAXFILE
    BY <1>2, <1>3, <1>6, <2>1 DEF Offsets
  <2>3. Len(d.ino[i].addrs) \in Nat /\ file[f].off \in Nat
    <3>1. file[f].off \in 0 .. MAXFILE BY <1>3, <1>5
    <3>. QED BY <3>1, <1>2, Parts, Lengths, Constants
  <2>4. file[f].off + 1 <= Len(d.ino[i].addrs) BY <2>1, <2>2, <2>3
  <2>5. \A e \in File : /\ file'[e].ip = file[e].ip
                        /\ file'[e].off = IF e = f THEN file[f].off + 1 ELSE file[e].off
    BY <1>3, <1>4, <1>5, <1>8
  <2>6. ASSUME NEW e \in File
        PROVE  Placed(e, i) \/ (file'[e].ip = i /\ (d'.ino[i].type = "dev" \/
                                                    file'[e].off <= Len(d'.ino[i].addrs)))
    <3>1. CASE e = f BY <1>3, <1>4, <2>4, <2>5, <3>1
    <3>2. CASE e # f /\ file[e].ip = i
      <4>1. d'.ino[i].type # "dev" => file[e].off <= Len(d.ino[i].addrs)
        BY <1>4, <1>6, <3>2 DEF Offsets, Type
      <4>. QED BY <1>4, <2>5, <3>2, <4>1
    <3>3. CASE e # f /\ file[e].ip # i BY <2>5, <3>3 DEF Placed
    <3>. QED BY <3>1, <3>2, <3>3
  <2>7. Len(d'.ino[i].addrs) <= MAXFILE BY <1>4, <2>2
  <2>. QED BY <1>2, <1>6, <2>6, <2>7, OffsetsKept
<1>. QED BY <1>7, <1>8

\* write() goes on over the end by the block that it appends.
LEMMA WriteKeeps == ASSUME FsInv, FsInv', Offsets, NEW p \in Proc, write(p) PROVE Offsets'
<1>1. PICK s, f, i : s = k[p] /\ f = r[p].file /\ i = Target(p) OBVIOUS
<1>2. s # <<>> /\ i \in Inum /\ i = Head(s).ip /\ Deep(s, 2).op = "write" /\ Why(p) = "no"
      /\ Head(s).op = "write"
  <2>1. At(p, "write") /\ CanLock(p, "write") BY LockAt DEF write
  <2>2. "write" \in Owning \cup Naming BY DEF Naming
  <2>3. /\ s # <<>> /\ Deep(s, Len(s)).op = "write" /\ i \in Inum /\ i = Head(s).ip
        /\ Fits("write", Len(s), Deep(s, Len(s) - 1).op) /\ Head(s).op = "write"
    BY <2>1, <2>2, <1>1, AtOp
  <2>4. Why(p) = "no" BY <2>1 DEF CanLock
  <2>. QED BY <2>3, <2>4 DEF Fits, Putting
<1>3. f \in File /\ file[f].ip = i
  <2>1. Busy(s) BY <1>2 DEF Busy
  <2>. QED BY <1>1, <1>2, <2>1, Parts DEF Local, FileOK
<1>4. /\ d' = IF Grows(p) THEN Appended(i) ELSE d
      /\ IF OnDisk(p) /\ file[f].off < MAXFILE THEN file' = [file EXCEPT ![f].off = @ + 1] ELSE UNCHANGED file
  BY <1>1 DEF write
<1>5. file \in [File -> [ref : Nat, ip : Inum \cup {None}, off : 0 .. MAXFILE, writable : BOOLEAN]]
  BY Parts DEF TypeOK
<1>6. i # None BY <1>2, Constants
<1>7. PICK n : n = Len(d.ino[i].addrs) OBVIOUS
<1>8. n \in Nat /\ n <= MAXFILE /\ file[f].off \in Nat /\ MAXFILE \in Nat
  <2>1. file[f].off \in 0 .. MAXFILE BY <1>3, <1>5
  <2>. QED BY <2>1, <1>2, <1>7, Parts, Lengths, Constants DEF Offsets
<1>9. CASE ~(OnDisk(p) /\ file[f].off < MAXFILE)
  <2>1. d' = d /\ file' = file BY <1>1, <1>4, <1>9 DEF Grows
  <2>. QED BY <2>1, OffsetsFiles DEF Keeps
<1>10. CASE OnDisk(p) /\ file[f].off < MAXFILE
  <2>1. Type(i) # "dev" /\ file[f].off <= n
    <3>1. Type(i) # "dev" BY <1>1, <1>10 DEF OnDisk, Type
    <3>. QED BY <1>3, <1>6, <1>7, <3>1 DEF Offsets
  <2>2. \A e \in File : /\ file'[e].ip = file[e].ip
                        /\ file'[e].off = IF e = f THEN file[f].off + 1 ELSE file[e].off
    BY <1>3, <1>4, <1>5, <1>10
  <2>3. PICK m : m = Len(d'.ino[i].addrs) OBVIOUS
  <2>4. Keeps(i) /\ m \in Nat /\ n <= m /\ m <= MAXFILE /\ file[f].off + 1 <= m
    <3>1. CASE file[f].off = n
      <4>1. Grows(p) BY <1>1, <1>7, <1>10, <3>1 DEF Grows, AtEnd
      <4>2. Block \ d.used # {} BY <1>1, <1>2, <4>1 DEF Why
      <4>3. Len(d.ino[i].addrs) < MAXFILE BY <1>7, <1>10, <3>1
      <4>4. d' = Appended(i) BY <1>4, <4>1
      <4>5. \A j \in Inum : j # i => d'.ino[j] = d.ino[j]
        BY <1>2, <4>2, <4>3, <4>4, Parts, OneMoreBlock
      <4>6. m = n + 1
        <5>1. d \in Disks /\ d.ino \in [Inum -> Inodes] BY Parts, DiskParts DEF TypeOK
        <5>2. d.ino[i].addrs \in Addrs BY <1>2, <5>1 DEF Inodes
        <5>3. PICK z \in 0 .. MAXFILE + 1 : d.ino[i].addrs \in [1 .. z -> Block] BY <5>2 DEF Addrs
        <5>4. z \in Nat BY Constants
        <5>5. d.ino[i].addrs \in Seq(Block) BY <5>3, <5>4
        <5>6. NewBlock \in Block
          <6>1. Block \ d.used \in SUBSET Nat BY Constants
          <6>. QED BY <4>2, <6>1, MinIn DEF NewBlock
        <5>7. d'.ino = [d.ino EXCEPT ![i].addrs = Append(@, NewBlock)]
          BY <4>4, <5>1 DEF Appended, Disks
        <5>8. d'.ino[i].addrs = Append(d.ino[i].addrs, NewBlock)
          BY <1>2, <5>1, <5>7 DEF Inodes
        <5>. QED BY <1>7, <2>3, <5>5, <5>6, <5>8, AppendProperties
      <4>7. Keeps(i) BY <4>5 DEF Keeps
      <4>. QED BY <1>8, <1>10, <3>1, <4>6, <4>7
    <3>2. CASE file[f].off # n
      <4>1. d' = d BY <1>1, <1>4, <1>7, <3>2 DEF Grows, AtEnd
      <4>2. m = n /\ Keeps(i) BY <1>7, <2>3, <4>1 DEF Keeps
      <4>. QED BY <1>8, <2>1, <3>2, <4>2
    <3>. QED BY <3>1, <3>2
  <2>5. ASSUME NEW e \in File
        PROVE  Placed(e, i) \/ (file'[e].ip = i /\ file'[e].off <= m)
    <3>1. CASE e = f BY <1>3, <2>2, <2>4, <3>1
    <3>2. CASE e # f /\ file[e].ip = i
      <4>1. file[e].off <= n BY <1>6, <1>7, <2>1, <3>2 DEF Offsets, Type
      <4>2. file[e].off \in Nat
        <5>1. file[e].off \in 0 .. MAXFILE BY <1>5
        <5>. QED BY <5>1, <1>8
      <4>. QED BY <1>8, <2>2, <2>4, <3>2, <4>1, <4>2
    <3>3. CASE e # f /\ file[e].ip # i BY <2>2, <3>3 DEF Placed
    <3>. QED BY <3>1, <3>2, <3>3
  <2>. QED BY <1>2, <2>3, <2>4, <2>5, OffsetsKept
<1>. QED BY <1>9, <1>10

-----------------------------------------------------------------------------
(* The inductive invariant.                                                *)

Invariant == FsInv /\ Offsets /\ program \in Programs

\* Every step of a call keeps it.
LEMMA StepsKeep == ASSUME FsInv, Offsets, NEW p \in Proc, Step(p) PROVE FsInv'
<1>1. CASE walk(p) BY <1>1, WalkStep
<1>2. CASE no_inode(p) BY <1>2, NoInodeStep
<1>3. CASE iput(p) BY <1>3, IputStep
<1>4. CASE itrunc(p) BY <1>4, ItruncStep
<1>5. CASE unref(p) BY <1>5, UnrefStep
<1>6. CASE create(p)
  <2>1. CASE Found(Target(p), r[p].name) # None BY <1>6, <2>1, CreateOldStep
  <2>2. CASE Found(Target(p), r[p].name) = None BY <1>6, <2>2, CreateNodeStep
  <2>. QED BY <2>1, <2>2
<1>7. CASE create_found(p) BY <1>7, CreateFoundStep
<1>8. CASE create_new(p) BY <1>8, CreateLinkStep
<1>9. CASE put_new(p) BY <1>9, PutNewStep
<1>10. CASE open_lock(p) BY <1>10, OpenLockStep
<1>11. CASE open_file(p)
  <2>1. CASE FreeFiles = {} \/ FreeFds(p) = {} BY <1>11, <2>1, OpenFailsStep
  <2>2. CASE ~(FreeFiles = {} \/ FreeFds(p) = {}) BY <1>11, <2>2, OpenFileStep
  <2>. QED BY <2>1, <2>2
<1>12. CASE fileclose(p)
  <2>1. CASE file[Head(k[p]).ip].ref > 1 BY <1>12, <2>1, CloseSharedStep
  <2>2. CASE ~(file[Head(k[p]).ip].ref > 1) BY <1>12, <2>2, CloseLastStep
  <2>. QED BY <2>1, <2>2
<1>13. CASE write(p) BY <1>13, WriteStep
<1>14. CASE read(p) BY <1>14, ReadStep
<1>15. CASE link_count(p) BY <1>15, LinkCountStep
<1>16. CASE link_dir(p) BY <1>16, LinkDirStep
<1>17. CASE link_undo(p) BY <1>17, LinkUndoStep
<1>18. CASE unlock_put(p)
  <2>1. At(p, "link_exists") \/ At(p, "unlink_bad") BY <1>18 DEF unlock_put
  <2>. QED BY <1>18, <2>1, LinkExistsStep, UnlinkBadStep
<1>19. CASE unlink(p) BY <1>19, UnlinkStep
<1>20. CASE unlink_inode(p) BY <1>20, UnlinkInodeStep
<1>21. CASE unlink_done(p) BY <1>21, UnlinkDoneStep
<1>22. CASE chdir(p) BY <1>22, ChdirStep
<1>23. CASE set_cwd(p) BY <1>23, SetCwdStep
<1>24. CASE exit_files(p) BY <1>24, ExitFilesStep
<1>25. CASE end_op(p) BY <1>25, EndOpStep
<1>26. CASE panic(p) BY <1>26, PanicStep
<1>27. CASE close_begin(p) BY <1>27, CloseBeginStep
<1>. QED BY <1>27, <1>1, <1>2, <1>3, <1>4, <1>5, <1>6, <1>7, <1>8, <1>9, <1>10, <1>11, <1>12, <1>13,
            <1>14, <1>15, <1>16, <1>17, <1>18, <1>19, <1>20, <1>21, <1>22, <1>23, <1>24, <1>25,
            <1>26 DEF Step

\* Every system call keeps it, of whatever program.
LEMMA CallsKeep == ASSUME FsInv, program \in Programs, NEW p \in Proc, Call(p) PROVE FsInv'
<1>1. /\ \A w \in program[p].paths : Path(w)
      /\ \A w \in program[p].links : Path(w[1]) /\ Path(w[2])
      /\ \A m \in program[p].modes : m.writable \in BOOLEAN /\ m.create \in BOOLEAN
  BY FileSystemAssumption
<1>2. CASE \E w \in program[p].paths :
              \/ \E m \in program[p].modes : sys_open(p, w, m.writable, m.create)
              \/ sys_mkdir(p, w) \/ sys_mknod(p, w) \/ sys_unlink(p, w) \/ sys_chdir(p, w)
  <2>1. PICK w \in program[p].paths :
              \/ \E m \in program[p].modes : sys_open(p, w, m.writable, m.create)
              \/ sys_mkdir(p, w) \/ sys_mknod(p, w) \/ sys_unlink(p, w) \/ sys_chdir(p, w)
    BY <1>2
  <2>2. Path(w) BY <1>1
  <2>3. CASE \E m \in program[p].modes : sys_open(p, w, m.writable, m.create)
    <3>1. PICK m \in program[p].modes : sys_open(p, w, m.writable, m.create) BY <2>3
    <3>2. m.writable \in BOOLEAN BY <1>1
    <3>. QED BY <2>2, <3>1, <3>2, SysOpenStep
  <2>4. CASE sys_mkdir(p, w) BY <2>2, <2>4, SysMkdirStep
  <2>5. CASE sys_mknod(p, w) BY <2>2, <2>5, SysMknodStep
  <2>6. CASE sys_unlink(p, w) BY <2>2, <2>6, SysUnlinkStep
  <2>7. CASE sys_chdir(p, w) BY <2>2, <2>7, SysChdirStep
  <2>. QED BY <2>1, <2>3, <2>4, <2>5, <2>6, <2>7
<1>3. CASE \E w \in program[p].links : sys_link(p, w[1], w[2])
  <2>1. PICK w \in program[p].links : sys_link(p, w[1], w[2]) BY <1>3
  <2>2. PICK a, b : a = w[1] /\ b = w[2] OBVIOUS
  <2>3. Path(a) /\ Path(b) /\ sys_link(p, a, b) BY <1>1, <2>1, <2>2
  <2>. QED BY <2>3, SysLinkStep
<1>4. CASE \E fd \in Fd :
              sys_close(p, fd) \/ sys_dup(p, fd) \/ sys_write(p, fd) \/ sys_read(p, fd)
  BY <1>4, SysCloseStep, SysDupStep, SysWriteStep, SysReadStep
<1>5. CASE \E q \in Proc : fork(p, q) BY <1>5, ForkStep
<1>6. CASE exit(p) BY <1>6, ExitStep
<1>. QED BY <1>2, <1>3, <1>4, <1>5, <1>6 DEF Call

\* No step and no call leaves a file open beyond its end.
LEMMA OffsetsNext ==
    ASSUME FsInv, FsInv', Offsets, NEW p \in Proc, Call(p) \/ Step(p)
    PROVE  Offsets'
<1>0. UNCHANGED <<d, file>> => Offsets'
  BY OffsetsFiles DEF Keeps
<1>1. CASE \/ walk(p) \/ no_inode(p) \/ iput(p) \/ unref(p) \/ create_found(p) \/ put_new(p)
           \/ open_lock(p) \/ unlock_put(p) \/ unlink(p) \/ chdir(p) \/ set_cwd(p)
           \/ exit_files(p) \/ close_begin(p) \/ end_op(p) \/ panic(p) \/ exit(p)
  BY <1>0, <1>1, Unmoved
<1>2. CASE link_count(p) \/ link_dir(p) \/ link_undo(p) \/ unlink_inode(p) \/ unlink_done(p)
  BY <1>2, LinksKeep, OffsetsFiles
<1>3. CASE \/ open_file(p) \/ fileclose(p)
           \/ \E fd \in Fd : sys_close(p, fd) \/ sys_dup(p, fd) \/ sys_write(p, fd) \/ sys_read(p, fd)
           \/ \E q \in Proc : fork(p, q)
  BY <1>3, FilesPlaced, OffsetsSame
<1>4. CASE itrunc(p) BY <1>4, ItruncKeeps
<1>5. CASE create(p) BY <1>5, CreateKeeps
<1>6. CASE create_new(p) BY <1>6, CreateLinkKeeps
<1>7. CASE read(p) BY <1>7, ReadKeeps
<1>8. CASE write(p) BY <1>8, WriteKeeps
<1>9. CASE Step(p)
  BY <1>1, <1>2, <1>3, <1>4, <1>5, <1>6, <1>7, <1>8, <1>9 DEF Step
<1>10. CASE Call(p)
  <2>1. CASE \E w \in program[p].paths :
                \/ \E m \in program[p].modes : sys_open(p, w, m.writable, m.create)
                \/ sys_mkdir(p, w) \/ sys_mknod(p, w) \/ sys_unlink(p, w) \/ sys_chdir(p, w)
    BY <1>0, <2>1, BeginStill
  <2>2. CASE \E w \in program[p].links : sys_link(p, w[1], w[2])
    BY <1>0, <2>2, BeginStill
  <2>. QED BY <1>1, <1>3, <1>10, <2>1, <2>2 DEF Call
<1>. QED BY <1>9, <1>10

\* What the processes run never changes.
LEMMA SameProgram == ASSUME NEW p \in Proc, Call(p) \/ Step(p) PROVE UNCHANGED program
<1>1. CASE Step(p)
  <2>1. CASE walk(p) \/ no_inode(p) \/ create(p) \/ create_found(p) \/ create_new(p) \/ put_new(p)
    BY <2>1, Zenon DEF walk, no_inode, create, create_found, create_new, put_new, Within
  <2>2. CASE iput(p) \/ itrunc(p) \/ unref(p) \/ end_op(p) \/ exit_files(p) \/ set_cwd(p) \/ panic(p)
    BY <2>2, Zenon DEF iput, itrunc, unref, end_op, exit_files, set_cwd, panic, Within
  <2>3. CASE open_lock(p) \/ open_file(p) \/ fileclose(p) \/ close_begin(p) \/ write(p) \/ read(p)
    BY <2>3, Zenon DEF open_lock, open_file, fileclose, close_begin, write, read, Within
  <2>4. CASE link_count(p) \/ link_dir(p) \/ link_undo(p) \/ unlock_put(p)
    BY <2>4, Zenon DEF link_count, link_dir, link_undo, unlock_put, Within
  <2>5. CASE unlink(p) \/ unlink_inode(p) \/ unlink_done(p) \/ chdir(p)
    BY <2>5, Zenon DEF unlink, unlink_inode, unlink_done, chdir, Within
  <2>. QED BY <1>1, <2>1, <2>2, <2>3, <2>4, <2>5, Zenon DEF Step
<1>2. CASE Call(p)
  <2>1. CASE \E w : \/ \E m : sys_open(p, w, m.writable, m.create)
                   \/ sys_mkdir(p, w) \/ sys_mknod(p, w) \/ sys_unlink(p, w) \/ sys_chdir(p, w)
    BY <2>1, Zenon DEF sys_open, sys_mkdir, sys_mknod, sys_unlink, sys_chdir, Begin
  <2>2. CASE \E w : sys_link(p, w[1], w[2])
    BY <2>2, Zenon DEF sys_link, Begin
  <2>3. CASE \E fd : sys_close(p, fd) \/ sys_dup(p, fd) \/ sys_write(p, fd) \/ sys_read(p, fd)
    BY <2>3, Zenon DEF sys_close, sys_dup, sys_write, sys_read, OnFile
  <2>4. CASE exit(p) \/ \E q : fork(p, q) BY <2>4, Zenon DEF fork, exit
  <2>. QED BY <1>2, <2>1, <2>2, <2>3, <2>4, Zenon DEF Call
<1>. QED BY <1>1, <1>2

LEMMA NextKeeps == ASSUME Invariant, [Next]_vars PROVE Invariant'
<1>1. FsInv /\ Offsets /\ program \in Programs BY DEF Invariant
<1>2. CASE Next
  <2>1. PICK p \in Proc : Call(p) \/ Step(p) BY <1>2 DEF Next
  <2>2. FsInv' BY <1>1, <2>1, StepsKeep, CallsKeep
  <2>3. Offsets' BY <1>1, <2>1, <2>2, OffsetsNext
  <2>4. UNCHANGED program BY <2>1, SameProgram
  <2>. QED BY <1>1, <2>2, <2>3, <2>4 DEF Invariant
<1>3. CASE UNCHANGED vars
  <2>1. FsInv' BY <1>1, <1>3, SameState DEF vars
  <2>2. UNCHANGED <<d, file, program>> BY <1>3 DEF vars
  <2>3. Offsets' BY <1>1, <2>1, <2>2, OffsetsFiles DEF Keeps
  <2>. QED BY <1>1, <2>1, <2>2, <2>3 DEF Invariant
<1>. QED BY <1>2, <1>3

\* The processes run one of the programs, and what the calls rely on holds.
LEMMA InvariantHolds == Spec => []Invariant
<1>1. Init => Invariant BY InitInv DEF Invariant, Init
<1>2. Invariant /\ [Next]_vars => Invariant' BY NextKeeps
<1>. QED BY <1>1, <1>2, PTL DEF Spec

-----------------------------------------------------------------------------
(* What follows from the invariant.                                        *)

\* Between its calls a process has no inode locked.
LEMMA NothingHeld ==
    ASSUME FsInv, NEW p \in Proc, k[p] = <<>>
    PROVE  /\ r[p] = NoRegs /\ \A i \in Inum : lock[i] # p
           /\ Closing(k[p]) = None
           /\ \A c : \A n \in 1 .. 9 : OwnOf(k[p], r[p], c)[n] = None
           /\ \A c : OwnOf(k[p], r[p], c)[10] = c
<1>1. r[p] = NoRegs BY Here DEF RegsOK
<1>2. \A m \in 0 .. 6 : Deep(k[p], m) = NoOp
  <2>1. Len(k[p]) = 0 OBVIOUS
  <2>. QED BY <2>1 DEF Deep
<1>3. NoOp.op = "none" /\ NoRegs.ip = None BY DEF NoOp, Op, NoRegs
<1>4. Deep(k[p], 1).op = "none" /\ Deep(k[p], 2).op = "none" /\ Deep(k[p], 3).op = "none"
  BY <1>2, <1>3
<1>5. Main(k[p], r[p]) = None /\ Dying(k[p]) = None /\ Closing(k[p]) = None
  BY <1>4 DEF Main, Dying, Closing, Putting
<1>6. \A i \in Inum : lock[i] # p BY <1>5, Parts, Constants DEF Locks
<1>7. \A c : \A n \in 1 .. 6 : OpOwn(k[p], n) = None
  BY <1>2, <1>3 DEF OpOwn, Owning, Putting
<1>8. /\ IpOwn(k[p], r[p]) = None /\ OldOwn(k[p], r[p]) = None /\ DpOwn(k[p], r[p]) = None
      /\ \A c : CwdOwn(k[p], c) = c
  BY <1>4 DEF IpOwn, OldOwn, DpOwn, CwdOwn
<1>9. \A c : \A n \in 1 .. 9 : OwnOf(k[p], r[p], c)[n] = None
  BY <1>7, <1>8 DEF OwnOf
<1>10. \A c : OwnOf(k[p], r[p], c)[10] = c BY <1>8 DEF OwnOf
<1>. QED BY <1>1, <1>5, <1>6, <1>9, <1>10

\* When no process is in a call the references to an inode are those of the
\* open files and the working directories.
LEMMA CountedAtRest ==
    ASSUME FsInv, \A p \in Proc : k[p] = <<>>, NEW i \in Inum
    PROVE  ref[i] = Cardinality({f \in File : file[f].ip = i})
                      + Cardinality({p \in Proc : cwd[p] = i})
<1>1. PICK D, A, B, C : /\ D = (Proc \X (1 .. 10)) \cup ({0} \X File)
                        /\ A = {x \in D : Owned[x] = i}
                        /\ B = {p \in Proc : cwd[p] = i} /\ C = {f \in File : file[f].ip = i}
  OBVIOUS
<1>2. DOMAIN Owned = D BY <1>1 DEF Owned
<1>3. i # None /\ 0 \notin Proc BY Constants
<1>4. IsFiniteSet(B) /\ Cardinality(B) \in Nat /\ IsFiniteSet(C) /\ Cardinality(C) \in Nat
  BY <1>1, Constants, FS_Subset, FS_CardinalityType
<1>5. A = (B \X {10}) \cup ({0} \X C)
  <2>1. ASSUME NEW x \in D
        PROVE  Owned[x] = i <=> x \in (B \X {10}) \cup ({0} \X C)
    <3>1. CASE x[1] = 0
      <4>1. x[2] \in File /\ Owned[x] = file[x[2]].ip /\ x = <<0, x[2]>>
        BY <1>1, <1>3, <3>1 DEF Owned
      <4>2. x \notin B \X {10} BY <1>1, <1>3, <3>1
      <4>3. x \in {0} \X C <=> x[2] \in C BY <4>1
      <4>. QED BY <1>1, <4>1, <4>2, <4>3
    <3>2. CASE x[1] # 0
      <4>1. x[1] \in Proc /\ x[2] \in 1 .. 10 /\ x = <<x[1], x[2]>> BY <1>1, <3>2
      <4>2. Owned[x] = OwnOf(k[x[1]], r[x[1]], cwd[x[1]])[x[2]] BY <1>1, <3>2 DEF Owned
      <4>3. x \notin {0} \X C BY <3>2
      <4>4. CASE x[2] = 10
        <5>1. Owned[x] = cwd[x[1]] BY <4>1, <4>2, <4>4, NothingHeld
        <5>2. x \in B \X {10} <=> x[1] \in B BY <4>1, <4>4
        <5>. QED BY <1>1, <4>1, <4>3, <5>1, <5>2
      <4>5. CASE x[2] # 10
        <5>1. x[2] \in 1 .. 9 BY <4>1, <4>5
        <5>2. Owned[x] = None BY <4>1, <4>2, <5>1, NothingHeld
        <5>3. x \notin B \X {10} BY <4>5
        <5>. QED BY <1>3, <4>3, <5>2, <5>3
      <4>. QED BY <4>4, <4>5
    <3>. QED BY <3>1, <3>2
  <2>2. (B \X {10}) \cup ({0} \X C) \subseteq D BY <1>1
  <2>. QED BY <1>1, <2>1, <2>2
<1>6. PICK S, T : S = B \X {10} /\ T = {0} \X C OBVIOUS
<1>7. /\ IsFiniteSet({10}) /\ Cardinality({10}) = 1 /\ IsFiniteSet({0}) /\ Cardinality({0}) = 1
  BY FS_Singleton
<1>8. IsFiniteSet(S) /\ Cardinality(S) = Cardinality(B) * 1 BY <1>4, <1>6, <1>7, FS_Product
<1>9. IsFiniteSet(T) /\ Cardinality(T) = 1 * Cardinality(C) BY <1>4, <1>6, <1>7, FS_Product
<1>10. Cardinality(S) = Cardinality(B) /\ Cardinality(T) = Cardinality(C) BY <1>4, <1>8, <1>9
<1>11. S \cap T = {} BY <1>1, <1>3, <1>6
<1>12. Cardinality(S \cup T) = Cardinality(S) + Cardinality(T)
  <2>1. Cardinality(S \cup T) = Cardinality(S) + Cardinality(T) - Cardinality(S \cap T)
    BY <1>8, <1>9, FS_Union
  <2>2. Cardinality(S \cap T) = 0 BY <1>11, FS_EmptySet
  <2>. QED BY <2>1, <2>2, <1>4, <1>10
<1>13. ref[i] = Cardinality(A) BY <1>1, <1>2, Parts DEF Counts, Count
<1>. QED BY <1>1, <1>4, <1>5, <1>6, <1>10, <1>12, <1>13

\* ... and those to an open file are the descriptors that have it.
LEMMA DescribedAtRest ==
    ASSUME FsInv, \A p \in Proc : k[p] = <<>>, NEW f \in File
    PROVE  file[f].ref = Cardinality({x \in Proc \X Fd : ofile[x[1]][x[2]] = f})
<1>1. file[f].ref = Cardinality({x \in DOMAIN Descriptors : Descriptors[x] = f})
  BY Parts DEF Counts, Count
<1>2. DOMAIN Descriptors = Proc \X (0 .. NOFILE) BY DEF Descriptors
<1>3. NOFILE \in Nat /\ f # None BY Constants
<1>4. Proc \X Fd \subseteq Proc \X (0 .. NOFILE) BY <1>3 DEF Fd
<1>5. ASSUME NEW x \in Proc \X (0 .. NOFILE)
      PROVE  Descriptors[x] = f <=> x \in Proc \X Fd /\ ofile[x[1]][x[2]] = f
  <2>1. x[1] \in Proc /\ x[2] \in 0 .. NOFILE /\ x = <<x[1], x[2]>> OBVIOUS
  <2>2. CASE x[2] < NOFILE
    <3>1. x[2] \in Fd BY <2>1, <2>2, <1>3 DEF Fd
    <3>2. Descriptors[x] = ofile[x[1]][x[2]] BY <2>2 DEF Descriptors
    <3>. QED BY <2>1, <3>1, <3>2
  <2>3. CASE ~(x[2] < NOFILE)
    <3>1. x[2] \notin Fd BY <2>3, <1>3 DEF Fd
    <3>2. Descriptors[x] = Closing(k[x[1]]) BY <2>3 DEF Descriptors
    <3>3. Descriptors[x] = None BY <2>1, <3>2, NothingHeld
    <3>. QED BY <1>3, <3>1, <3>3
  <2>. QED BY <2>2, <2>3
<1>6. {x \in DOMAIN Descriptors : Descriptors[x] = f} = {x \in Proc \X Fd : ofile[x[1]][x[2]] = f}
  BY <1>2, <1>4, <1>5
<1>. QED BY <1>1, <1>6

LEMMA CountedNow == FsInv => RefsCounted
<1>. SUFFICES ASSUME FsInv PROVE RefsCounted OBVIOUS
<1>1. TypeOK BY Parts
<1>2. ASSUME \A p \in Proc : k[p] = <<>>
      PROVE  /\ \A i \in Inum :
                   /\ lock[i] = None
                   /\ ref[i] = Cardinality({f \in File : file[f].ip = i})
                                 + Cardinality({p \in Proc : cwd[p] = i})
             /\ \A f \in File :
                   file[f].ref = Cardinality({x \in Proc \X Fd : ofile[x[1]][x[2]] = f})
  <2>1. ASSUME NEW i \in Inum PROVE lock[i] = None
    <3>1. lock[i] \in Proc \cup {None} BY <1>1 DEF TypeOK
    <3>2. lock[i] \notin Proc BY <1>2, NothingHeld
    <3>. QED BY <3>1, <3>2
  <2>. QED BY <1>2, <2>1, CountedAtRest, DescribedAtRest
<1>. QED BY <1>1, <1>2 DEF RefsCounted

\* What is open or a working directory has been found to be of some type, and
\* is not freed as long as it is.
LEMMA AttachedNow == FsInv => Attached
<1>. SUFFICES ASSUME FsInv PROVE Attached OBVIOUS
<1>1. ASSUME NEW f \in File, file[f].ref > 0 PROVE d.ino[file[f].ip].type # "none"
  <2>1. file[f].ip # None BY <1>1, Parts DEF Counts
  <2>. QED BY <2>1, Parts DEF InUse, Type
<1>2. ASSUME NEW p \in Proc, cwd[p] # None, k[p] = <<>> PROVE d.ino[cwd[p]].type # "none"
  <2>1. CwdOwn(k[p], cwd[p]) = cwd[p]
    <3>0. Len(k[p]) = 0 BY <1>2
    <3>1. Deep(k[p], 1) = NoOp BY <3>0 DEF Deep
    <3>. QED BY <3>1 DEF CwdOwn, NoOp, Op
  <2>2. Known(k[p], r[p], cwd[p]) BY Here
  <2>. QED BY <1>2, <2>1, <2>2 DEF Known, Type
<1>. QED BY <1>1, <1>2 DEF Attached

-----------------------------------------------------------------------------
(* The theorems.                                                           *)

\* fs.c, file.c, sysfile.c: inodes, reference counts, locks, files, descriptors
\* and the operations of every call have their types, the offset of a file is
\* at most MAXFILE and no more than NPROC transactions are in progress, with
\* every program of any number of processes.
THEOREM FileSystemTypes == Spec => []TypeOK
BY InvariantHolds, PTL DEF Invariant, FsInv

\* The bitmap says exactly what the inodes hold, and no block has two owners:
\* balloc(), bmap(), itrunc() and create() neither lose nor share a block, in
\* whatever order the calls of all processes go on.
THEOREM BlocksAreOwned == Spec => []BlocksOwned
BY InvariantHolds, PTL DEF Invariant, FsInv

\* Every path through every call gives back the references and the locks that
\* it takes: iget() and idup() against iput(), filealloc(), filedup() and fork()
\* against fileclose(), ilock() against iunlock().  When no process is in a call
\* the counts are those of the open files, the descriptors and the working
\* directories, and no inode is locked.
THEOREM ReferencesCounted == Spec => []RefsCounted
<1>1. Invariant => RefsCounted BY CountedNow DEF Invariant
<1>. QED BY <1>1, InvariantHolds, PTL

\* iput() frees an inode only when its last reference goes, so that what a
\* process has open, or as its working directory, is never freed under it.
THEOREM OpenIsAllocated == Spec => []Attached
<1>1. Invariant => Attached BY AttachedNow DEF Invariant
<1>. QED BY <1>1, InvariantHolds, PTL

\* No call returns with an inode locked, also while others are in theirs.
Unlocked == \A p \in Proc : k[p] = <<>> => \A i \in Inum : lock[i] # p

THEOREM CallsUnlock == Spec => []Unlocked
<1>1. Invariant => Unlocked BY NothingHeld DEF Invariant, Unlocked
<1>. QED BY <1>1, InvariantHolds, PTL

\* No file is longer than MAXFILE blocks, and none is open beyond its end: the
\* off > ip->size of readi() and writei() (fs.c:509, 538) is never true.
THEOREM NoneBeyondEnd == Spec => []Offsets
BY InvariantHolds, PTL DEF Invariant

===============================================================================
