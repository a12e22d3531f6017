--------------------------- MODULE FileSystemSteps ---------------------------
(***************************************************************************)
(* The invariant of the file system of Part_B (fs.c, file.c, sysfile.c),   *)
(* for any programs of any number of processes, and any numbers of inodes, *)
(* blocks, open files and descriptors, and the steps of a transaction that *)
(* leave the open files alone: those of namei(), ialloc(), iput() and of   *)
(* the calls on directories.  Who owns a reference or a lock at each       *)
(* moment follows from the operations that a call has still to do.         *)
(* FileSystemProofs has the other steps and the theorems.                  *)
(***************************************************************************)
EXTENDS FileSystem, FiniteSetTheorems, SequenceTheorems, WellFoundedInduction, TLAPS

-----------------------------------------------------------------------------
(* The stacks that a call can have.                                        *)

NoOp   == Op("none", None)
OpType == [op : Operations, ip : Nat]

\* The operation at depth m of stack s: at 1 is the last one of the call.
Deep(s, m) == IF m \in 1 .. Len(s) THEN s[Len(s) + 1 - m] ELSE NoOp

Putting == {"iput", "itrunc", "unref"}

\* Which operation may be at depth m, on top of which.
Fits(l, m, below) ==
    \/ m = 1 /\ l \in {"end_op", "set_cwd", "read", "fileclose", "close_begin"}
    \/ m = 2 /\ below = "set_cwd" /\ l = "end_op"
    \/ m = 2 /\ below = "end_op" /\ l \in Putting \cup
          {"open_file", "put_new", "link_dir", "link_undo", "unlink", "unlink_inode",
           "unlink_bad", "unlink_done", "write"}
    \/ m = 3 /\ below \in {"open_file", "put_new"} /\ l \in {"create", "create_new", "create_found"}
    \/ m = 3 /\ below = "open_file" /\ l = "open_lock"
    \/ m = 3 /\ below = "link_dir" /\ l = "link_count"
    \/ m = 3 /\ below = "link_undo" /\ l = "link_exists"
    \/ m = 3 /\ below = "end_op" /\ l = "chdir"
    \/ m = 3 /\ below \in {"link_dir", "unlink"} /\ l = "walk"
    \/ m = 3 /\ l \in Putting /\ below \in
          {"end_op", "open_file", "put_new", "link_dir", "unlink", "link_undo",
           "unlink_bad", "unlink_done", "iput"}
    \/ m = 4 /\ below = "iput" /\ l = "exit_files"
    \/ m = 4 /\ below \in {"create", "open_lock", "link_count", "chdir"} /\ l = "walk"
    \/ m = 4 /\ l \in Putting /\ below \in
          {"create", "open_lock", "link_count", "chdir", "create_found", "link_exists", "walk"}
    \/ m = 5 /\ below = "walk" /\ l \in Putting
    \/ m = 5 /\ below = "exit_files" /\ l \in {"fileclose", "close_begin", "end_op"}
    \/ m = 6 /\ below = "end_op" /\ l \in Putting

\* Operations that own a reference to their inode, and that name it without.
Owning == Putting \cup {"close_begin", "link_undo", "link_exists", "unlink_inode", "unlink_bad", "unlink_done"}
Naming == {"walk", "create_found", "create_new", "read", "write"}

OpOK(o) ==
    /\ o \in OpType
    /\ IF o.op \in Owning \cup Naming THEN o.ip \in Inum
       ELSE IF o.op = "fileclose" THEN o.ip \in File ELSE o.ip = None

StackOK(s) ==
    /\ s \in Seq(OpType) /\ Len(s) <= 6
    /\ \A m \in 1 .. Len(s) :
          OpOK(Deep(s, m)) /\ Fits(Deep(s, m).op, m, Deep(s, m - 1).op)

-----------------------------------------------------------------------------
(* The local variables of a call.                                          *)

Regs == [ip : Inum \cup {None}, dp : Inum \cup {None}, old : Inum \cup {None},
         name : Name, path : Seq(Name), parent : BOOLEAN,
         new : [abs : BOOLEAN, names : Seq(Name)],
         type : {"none", "file", "dir", "dev"}, file : File \cup {None},
         writable : BOOLEAN]

\* What they have to do with its stack.
RegsOK(s, g) ==
    /\ g \in Regs
    /\ s = <<>> => g = NoRegs
    /\ Deep(s, 2).op = "link_dir" => (g.old = None <=> Deep(s, 3).op = "link_count")
    /\ \A m \in 1 .. 6 :
          /\ Deep(s, m).op \in {"walk", "create_found", "create_new"} => Deep(s, m).ip = g.ip
          /\ Deep(s, m).op = "walk" => g.path # <<>>
    /\ Deep(s, 3).op = "create_new" \/ Deep(s, 2).op = "unlink_inode" => g.dp # None
    /\ Deep(s, 3).op \in {"create", "create_new", "create_found"} =>
          g.type # "none" /\ (Deep(s, 2).op = "open_file" => g.type = "file")

\* exit() gives the working directory back; its files are closed first.
Leaving(s, g) == Deep(s, 1).op = "set_cwd" /\ Deep(s, 3).op # "chdir" /\ g.ip = None
Closed(s, g)  == Leaving(s, g) /\ Deep(s, 4).op # "exit_files"

\* A process reads or writes a file that it has open.
Busy(s) == Deep(s, 1).op = "read" \/ Deep(s, 2).op = "write"
FileOK(s, f, of) ==
    /\ f \in File /\ \E fd \in Fd : of[fd] = f
    /\ Head(s).ip = file[f].ip
    /\ Deep(s, 2).op = "write" => file[f].writable

Local ==
    /\ DOMAIN k = Proc /\ DOMAIN r = Proc
    /\ \A p \in Proc :
          /\ StackOK(k[p]) /\ RegsOK(k[p], r[p])
          /\ cwd[p] = None => k[p] = <<>>
          /\ Deep(k[p], 1).op = "fileclose" => r[p] = NoRegs
          /\ cwd[p] = None \/ Closed(k[p], r[p]) => \A fd \in Fd : ofile[p][fd] = None
          /\ Busy(k[p]) => FileOK(k[p], r[p].file, ofile[p])

-----------------------------------------------------------------------------
(* Who owns the references to an inode, or to an open file.                *)

\* The references that a process owns: those of the operations to come, of its
\* local variables and of its working directory.
OpOwn(s, m)   == IF Deep(s, m).op \in Owning THEN Deep(s, m).ip ELSE None
IpOwn(s, g)   == IF \/ Deep(s, 2).op \in {"open_file", "put_new", "link_dir", "unlink"}
                    \/ Deep(s, 1).op = "set_cwd"
                 THEN g.ip ELSE None
OldOwn(s, g)  == IF Deep(s, 2).op = "link_dir" THEN g.old ELSE None
DpOwn(s, g)   == IF Deep(s, 3).op = "create_new" \/ Deep(s, 2).op = "unlink_inode"
                 THEN g.dp ELSE None
CwdOwn(s, c)  == IF Deep(s, 1).op # "set_cwd" \/ Deep(s, 3).op = "chdir" THEN c ELSE None

OwnOf(s, g, c) ==
    [n \in 1 .. 10 |->
       IF n <= 6 THEN OpOwn(s, n) ELSE IF n = 7 THEN IpOwn(s, g)
       ELSE IF n = 8 THEN OldOwn(s, g) ELSE IF n = 9 THEN DpOwn(s, g) ELSE CwdOwn(s, c)]

\* Each place that may own a reference, with the inode: those of the processes
\* and the open files.
Owned == [x \in (Proc \X (1 .. 10)) \cup ({0} \X File) |->
             IF x[1] = 0 THEN file[x[2]].ip ELSE OwnOf(k[x[1]], r[x[1]], cwd[x[1]])[x[2]]]

\* The same for open files: descriptors, and the file that a process closes.
Closing(s) == IF s # <<>> /\ Head(s).op = "fileclose" THEN Head(s).ip ELSE None
Descriptors ==
    [x \in Proc \X (0 .. NOFILE) |->
       IF x[2] < NOFILE THEN ofile[x[1]][x[2]] ELSE Closing(k[x[1]])]

\* How many places have v.
Count(held, v) == Cardinality({x \in DOMAIN held : held[x] = v})

InTransaction(s) ==
    s # <<>> /\ Head(s).op \notin {"fileclose", "close_begin", "exit_files", "read", "set_cwd"}

Counts ==
    /\ \A i \in Inum : ref[i] = Count(Owned, i)
    /\ \A f \in File : file[f].ref = Count(Descriptors, f)
    /\ outstanding = Cardinality({p \in Proc : InTransaction(k[p])})
    /\ \A f \in File : IF file[f].ref = 0 THEN file[f] = NoFile ELSE file[f].ip # None

-----------------------------------------------------------------------------
(* Locks, and inodes that are in use.                                      *)

\* The inode that a call keeps locked between its steps.
Main(s, g) ==
    IF Deep(s, 2).op \in {"unlink_bad", "unlink_done"} THEN Deep(s, 2).ip
    ELSE IF Deep(s, 2).op = "unlink_inode" \/ Deep(s, 3).op = "create_new" THEN g.dp
    ELSE IF Deep(s, 3).op = "link_exists" THEN Deep(s, 3).ip
    ELSE IF /\ Deep(s, 2).op \in {"open_file", "put_new"}
            /\ Deep(s, 3).op \in {"none"} \cup Putting
    THEN g.ip ELSE None

\* The one that iput() is about to free.
Dying(s) == IF s # <<>> /\ Head(s).op = "itrunc" THEN Head(s).ip ELSE None

Locks ==
    \A p \in Proc :
       /\ \A i \in Inum : lock[i] = p <=> i \in {Main(k[p], r[p]), Dying(k[p])}
       /\ Dying(k[p]) # None => Dying(k[p]) # Main(k[p], r[p])

\* The directory that a chdir() goes to, and the inode that create() makes.
NextCwd(s, g) ==
    IF Deep(s, 1).op = "set_cwd" /\ Deep(s, 3).op # "chdir" THEN g.ip ELSE None
Fresh(s, g) == IF Deep(s, 3).op = "create_new" THEN g.ip ELSE None

Type(i) == d.ino[i].type

\* The inodes that process p has found to be of some type, or has made.
Known(s, g, c) ==
    /\ CwdOwn(s, c) # None => Type(CwdOwn(s, c)) = "dir"
    /\ NextCwd(s, g) # None => Type(NextCwd(s, g)) = "dir"
    /\ Main(s, g) # None => Type(Main(s, g)) # "none"
    /\ Fresh(s, g) # None => /\ Type(Fresh(s, g)) = g.type
                             /\ IsDir(Fresh(s, g)) => d.ino[Fresh(s, g)].addrs = <<>>
    /\ Deep(s, 2).op = "open_file" /\ g.ip # None /\ Main(s, g) = g.ip /\ g.writable =>
          Type(g.ip) # "dir"

\* Nobody has anything to do with an inode that is about to be freed.
Forgotten(i) ==
    /\ Type(i) # "none"
    /\ \A f \in File : file[f].ip # i
    /\ \A q \in Proc : i \notin {CwdOwn(k[q], cwd[q]), NextCwd(k[q], r[q]), Fresh(k[q], r[q])}

InUse ==
    /\ \A i \in Inum : valid[i] => Type(i) # "none"
    /\ \A i \in Inum : Type(i) = "none" =>
          d.ino[i] = FreeInode /\ d.ent[i] = NoEntries
    /\ \A f \in File : file[f].ip # None =>
          Type(file[f].ip) # "none" /\ (file[f].writable => Type(file[f].ip) # "dir")
    /\ \A p \in Proc : Known(k[p], r[p], cwd[p])
    /\ \A p, q \in Proc : p # q /\ Fresh(k[p], r[p]) # None =>
          Fresh(k[p], r[p]) # Fresh(k[q], r[q])
    /\ \A p \in Proc : Dying(k[p]) # None => Forgotten(Dying(k[p]))

FsInv == TypeOK /\ Local /\ Counts /\ Locks /\ InUse /\ BlocksOwned

-----------------------------------------------------------------------------
(* Facts about constants, counting and stacks.                             *)

\* The constants have types, and 0 is no process, inode, block or file.
LEMMA Constants ==
    /\ NPROC \in Nat /\ NINODES \in Nat \ {0} /\ NBLOCKS \in Nat \ {0}
    /\ NFILE \in Nat /\ NOFILE \in Nat /\ MAXFILE \in Nat \ {0}
    /\ 0 \notin Proc /\ None \notin Inum /\ None \notin File /\ None \notin Proc
    /\ Proc \subseteq Nat /\ Inum \subseteq Nat /\ File \subseteq Nat /\ Fd \subseteq Nat
    /\ Block \subseteq Nat /\ ROOTINO \in Inum /\ 1 \in Block
    /\ IsFiniteSet(Proc) /\ IsFiniteSet(Inum) /\ IsFiniteSet(File) /\ IsFiniteSet(Fd)
<1>1. /\ NPROC \in Nat /\ NINODES \in Nat \ {0} /\ NBLOCKS \in Nat \ {0}
      /\ NFILE \in Nat /\ NOFILE \in Nat /\ MAXFILE \in Nat \ {0}
  BY FileSystemAssumption
<1>2. IsFiniteSet(Proc) /\ IsFiniteSet(Inum) /\ IsFiniteSet(File) /\ IsFiniteSet(Fd)
  BY <1>1, FS_Interval DEF Proc, Inum, File, Fd
<1>. QED BY <1>1, <1>2 DEF Proc, Inum, File, Fd, Block, None, ROOTINO

\* The least of some natural numbers is one of them (balloc(), ialloc(),
\* filealloc() and fdalloc()).
LEMMA MinIn ==
    ASSUME NEW S \in SUBSET Nat, S # {}
    PROVE  Min(S) \in S
<1> DEFINE R == OpToRel(<, Nat)
<1>1. IsWellFoundedOn(R, Nat)
  BY NatLessThanWellFounded
<1> HIDE DEF R
<1>2. PICK n \in S : \A m \in S : ~(<<m, n>> \in R)
  BY <1>1, WFMin
<1>3. \A m \in S : ~(m < n)
  BY <1>2 DEF R, OpToRel
<1>4. \A m \in S : n <= m
  BY <1>3
<1>. QED BY <1>4 DEF Min

\* 1 if v is i.
Is(v, i) == IF v = i THEN 1 ELSE 0

\* The places of D where F has v, one of them aside.
LEMMA CountOne ==
    ASSUME NEW D, IsFiniteSet(D), NEW F, NEW a \in D, NEW v
    PROVE  Cardinality({x \in D : F[x] = v}) =
           Cardinality({x \in D \ {a} : F[x] = v}) + Is(F[a], v)
<1> DEFINE R == {x \in D \ {a} : F[x] = v}
<1>1. IsFiniteSet(R) BY FS_Subset, FS_RemoveElement
<1>2. {x \in D : F[x] = v} = IF F[a] = v THEN R \cup {a} ELSE R OBVIOUS
<1>3. a \notin R /\ Cardinality(R) \in Nat BY <1>1, FS_CardinalityType
<1>4. Cardinality(R \cup {a}) = Cardinality(R) + 1 BY <1>1, <1>3, FS_AddElement
<1>5. Cardinality({x \in D : F[x] = v}) = Cardinality(R) + Is(F[a], v)
  <2>. HIDE DEF R
  <2>1. CASE F[a] = v BY <2>1, <1>2, <1>4 DEF Is
  <2>2. CASE F[a] # v BY <2>2, <1>2, <1>3 DEF Is
  <2>. QED BY <2>1, <2>2
<1>. QED BY <1>5

\* Two assignments that differ in three places count what they have there.
CountIn(D, F, v) == Cardinality({x \in D : F[x] = v})
Differ(D, F, G, a, b, c) ==
    /\ IsFiniteSet(D) /\ a \in D /\ b \in D /\ c \in D /\ a # b /\ a # c /\ b # c
    /\ \A x \in D \ {a, b, c} : F[x] = G[x]

LEMMA Exchanged ==
    ASSUME NEW D, NEW F, NEW G, NEW a, NEW b, NEW c, Differ(D, F, G, a, b, c), NEW v
    PROVE  /\ CountIn(D, F, v) \in Nat /\ CountIn(D, G, v) \in Nat
           /\ CountIn(D, G, v) + Is(F[a], v) + Is(F[b], v) + Is(F[c], v)
              = CountIn(D, F, v) + Is(G[a], v) + Is(G[b], v) + Is(G[c], v)
<1>d. /\ IsFiniteSet(D) /\ a \in D /\ b \in D /\ c \in D /\ a # b /\ a # c /\ b # c
      /\ \A x \in D \ {a, b, c} : F[x] = G[x]
  BY DEF Differ
<1> DEFINE E == D \ {a}
           B == E \ {b}
           C == B \ {c}
           N(S, H) == Cardinality({x \in S : H[x] = v})
<1>1. IsFiniteSet(E) /\ IsFiniteSet(B) /\ IsFiniteSet(C) /\ b \in E /\ c \in B
  BY <1>d, FS_RemoveElement
<1>0. \A S : IsFiniteSet(S) => \A H : \A y \in S : N(S, H) = N(S \ {y}, H) + Is(H[y], v)
  BY CountOne
<1>2. N(D, F) = N(E, F) + Is(F[a], v) /\ N(D, G) = N(E, G) + Is(G[a], v)
  <2>. HIDE DEF N
  <2>. QED BY <1>0, <1>d
<1>3. N(E, F) = N(B, F) + Is(F[b], v) /\ N(E, G) = N(B, G) + Is(G[b], v)
  <2>. HIDE DEF N, E
  <2>. QED BY <1>1, <1>0
<1>4. N(B, F) = N(C, F) + Is(F[c], v) /\ N(B, G) = N(C, G) + Is(G[c], v)
  <2>. HIDE DEF N, B
  <2>. QED BY <1>1, <1>0
<1>5. {x \in C : F[x] = v} = {x \in C : G[x] = v} BY <1>d
<1>6. N(C, F) \in Nat
  <2>1. IsFiniteSet({x \in C : F[x] = v}) BY <1>1, FS_Subset
  <2>. QED BY <2>1, FS_CardinalityType
<1>7. \A u, w : Is(u, w) \in 0 .. 1 BY DEF Is
<1>8. N(C, F) = N(C, G) BY <1>5
<1>9. /\ N(D, F) = N(C, F) + Is(F[c], v) + Is(F[b], v) + Is(F[a], v)
      /\ N(D, G) = N(C, F) + Is(G[c], v) + Is(G[b], v) + Is(G[a], v)
  <2>. HIDE DEF N, C, B, E
  <2>. QED BY <1>2, <1>3, <1>4, <1>6, <1>7, <1>8
<1>. QED
  <2>1. N(D, F) \in Nat /\ N(D, G) \in Nat /\
        N(D, G) + Is(F[a], v) + Is(F[b], v) + Is(F[c], v)
        = N(D, F) + Is(G[a], v) + Is(G[b], v) + Is(G[c], v)
    <3>. HIDE DEF N, C, B, E
    <3>1. /\ Is(F[a], v) \in Nat /\ Is(F[b], v) \in Nat /\ Is(F[c], v) \in Nat
          /\ Is(G[a], v) \in Nat /\ Is(G[b], v) \in Nat /\ Is(G[c], v) \in Nat
      BY <1>7
    <3>. QED BY <1>9, <1>6, <3>1
  <2>. QED BY <2>1 DEF CountIn

\* What has one place has no other.
LEMMA OnlyPlace ==
    ASSUME NEW D, IsFiniteSet(D), NEW F, NEW v, NEW a \in D, NEW b \in D,
           F[a] = v, F[b] = v, Cardinality({x \in D : F[x] = v}) = 1
    PROVE  a = b
<1>1. IsFiniteSet({x \in D : F[x] = v}) BY FS_Subset
<1>2. PICK y : {x \in D : F[x] = v} = {y} BY <1>1, FS_Singleton
<1>. QED BY <1>2

-----------------------------------------------------------------------------
(* Stacks: the first operation taken away, and others put in its place.    *)

LEMMA Rest ==
    ASSUME NEW s, StackOK(s), s # <<>>
    PROVE  /\ Len(s) \in 1 .. 6
           /\ Head(s) = Deep(s, Len(s)) /\ OpOK(Head(s))
           /\ Fits(Head(s).op, Len(s), Deep(s, Len(s) - 1).op)
           /\ StackOK(Tail(s)) /\ Len(Tail(s)) = Len(s) - 1
           /\ <<>> \o Tail(s) = Tail(s)
           /\ \A m \in Nat : Deep(Tail(s), m) = IF m < Len(s) THEN Deep(s, m) ELSE NoOp
<1>0. s \in Seq(OpType) /\ Len(s) <= 6
  BY DEF StackOK
<1>1. s \in Seq(OpType) /\ Len(s) \in 1 .. 6
  <2>1. Len(s) \in Nat \ {0} BY <1>0, EmptySeq
  <2>2. \A n \in Nat \ {0} : n <= 6 => n \in 1 .. 6 OBVIOUS
  <2>. QED BY <2>1, <2>2, <1>0
<1>2. Tail(s) \in Seq(OpType) /\ Len(Tail(s)) = Len(s) - 1
      /\ \A i \in 1 .. Len(s) - 1 : Tail(s)[i] = s[i + 1]
  BY <1>1
<1>3. \A m \in Nat : Deep(Tail(s), m) = IF m < Len(s) THEN Deep(s, m) ELSE NoOp
  BY <1>1, <1>2 DEF Deep
<1>4. Head(s) = Deep(s, Len(s))
  BY <1>1 DEF Deep
<1>5. StackOK(Tail(s))
  <2>1. ASSUME NEW m \in 1 .. Len(s) - 1
        PROVE  Deep(Tail(s), m) = Deep(s, m) /\ Deep(Tail(s), m - 1) = Deep(s, m - 1)
    BY <1>1, <1>3, m \in Nat, m - 1 \in Nat
  <2>. QED BY <2>1, <1>1, <1>2 DEF StackOK
<1>6. OpOK(Deep(s, Len(s))) /\ Fits(Deep(s, Len(s)).op, Len(s), Deep(s, Len(s) - 1).op)
  BY <1>1 DEF StackOK
<1>7. <<>> \o Tail(s) = Tail(s)
  BY <1>2, ConcatEmptySeq
<1>. QED BY <1>1, <1>2, <1>3, <1>4, <1>5, <1>6, <1>7

LEMMA Put1 ==
    ASSUME NEW b, StackOK(b), Len(b) < 6, NEW x, OpOK(x),
           Fits(x.op, Len(b) + 1, Deep(b, Len(b)).op)
    PROVE  /\ StackOK(<<x>> \o b) /\ Len(<<x>> \o b) = Len(b) + 1 /\ <<x>> \o b # <<>>
           /\ Head(<<x>> \o b) = x
           /\ \A m \in Nat : Deep(<<x>> \o b, m) = IF m = Len(b) + 1 THEN x ELSE Deep(b, m)
<1> DEFINE t == <<x>> \o b
<1>0. b \in Seq(OpType) /\ x \in OpType
  BY DEF StackOK, OpOK
<1>1. b \in Seq(OpType) /\ x \in OpType /\ Len(b) \in 0 .. 5
  <2>1. Len(b) \in Nat BY <1>0, LenProperties
  <2>2. \A n \in Nat : n < 6 => n \in 0 .. 5 OBVIOUS
  <2>. QED BY <1>0, <2>1, <2>2
<1>2. t \in Seq(OpType) /\ Len(t) = Len(b) + 1 /\ t[1] = x
      /\ \A i \in 2 .. Len(t) : t[i] = b[i - 1]
  BY <1>1
<1>3. \A m \in Nat : Deep(t, m) = IF m = Len(b) + 1 THEN x ELSE Deep(b, m)
  BY <1>1, <1>2 DEF Deep
<1>4. \A m \in 1 .. Len(b) : OpOK(Deep(b, m)) /\ Fits(Deep(b, m).op, m, Deep(b, m - 1).op)
  BY DEF StackOK
<1>. HIDE DEF t
<1>5. StackOK(t)
  <2>1. ASSUME NEW m \in 1 .. Len(t)
        PROVE  OpOK(Deep(t, m)) /\ Fits(Deep(t, m).op, m, Deep(t, m - 1).op)
    <3>1. m \in Nat /\ m - 1 \in Nat /\ m - 1 # Len(b) + 1 /\ Len(b) + 1 - 1 = Len(b)
      BY <1>1, <1>2
    <3>2. Deep(t, m - 1) = Deep(b, m - 1) BY <1>3, <3>1
    <3>3. CASE m = Len(b) + 1
      <4>1. Deep(t, m) = x BY <3>1, <3>3, <1>3, Zenon
      <4>2. Deep(t, m - 1) = Deep(b, Len(b))
        <5>0. Len(b) \in Nat BY <1>1
        <5>1. m - 1 = Len(b) BY <5>0, <3>3
        <5>. QED BY <5>1, <3>2
      <4>. QED BY <4>1, <4>2, <3>3
    <3>4. CASE m # Len(b) + 1
      <4>1. m \in 1 .. Len(b) BY <3>4, <1>2, <1>1
      <4>2. Deep(t, m) = Deep(b, m) BY <3>4, <1>3, <3>1
      <4>. QED BY <4>1, <4>2, <3>2, <1>4
    <3>. QED BY <3>3, <3>4
  <2>. QED BY <2>1, <1>1, <1>2 DEF StackOK
<1>6. t # <<>> /\ Head(t) = x BY <1>1, <1>2
<1>. QED BY <1>2, <1>3, <1>5, <1>6 DEF t

LEMMA Two ==
    ASSUME NEW S, NEW x \in S, NEW y \in S
    PROVE  /\ <<x>> \o <<>> = <<x>> /\ <<x>> \o <<y>> = <<x, y>>
           /\ \A z \in S : <<x>> \o <<y, z>> = <<x, y, z>>
<1>1. /\ <<x>> \in Seq(S) /\ <<y>> \in Seq(S) /\ <<x, y>> \in Seq(S)
      /\ Len(<<x>>) = 1 /\ Len(<<y>>) = 1 /\ Len(<<x, y>>) = 2
  OBVIOUS
<1>2. <<x>> \o <<>> = <<x>> BY <1>1, ConcatEmptySeq
<1>3. <<x>> \o <<y>> = <<x, y>>
  <2>1. /\ <<x>> \o <<y>> \in Seq(S) /\ Len(<<x>> \o <<y>>) = 2
        /\ \A i \in 1 .. 2 : (<<x>> \o <<y>>)[i] = IF i <= 1 THEN <<x>>[i] ELSE <<y>>[i - 1]
    BY <1>1, ConcatProperties
  <2>2. \A i \in 1 .. 2 : i \in {1, 2} OBVIOUS
  <2>3. \A i \in 1 .. 2 : (<<x>> \o <<y>>)[i] = <<x, y>>[i]
    BY <2>1, <2>2
  <2>. QED BY <1>1, <2>1, <2>3, SeqEqual
<1>4. ASSUME NEW z \in S PROVE <<x>> \o <<y, z>> = <<x, y, z>>
  <2>0. /\ <<y, z>> \in Seq(S) /\ <<x, y, z>> \in Seq(S)
        /\ Len(<<y, z>>) = 2 /\ Len(<<x, y, z>>) = 3
    OBVIOUS
  <2>1. /\ <<x>> \o <<y, z>> \in Seq(S) /\ Len(<<x>> \o <<y, z>>) = 3
        /\ \A i \in 1 .. 3 : (<<x>> \o <<y, z>>)[i] =
                               IF i <= 1 THEN <<x>>[i] ELSE <<y, z>>[i - 1]
    BY <1>1, <2>0, ConcatProperties
  <2>2. \A i \in 1 .. 3 : i \in {1, 2, 3} OBVIOUS
  <2>3. \A i \in 1 .. 3 : (<<x>> \o <<y, z>>)[i] = <<x, y, z>>[i]
    BY <2>1, <2>2
  <2>. QED BY <2>0, <2>1, <2>3, SeqEqual
<1>. QED BY <1>2, <1>3, <1>4

LEMMA Put2 ==
    ASSUME NEW b, StackOK(b), Len(b) < 5, NEW x, NEW y, OpOK(x), OpOK(y),
           Fits(y.op, Len(b) + 1, Deep(b, Len(b)).op), Fits(x.op, Len(b) + 2, y.op)
    PROVE  /\ StackOK(<<x, y>> \o b) /\ Len(<<x, y>> \o b) = Len(b) + 2 /\ <<x, y>> \o b # <<>>
           /\ Head(<<x, y>> \o b) = x
           /\ \A m \in Nat : Deep(<<x, y>> \o b, m) = 
                 IF m = Len(b) + 2 THEN x ELSE IF m = Len(b) + 1 THEN y ELSE Deep(b, m)
<1>1. b \in Seq(OpType) /\ x \in OpType /\ y \in OpType /\ Len(b) \in Nat
  BY DEF StackOK, OpOK
<1>2. <<x, y>> \o b = <<x>> \o (<<y>> \o b)
  <2>1. <<x>> \in Seq(OpType) /\ <<y>> \in Seq(OpType)
    BY <1>1
  <2>2. <<x>> \o <<y>> = <<x, y>>
    BY <1>1, Two
  <2>3. (<<x>> \o <<y>>) \o b = <<x>> \o (<<y>> \o b)
    BY <1>1, <2>1, ConcatAssociative
  <2>. QED BY <2>2, <2>3
<1> DEFINE t == <<y>> \o b
<1>3. /\ StackOK(t) /\ Len(t) = Len(b) + 1
      /\ \A m \in Nat : Deep(t, m) = IF m = Len(b) + 1 THEN y ELSE Deep(b, m)
  BY <1>1, Put1
<1>. HIDE DEF t
<1>4. Deep(t, Len(t)) = y /\ Len(t) < 6 /\ Len(t) + 1 = Len(b) + 2
  BY <1>1, <1>3
<1>5. /\ StackOK(<<x>> \o t) /\ Len(<<x>> \o t) = Len(t) + 1 /\ <<x>> \o t # <<>>
      /\ Head(<<x>> \o t) = x
      /\ \A m \in Nat : Deep(<<x>> \o t, m) = IF m = Len(t) + 1 THEN x ELSE Deep(t, m)
  BY <1>3, <1>4, Put1
<1>6. <<x, y>> \o b = <<x>> \o t BY <1>2 DEF t
<1>. QED BY <1>3, <1>4, <1>5, <1>6

LEMMA Put3 ==
    ASSUME NEW b, StackOK(b), Len(b) < 4, NEW x, NEW y, NEW z, OpOK(x), OpOK(y), OpOK(z),
           Fits(z.op, Len(b) + 1, Deep(b, Len(b)).op), Fits(y.op, Len(b) + 2, z.op),
           Fits(x.op, Len(b) + 3, y.op)
    PROVE  /\ StackOK(<<x, y, z>> \o b) /\ Len(<<x, y, z>> \o b) = Len(b) + 3
           /\ <<x, y, z>> \o b # <<>> /\ Head(<<x, y, z>> \o b) = x
           /\ \A m \in Nat : Deep(<<x, y, z>> \o b, m) = 
                 IF m = Len(b) + 3 THEN x ELSE IF m = Len(b) + 2 THEN y
                 ELSE IF m = Len(b) + 1 THEN z ELSE Deep(b, m)
<1>1. b \in Seq(OpType) /\ x \in OpType /\ y \in OpType /\ z \in OpType /\ Len(b) \in Nat
  BY DEF StackOK, OpOK
<1>2. <<x, y, z>> \o b = <<x>> \o (<<y, z>> \o b)
  <2>1. <<x>> \in Seq(OpType) /\ <<y, z>> \in Seq(OpType)
    BY <1>1
  <2>2. <<x>> \o <<y, z>> = <<x, y, z>>
    BY <1>1, Two
  <2>3. (<<x>> \o <<y, z>>) \o b = <<x>> \o (<<y, z>> \o b)
    BY <1>1, <2>1, ConcatAssociative
  <2>. QED BY <2>2, <2>3
<1> DEFINE t == <<y, z>> \o b
<1>3. /\ StackOK(t) /\ Len(t) = Len(b) + 2
      /\ \A m \in Nat : Deep(t, m) = IF m = Len(b) + 2 THEN y
                                     ELSE IF m = Len(b) + 1 THEN z ELSE Deep(b, m)
  <2>1. Len(b) < 5 BY <1>1
  <2>. QED BY <2>1, Put2
<1>. HIDE DEF t
<1>4. Deep(t, Len(t)) = y /\ Len(t) < 6 /\ Len(t) + 1 = Len(b) + 3
  BY <1>1, <1>3
<1>5. /\ StackOK(<<x>> \o t) /\ Len(<<x>> \o t) = Len(t) + 1 /\ <<x>> \o t # <<>>
      /\ Head(<<x>> \o t) = x
      /\ \A m \in Nat : Deep(<<x>> \o t, m) = IF m = Len(t) + 1 THEN x ELSE Deep(t, m)
  BY <1>3, <1>4, Put1
<1>6. <<x, y, z>> \o b = <<x>> \o t BY <1>2 DEF t
<1>. QED BY <1>3, <1>4, <1>5, <1>6

\* What Fail() leaves of a call.
LEMMA Failed ==
    /\ StackOK(Ops(<<"end_op">>)) /\ Len(Ops(<<"end_op">>)) = 1
    /\ <<>> \o Ops(<<"end_op">>) = Ops(<<"end_op">>)
    /\ \A m \in Nat : Deep(Ops(<<"end_op">>), m) = IF m = 1 THEN Op("end_op", None) ELSE NoOp
<1>1. Ops(<<"end_op">>) = <<Op("end_op", None)>> BY DEF Ops
<1>2. OpOK(Op("end_op", None))
  BY DEF OpOK, OpType, Op, Operations, Owning, Naming, Putting, None, Locking
<1>0. Op("end_op", None) \in OpType BY <1>2 DEF OpOK
<1>3. Ops(<<"end_op">>) \in Seq(OpType) /\ Len(Ops(<<"end_op">>)) = 1
  <2>. DEFINE x == Op("end_op", None)
  <2>1. x \in OpType /\ Ops(<<"end_op">>) = <<x>> BY <1>0, <1>1
  <2>. HIDE DEF x
  <2>2. <<x>> \in Seq(OpType) /\ Len(<<x>>) = 1 BY <2>1
  <2>. QED BY <2>1, <2>2, Zenon
<1>4. \A m \in Nat : Deep(Ops(<<"end_op">>), m) = IF m = 1 THEN Op("end_op", None) ELSE NoOp
  BY <1>1 DEF Deep
<1>5. Fits(Op("end_op", None).op, 1, NoOp.op)
  BY DEF Fits, Op
<1>6. StackOK(Ops(<<"end_op">>))
  <2>1. \A m \in 1 .. 1 : m = 1 /\ m - 1 = 0 OBVIOUS
  <2>2. Deep(Ops(<<"end_op">>), 1) = Op("end_op", None) /\ Deep(Ops(<<"end_op">>), 0) = NoOp
    BY <1>4
  <2>3. \A m \in 1 .. 1 : OpOK(Deep(Ops(<<"end_op">>), m)) /\
           Fits(Deep(Ops(<<"end_op">>), m).op, m, Deep(Ops(<<"end_op">>), m - 1).op)
    BY <2>1, <2>2, <1>2, <1>5
  <2>4. Len(Ops(<<"end_op">>)) <= 6 BY <1>3
  <2>5. \A m \in 1 .. Len(Ops(<<"end_op">>)) : m \in 1 .. 1 BY <1>3
  <2>. QED BY <2>3, <2>4, <2>5, <1>3 DEF StackOK
<1>7. <<>> \o Ops(<<"end_op">>) = Ops(<<"end_op">>)
  BY <1>3, ConcatEmptySeq
<1>. QED BY <1>3, <1>4, <1>6, <1>7

\* The operations of a stack of length L, one by one.
Layer(s, L, m) ==
    IF L < m THEN Deep(s, m) = NoOp
    ELSE OpOK(Deep(s, m)) /\ Fits(Deep(s, m).op, m, Deep(s, m - 1).op)

Layers(s, L) ==
    /\ L \in Nat /\ L <= 6 /\ (s = <<>> <=> L = 0)
    /\ Deep(s, 0) = NoOp
    /\ Layer(s, L, 1) /\ Layer(s, L, 2) /\ Layer(s, L, 3)
    /\ Layer(s, L, 4) /\ Layer(s, L, 5) /\ Layer(s, L, 6)
    /\ s # <<>> => Head(s) = Deep(s, L)

LEMMA Layered ==
    ASSUME NEW s, StackOK(s)
    PROVE  /\ Layers(s, Len(s))
           /\ \A m \in Nat : m > Len(s) => Deep(s, m) = NoOp
           /\ \A m \in Nat : Deep(s, m).op \in Operations \cup {"none"} /\ Deep(s, m).ip \in Nat
<1>1. s \in Seq(OpType) /\ Len(s) <= 6 /\
      \A m \in 1 .. Len(s) : OpOK(Deep(s, m)) /\ Fits(Deep(s, m).op, m, Deep(s, m - 1).op)
  BY DEF StackOK
<1>2. Len(s) \in Nat /\ (s = <<>> <=> Len(s) = 0)
  BY <1>1, EmptySeq, LenProperties
<1>. DEFINE L == Len(s)
<1>3. \A m \in Nat : m > L => Deep(s, m) = NoOp
  BY <1>2 DEF Deep
<1>4. \A m \in Nat : m >= 1 => Layer(s, L, m)
  <2>. SUFFICES ASSUME NEW m \in Nat, m >= 1 PROVE Layer(s, L, m) OBVIOUS
  <2>1. CASE L < m BY <2>1, <1>2, <1>3 DEF Layer
  <2>2. CASE ~(L < m)
    <3>1. m \in 1 .. L BY <2>2, <1>2
    <3>. QED BY <3>1, <1>1, <2>2 DEF Layer
  <2>. QED BY <2>1, <2>2
<1>5. Deep(s, 0) = NoOp BY <1>2 DEF Deep
<1>6. \A m \in Nat : Deep(s, m).op \in Operations \cup {"none"} /\ Deep(s, m).ip \in Nat
  <2>. SUFFICES ASSUME NEW m \in Nat
                PROVE  Deep(s, m).op \in Operations \cup {"none"} /\ Deep(s, m).ip \in Nat
    OBVIOUS
  <2>1. CASE Deep(s, m) = NoOp BY <2>1 DEF NoOp, Op, None
  <2>2. CASE Deep(s, m) # NoOp
    <3>1. m \in 1 .. L BY <2>2 DEF Deep
    <3>2. OpOK(Deep(s, m)) BY <3>1, <1>1
    <3>. QED BY <3>2 DEF OpOK, OpType
  <2>. QED BY <2>1, <2>2
<1>8. s # <<>> => Head(s) = Deep(s, L)
  BY <1>2, Rest
<1>7. Layers(s, L)
  <2>1. L \in Nat /\ L <= 6 /\ (s = <<>> <=> L = 0)
    BY <1>1, <1>2
  <2>. HIDE DEF L
  <2>2. /\ Layer(s, L, 1) /\ Layer(s, L, 2) /\ Layer(s, L, 3)
        /\ Layer(s, L, 4) /\ Layer(s, L, 5) /\ Layer(s, L, 6)
    BY <1>4
  <2>. QED BY <1>8, <1>5, <2>1, <2>2 DEF Layers
<1>. QED BY <1>3, <1>6, <1>7

-----------------------------------------------------------------------------
(* Steps of one process.                                                   *)

Only(p) ==
    /\ DOMAIN k' = Proc /\ DOMAIN r' = Proc
    /\ \A q \in Proc \ {p} : k'[q] = k[q] /\ r'[q] = r[q]

LEMMA LocalStep ==
    ASSUME Local, NEW p \in Proc, Only(p), UNCHANGED <<file, ofile, cwd>>, k[p] # <<>>,
           StackOK(k'[p]), RegsOK(k'[p], r'[p]), ~Busy(k'[p]), InTransaction(k'[p]),
           Closed(k'[p], r'[p]) => Closed(k[p], r[p])
    PROVE  Local'
<1>1. DOMAIN k' = Proc /\ DOMAIN r' = Proc BY DEF Only
<1>3. Deep(k'[p], 1).op # "fileclose"
  <2>1. Layers(k'[p], Len(k'[p])) BY Layered
  <2>. QED BY <2>1 DEF Layers, Layer, Fits, Putting, NoOp, Op, InTransaction
<1>2. ASSUME NEW q \in Proc
      PROVE  /\ StackOK(k'[q]) /\ RegsOK(k'[q], r'[q])
             /\ cwd'[q] = None => k'[q] = <<>>
             /\ Deep(k'[q], 1).op = "fileclose" => r'[q] = NoRegs
             /\ cwd'[q] = None \/ Closed(k'[q], r'[q]) => \A fd \in Fd : ofile'[q][fd] = None
             /\ Busy(k'[q]) => FileOK(k[q], r[q].file, ofile[q])'
  <2>1. CASE q = p BY <1>3, <2>1 DEF Local
  <2>2. CASE q # p
    <3>1. k'[q] = k[q] /\ r'[q] = r[q] BY <2>2 DEF Only
    <3>2. FileOK(k[q], r[q].file, ofile[q]) => FileOK(k[q], r[q].file, ofile[q])'
      BY <3>1 DEF FileOK
    <3>. QED BY <3>1, <3>2 DEF Local
  <2>. QED BY <2>1, <2>2
<1>. QED BY <1>1, <1>2 DEF Local

\* The slots in which the references of p have changed account for the counts.
Shifts(p, R, N, a, b, c) ==
    /\ \A i \in Inum : ref[i] = Count(Owned, i)
    /\ Only(p) /\ UNCHANGED <<file, cwd>> /\ ref \in [Inum -> Nat] /\ ref' \in [Inum -> Nat]
    /\ R = OwnOf(k[p], r[p], cwd[p]) /\ N = OwnOf(k'[p], r'[p], cwd[p])
    /\ a \in 1 .. 10 /\ b \in 1 .. 10 /\ c \in 1 .. 10 /\ a # b /\ a # c /\ b # c
    /\ \A n \in 1 .. 10 : n \notin {a, b, c} => N[n] = R[n]
    /\ \A i \in Inum : ref'[i] + Is(R[a], i) + Is(R[b], i) + Is(R[c], i)
                         = ref[i] + Is(N[a], i) + Is(N[b], i) + Is(N[c], i)

LEMMA Shift ==
    ASSUME NEW p \in Proc, NEW R, NEW N, NEW a, NEW b, NEW c, Shifts(p, R, N, a, b, c)
    PROVE  \A i \in Inum : ref'[i] = Count(Owned, i)'
<1>0. /\ \A i \in Inum : ref[i] = Count(Owned, i)
      /\ Only(p) /\ UNCHANGED <<file, cwd>> /\ ref \in [Inum -> Nat] /\ ref' \in [Inum -> Nat]
      /\ R = OwnOf(k[p], r[p], cwd[p]) /\ N = OwnOf(k'[p], r'[p], cwd[p])
      /\ a \in 1 .. 10 /\ b \in 1 .. 10 /\ c \in 1 .. 10 /\ a # b /\ a # c /\ b # c
      /\ \A n \in 1 .. 10 : n \notin {a, b, c} => N[n] = R[n]
      /\ \A i \in Inum : ref'[i] + Is(R[a], i) + Is(R[b], i) + Is(R[c], i)
                           = ref[i] + Is(N[a], i) + Is(N[b], i) + Is(N[c], i)
  BY DEF Shifts
<1> DEFINE D == (Proc \X (1 .. 10)) \cup ({0} \X File)
<1>1. IsFiniteSet(D)
  <2>1. IsFiniteSet(1 .. 10)
    <3>1. \A a1, b1 \in Int : IsFiniteSet(a1 .. b1) BY FS_Interval
    <3>. QED BY <3>1, 1 \in Int, 10 \in Int, Zenon
  <2>2. IsFiniteSet({0}) BY FS_Singleton
  <2>3. IsFiniteSet(Proc) /\ IsFiniteSet(File) BY Constants
  <2>4. IsFiniteSet(Proc \X (1 .. 10)) BY <2>1, <2>3, FS_Product
  <2>5. IsFiniteSet({0} \X File) BY <2>2, <2>3, FS_Product
  <2>. QED BY <2>4, <2>5, FS_Union
<1>2. DOMAIN Owned = D /\ DOMAIN Owned' = D BY DEF Owned
<1>3. ASSUME NEW x \in D, x \notin {<<p, a>>, <<p, b>>, <<p, c>>}
      PROVE  Owned[x] = Owned'[x]
  <2>1. CASE x[1] = 0 BY <1>0, <2>1 DEF Owned
  <2>2. CASE x[1] # 0
    <3>1. x[1] \in Proc /\ x[2] \in 1 .. 10 /\ x = <<x[1], x[2]>> BY <2>2
    <3>2. Owned[x] = OwnOf(k[x[1]], r[x[1]], cwd[x[1]])[x[2]] BY <2>2 DEF Owned
    <3>3. Owned'[x] = OwnOf(k'[x[1]], r'[x[1]], cwd[x[1]])[x[2]] BY <1>0, <2>2 DEF Owned
    <3>4. CASE x[1] = p
      <4>1. x[2] \notin {a, b, c} BY <3>1, <3>4, <1>3
      <4>. QED BY <1>0, <3>1, <3>2, <3>3, <3>4, <4>1
    <3>5. CASE x[1] # p BY <1>0, <3>1, <3>2, <3>3, <3>5 DEF Only
    <3>. QED BY <3>4, <3>5
  <2>. QED BY <2>1, <2>2
<1>4. ASSUME NEW n \in 1 .. 10 
      PROVE  <<p, n>> \in D /\ Owned[<<p, n>>] = R[n] /\ Owned'[<<p, n>>] = N[n]
  <2>1. p # 0 BY Constants
  <2>. QED BY <1>0, <2>1 DEF Owned
<1>5. ASSUME NEW i \in Inum PROVE ref'[i] = Count(Owned, i)'
  <2>. DEFINE C0 == Cardinality({x \in D : Owned[x] = i})
              C1 == Cardinality({x \in D : Owned'[x] = i})
  <2>1. /\ <<p, a>> \in D /\ <<p, b>> \in D /\ <<p, c>> \in D
        /\ <<p, a>> # <<p, b>> /\ <<p, a>> # <<p, c>> /\ <<p, b>> # <<p, c>>
    BY <1>0, <1>4
  <2>2. /\ C0 \in Nat /\ C1 \in Nat
        /\ C1 + Is(Owned[<<p, a>>], i) + Is(Owned[<<p, b>>], i) + Is(Owned[<<p, c>>], i)
           = C0 + Is(Owned'[<<p, a>>], i) + Is(Owned'[<<p, b>>], i) + Is(Owned'[<<p, c>>], i)
    <3>1. Differ(D, Owned, Owned', <<p, a>>, <<p, b>>, <<p, c>>)
      BY <1>1, <1>3, <2>1 DEF Differ
    <3>. HIDE DEF D
    <3>2. /\ CountIn(D, Owned, i) \in Nat /\ CountIn(D, Owned', i) \in Nat
          /\ CountIn(D, Owned', i)
               + Is(Owned[<<p, a>>], i) + Is(Owned[<<p, b>>], i) + Is(Owned[<<p, c>>], i)
             = CountIn(D, Owned, i)
               + Is(Owned'[<<p, a>>], i) + Is(Owned'[<<p, b>>], i) + Is(Owned'[<<p, c>>], i)
      BY <3>1, Exchanged
    <3>. QED BY <3>2 DEF CountIn
  <2>3. C1 + Is(R[a], i) + Is(R[b], i) + Is(R[c], i) = C0 + Is(N[a], i) + Is(N[b], i) + Is(N[c], i)
    BY <1>0, <2>2, <1>4
  <2>4. ref[i] = C0 BY <1>0, <1>2 DEF Count
  <2>5. Count(Owned, i)' = C1 BY <1>2 DEF Count
  <2>6. ref'[i] \in Nat /\ ref[i] \in Nat BY <1>0
  <2>7. \A u : Is(u, i) \in Nat BY DEF Is
  <2>. HIDE DEF C0, C1
  <2>8. /\ Is(R[a], i) \in Nat /\ Is(R[b], i) \in Nat /\ Is(R[c], i) \in Nat
        /\ Is(N[a], i) \in Nat /\ Is(N[b], i) \in Nat /\ Is(N[c], i) \in Nat
    BY <2>7
  <2>9. ref'[i] + Is(R[a], i) + Is(R[b], i) + Is(R[c], i)
                           = ref[i] + Is(N[a], i) + Is(N[b], i) + Is(N[c], i)
    BY <1>0
  <2>. QED BY <2>2, <2>3, <2>4, <2>5, <2>6, <2>8, <2>9
<1>. QED BY <1>5

LEMMA Slots ==
    ASSUME NEW s, NEW g, NEW c
    PROVE  /\ \A n \in 1 .. 6 : OwnOf(s, g, c)[n] = OpOwn(s, n)
           /\ OwnOf(s, g, c)[7] = IpOwn(s, g) /\ OwnOf(s, g, c)[8] = OldOwn(s, g)
           /\ OwnOf(s, g, c)[9] = DpOwn(s, g) /\ OwnOf(s, g, c)[10] = CwdOwn(s, c)
BY DEF OwnOf

-----------------------------------------------------------------------------
(* A step within a transaction that leaves the open files, descriptors and *)
(* working directories alone.                                              *)

Inside(p) ==
    /\ Only(p) /\ UNCHANGED <<outstanding, file, ofile, cwd>>
    /\ k[p] # <<>> /\ StackOK(k'[p]) /\ RegsOK(k'[p], r'[p])
    /\ InTransaction(k[p]) /\ InTransaction(k'[p]) /\ ~Busy(k'[p])
    /\ Closed(k'[p], r'[p]) => Closed(k[p], r[p])

\* The references that are taken or dropped are accounted for.
Referring == ref' \in [Inum -> Nat] /\ \A i \in Inum : ref'[i] = Count(Owned, i)'

\* The locks that p takes or releases are those its stack says.
Locked(p) ==
    /\ lock' \in [Inum -> Proc \cup {None}]
    /\ \A i \in Inum : lock'[i] = p <=> i \in {Main(k'[p], r'[p]), Dying(k'[p])}
    /\ \A i \in Inum : lock'[i] # lock[i] => lock[i] \in {p, None} /\ lock'[i] \in {p, None}
    /\ Dying(k'[p]) # None => Dying(k'[p]) # Main(k'[p], r'[p])

\* At most entries, and links of allocated inodes, have changed on the disk.
Linking ==
    /\ d' \in Disks /\ d'.used = d.used
    /\ \A i \in Inum : d'.ino[i].type = d.ino[i].type /\ d'.ino[i].addrs = d.ino[i].addrs
    /\ \A i \in Inum : d.ino[i].type = "none" => d'.ino[i] = d.ino[i] /\ d'.ent[i] = d.ent[i]

\* What p gets hold of is in use and not about to be freed.
Using(p) ==
    /\ Known(k[p], r[p], cwd[p])'
    /\ \A q \in Proc \ {p} : Dying(k[q]) # None =>
          /\ Dying(k[q]) # CwdOwn(k'[p], cwd'[p]) /\ Dying(k[q]) # NextCwd(k'[p], r'[p])
          /\ Dying(k[q]) # Fresh(k'[p], r'[p])
    /\ \A q \in Proc \ {p} : Fresh(k'[p], r'[p]) # None => Fresh(k'[p], r'[p]) # Fresh(k[q], r[q])
    /\ Dying(k'[p]) # None => Forgotten(Dying(k[p]))'

LEMMA LocksStep ==
    ASSUME Locks, TypeOK, NEW p \in Proc, Only(p), Locked(p)
    PROVE  Locks'
<1>1. ASSUME NEW q \in Proc
      PROVE  /\ \A i \in Inum : lock'[i] = q <=> i \in {Main(k'[q], r'[q]), Dying(k'[q])}
             /\ Dying(k'[q]) # None => Dying(k'[q]) # Main(k'[q], r'[q])
  <2>1. CASE q = p BY <2>1 DEF Locked
  <2>2. CASE q # p
    <3>1. k'[q] = k[q] /\ r'[q] = r[q] BY <2>2 DEF Only
    <3>2. ASSUME NEW i \in Inum PROVE lock'[i] = q <=> lock[i] = q
      <4>1. None # q BY Constants
      <4>. QED BY <2>2, <4>1 DEF Locked
    <3>. QED BY <3>1, <3>2 DEF Locks
  <2>. QED BY <2>1, <2>2
<1>. QED BY <1>1 DEF Locks

LEMMA OpsTyped ==
    ASSUME NEW s, StackOK(s), NEW n \in DOMAIN s
    PROVE  s[n].op \in Operations
<1>0. s \in Seq(OpType) BY DEF StackOK
<1>1. n \in 1 .. Len(s) /\ s[n] \in OpType BY <1>0
<1>. QED BY <1>1 DEF OpType

\* Transactions in progress: one of p before the step and after it.
LEMMA SameTransactions ==
    ASSUME NEW p \in Proc, Only(p), InTransaction(k[p]) <=> InTransaction(k'[p])
    PROVE  {q \in Proc : InTransaction(k'[q])} = {q \in Proc : InTransaction(k[q])}
<1>1. \A q \in Proc : InTransaction(k'[q]) <=> InTransaction(k[q])
  BY DEF Only
<1>. QED BY <1>1

LEMMA SameDescriptors ==
    ASSUME NEW p \in Proc, Only(p), UNCHANGED ofile, Closing(k'[p]) = Closing(k[p])
    PROVE  Descriptors' = Descriptors
<1>1. \A q \in Proc : Closing(k'[q]) = Closing(k[q])
  BY DEF Only
<1>2. \A x \in Proc \X (0 .. NOFILE) :
         (IF x[2] < NOFILE THEN ofile'[x[1]][x[2]] ELSE Closing(k'[x[1]]))
         = (IF x[2] < NOFILE THEN ofile[x[1]][x[2]] ELSE Closing(k[x[1]]))
  BY <1>1
<1>. QED BY <1>2 DEF Descriptors

LEMMA CountsStep ==
    ASSUME Counts, NEW p \in Proc, Inside(p), Referring
    PROVE  Counts'
<1>1. Closing(k[p]) = None /\ Closing(k'[p]) = None
  BY DEF Inside, InTransaction, Closing
<1>2. Descriptors' = Descriptors
  BY <1>1, SameDescriptors DEF Inside
<1>3. {q \in Proc : InTransaction(k'[q])} = {q \in Proc : InTransaction(k[q])}
  BY SameTransactions DEF Inside
<1>4. \A f \in File : Count(Descriptors, f)' = Count(Descriptors, f)
  BY <1>2 DEF Count
<1>. QED BY <1>3, <1>4 DEF Counts, Referring, Inside

\* The same but for slot a, or for two slots.
But(R, N, a)     == \A n \in 1 .. 10 : n # a => N[n] = R[n]
But2(R, N, a, b) == \A n \in 1 .. 10 : n \notin {a, b} => N[n] = R[n]
But3(R, N, a, b, c) == \A n \in 1 .. 10 : n \notin {a, b, c} => N[n] = R[n]

Rows(p, R, N) ==
    R = OwnOf(k[p], r[p], cwd[p]) /\ N = OwnOf(k'[p], r'[p], cwd[p])

Steady(p) == Only(p) /\ UNCHANGED <<file, cwd>> /\ ref' \in [Inum -> Nat]

Moves3(R, N, a, b, c) ==
    /\ a \in 1 .. 10 /\ b \in 1 .. 10 /\ c \in 1 .. 10 /\ a # b /\ a # c /\ b # c
    /\ But3(R, N, a, b, c)
    /\ \A i \in Inum : ref'[i] + Is(R[a], i) + Is(R[b], i) + Is(R[c], i)
                         = ref[i] + Is(N[a], i) + Is(N[b], i) + Is(N[c], i)
Moves2(R, N, a, b) ==
    /\ a \in 1 .. 10 /\ b \in 1 .. 10 /\ a # b /\ But2(R, N, a, b)
    /\ \A i \in Inum : ref'[i] + Is(R[a], i) + Is(R[b], i) = ref[i] + Is(N[a], i) + Is(N[b], i)
Moves1(R, N, a) ==
    /\ a \in 1 .. 10 /\ But(R, N, a)
    /\ \A i \in Inum : ref'[i] + Is(R[a], i) = ref[i] + Is(N[a], i)

LEMMA Shift3 ==
    ASSUME TypeOK, Counts, NEW p \in Proc, Steady(p), NEW R, NEW N, Rows(p, R, N),
           NEW a, NEW b, NEW c, Moves3(R, N, a, b, c)
    PROVE  Referring
<1>1. Shifts(p, R, N, a, b, c)
  BY DEF Shifts, Steady, TypeOK, Counts, Rows, Moves3, But3
<1>2. \A i \in Inum : ref'[i] = Count(Owned, i)' BY <1>1, Shift
<1>. QED BY <1>2 DEF Referring, Steady

LEMMA Shift2 ==
    ASSUME TypeOK, Counts, NEW p \in Proc, Steady(p), NEW R, NEW N, Rows(p, R, N),
           NEW a, NEW b, Moves2(R, N, a, b)
    PROVE  Referring
<1>1. PICK c \in 1 .. 10 : c # a /\ c # b
  <2>1. 1 \in 1 .. 10 /\ 2 \in 1 .. 10 /\ 3 \in 1 .. 10 OBVIOUS
  <2>2. CASE 1 \notin {a, b} BY <2>1, <2>2
  <2>3. CASE 2 \notin {a, b} BY <2>1, <2>3
  <2>4. CASE 1 \in {a, b} /\ 2 \in {a, b} BY <2>1, <2>4
  <2>. QED BY <2>2, <2>3, <2>4
<1>2. N[c] = R[c] BY <1>1 DEF Moves2, But2
<1>3. \A i \in Inum : ref'[i] + Is(R[a], i) + Is(R[b], i) + Is(R[c], i)
                      = ref[i] + Is(N[a], i) + Is(N[b], i) + Is(N[c], i)
  BY <1>2 DEF Is, Moves2
<1>4. But3(R, N, a, b, c) BY DEF Moves2, But2, But3
<1>5. Moves3(R, N, a, b, c) BY <1>1, <1>3, <1>4 DEF Moves2, Moves3
<1>. QED BY <1>5, Shift3

LEMMA Shift1 ==
    ASSUME TypeOK, Counts, NEW p \in Proc, Steady(p), NEW R, NEW N, Rows(p, R, N),
           NEW a, Moves1(R, N, a)
    PROVE  Referring
<1>1. PICK b \in 1 .. 10 : b # a
  <2>1. 1 \in 1 .. 10 /\ 2 \in 1 .. 10 OBVIOUS
  <2>. QED BY <2>1
<1>2. N[b] = R[b] BY <1>1 DEF Moves1, But
<1>3. \A i \in Inum : ref'[i] + Is(R[a], i) + Is(R[b], i) = ref[i] + Is(N[a], i) + Is(N[b], i)
  BY <1>2 DEF Is, Moves1
<1>4. But2(R, N, a, b) BY DEF Moves1, But, But2
<1>5. Moves2(R, N, a, b) BY <1>1, <1>3, <1>4 DEF Moves1, Moves2
<1>. QED BY <1>5, Shift2

LEMMA Shift0 ==
    ASSUME TypeOK, Counts, NEW p \in Proc, Steady(p), NEW R, NEW N, Rows(p, R, N),
           UNCHANGED ref, But(R, N, 0)
    PROVE  Referring
<1>1. N[1] = R[1] /\ 1 \in 1 .. 10 BY DEF But
<1>2. \A i \in Inum : ref'[i] + Is(R[1], i) = ref[i] + Is(N[1], i)
  BY <1>1
<1>3. Moves1(R, N, 1) BY <1>1, <1>2 DEF Moves1, But
<1>. QED BY <1>3, Shift1

LEMMA OwnersFinite == IsFiniteSet(DOMAIN Owned)
<1>1. IsFiniteSet(1 .. 10)
  <2>1. \A a1, b1 \in Int : IsFiniteSet(a1 .. b1) BY FS_Interval
  <2>. QED BY <2>1, 1 \in Int, 10 \in Int, Zenon
<1>2. IsFiniteSet({0}) BY FS_Singleton
<1>3. IsFiniteSet(Proc) /\ IsFiniteSet(File) BY Constants
<1>4. IsFiniteSet(Proc \X (1 .. 10)) BY <1>1, <1>3, FS_Product
<1>5. IsFiniteSet({0} \X File) BY <1>2, <1>3, FS_Product
<1>6. IsFiniteSet((Proc \X (1 .. 10)) \cup ({0} \X File)) BY <1>4, <1>5, FS_Union
<1>. QED BY <1>6 DEF Owned

LEMMA SomeOwner ==
    ASSUME NEW i, NEW x \in DOMAIN Owned, Owned[x] = i
    PROVE  Count(Owned, i) \in Nat /\ Count(Owned, i) > 0
<1>1. IsFiniteSet({y \in DOMAIN Owned : Owned[y] = i}) BY OwnersFinite, FS_Subset
<1>2. {y \in DOMAIN Owned : Owned[y] = i} # {} OBVIOUS
<1>3. Cardinality({y \in DOMAIN Owned : Owned[y] = i}) \in Nat
      /\ Cardinality({y \in DOMAIN Owned : Owned[y] = i}) # 0
  BY <1>1, <1>2, FS_CardinalityType, FS_EmptySet
<1>. QED BY <1>3 DEF Count

\* Who owns the only reference.
LEMMA OnlyOwner ==
    ASSUME NEW i, Count(Owned, i) = 1, NEW x \in DOMAIN Owned, Owned[x] = i,
           NEW y \in DOMAIN Owned, Owned[y] = i
    PROVE  x = y
<1>1. PICK D, F : D = DOMAIN Owned /\ F = Owned OBVIOUS
<1>2. IsFiniteSet(D) BY <1>1, OwnersFinite
<1>3. Cardinality({z \in D : F[z] = i}) = 1 BY <1>1 DEF Count
<1>4. IsFiniteSet({z \in D : F[z] = i}) BY <1>2, FS_Subset
<1>5. PICK w : {z \in D : F[z] = i} = {w} BY <1>3, <1>4, FS_Singleton
<1>. QED BY <1>1, <1>5

LEMMA Places ==
    /\ \A p \in Proc : \A n \in 1 .. 10 : 
          <<p, n>> \in DOMAIN Owned /\ Owned[<<p, n>>] = OwnOf(k[p], r[p], cwd[p])[n]
    /\ \A f \in File : <<0, f>> \in DOMAIN Owned /\ Owned[<<0, f>>] = file[f].ip
<1>1. 0 \notin Proc BY Constants
<1>. QED BY <1>1 DEF Owned

\* Other processes know the same things.
LEMMA KnownStep ==
    ASSUME NEW p \in Proc, Only(p), UNCHANGED cwd, NEW q \in Proc, q # p, Known(k[q], r[q], cwd[q]),
           \A i \in Inum \cup {None} : 
              i \in {CwdOwn(k[q], cwd[q]), NextCwd(k[q], r[q]), Main(k[q], r[q]), Fresh(k[q], r[q]), r[q].ip}
              /\ i # None => d'.ino[i].type = d.ino[i].type,
           Fresh(k[q], r[q]) # None => d'.ino[Fresh(k[q], r[q])].addrs = d.ino[Fresh(k[q], r[q])].addrs,
           r[q] \in Regs, cwd[q] \in Inum \cup {None}, StackOK(k[q])
    PROVE  Known(k[q], r[q], cwd[q])'
<1>1. k'[q] = k[q] /\ r'[q] = r[q] /\ cwd'[q] = cwd[q] BY DEF Only
<1>2. /\ CwdOwn(k[q], cwd[q]) \in Inum \cup {None} /\ NextCwd(k[q], r[q]) \in Inum \cup {None}
      /\ Fresh(k[q], r[q]) \in Inum \cup {None} /\ r[q].ip \in Inum \cup {None} /\ r[q].dp \in Inum \cup {None}
  BY DEF Regs, CwdOwn, NextCwd, Fresh
<1>3. Main(k[q], r[q]) \in Inum \cup {None}
  <2>1. Layers(k[q], Len(k[q])) BY Layered
  <2>. QED BY <2>1, <1>2 DEF Main, Layers, Layer, OpOK, Owning, Putting, NoOp, Op
<1>. QED BY <1>1, <1>2, <1>3 DEF Known, Type, IsDir

\* What a step of p does to the disk, whatever inode it allocates or frees.
Changing(p) ==
    /\ d' \in Disks
    /\ \A i \in Inum : valid'[i] => d'.ino[i].type # "none"
    /\ \A i \in Inum : d'.ino[i].type = "none" => d'.ino[i] = FreeInode /\ d'.ent[i] = NoEntries
    /\ \A i \in Inum : d.ino[i].type # "none" /\ i # Dying(k[p]) =>
          d'.ino[i].type = d.ino[i].type
    /\ \A q \in Proc \ {p} : Fresh(k[q], r[q]) # None =>
          d'.ino[Fresh(k[q], r[q])].addrs = d.ino[Fresh(k[q], r[q])].addrs

LEMMA RolesTyped ==
    ASSUME NEW s, NEW g, NEW c, StackOK(s), g \in Regs, c \in Inum \cup {None}
    PROVE  /\ CwdOwn(s, c) \in Inum \cup {None} /\ NextCwd(s, g) \in Inum \cup {None}
           /\ Fresh(s, g) \in Inum \cup {None} /\ Main(s, g) \in Inum \cup {None}
           /\ Dying(s) \in Inum \cup {None}
<1>1. /\ CwdOwn(s, c) \in Inum \cup {None} /\ NextCwd(s, g) \in Inum \cup {None}
      /\ Fresh(s, g) \in Inum \cup {None} /\ g.ip \in Inum \cup {None} /\ g.dp \in Inum \cup {None}
  BY DEF Regs, CwdOwn, NextCwd, Fresh
<1>2. Main(s, g) \in Inum \cup {None}
  <2>1. Layers(s, Len(s)) BY Layered
  <2>. QED BY <2>1, <1>1 DEF Main, Layers, Layer, OpOK, Owning, Putting, NoOp, Op
<1>3. Dying(s) \in Inum \cup {None}
  <2>1. s # <<>> => OpOK(Head(s)) BY Rest
  <2>. QED BY <2>1 DEF Dying, OpOK, Owning, Putting
<1>. QED BY <1>1, <1>2, <1>3

\* Two processes have nothing locked in common.
LEMMA Apart ==
    ASSUME Locks, Local, NEW p \in Proc, NEW q \in Proc, p # q,
           NEW i \in Inum, i \in {Main(k[p], r[p]), Dying(k[p])}
    PROVE  i \notin {Main(k[q], r[q]), Dying(k[q])}
<1>1. lock[i] = p BY DEF Locks
<1>2. lock[i] = q <=> i \in {Main(k[q], r[q]), Dying(k[q])} BY DEF Locks
<1>. QED BY <1>1, <1>2

LEMMA InUseStep ==
    ASSUME TypeOK, Local, Locks, InUse, NEW p \in Proc, Only(p), UNCHANGED <<file, cwd>>,
           Changing(p), Using(p)
    PROVE  InUse'
<1>1. ASSUME NEW i \in Inum, Type(i) # "none", i # Dying(k[p]) PROVE Type(i)' = Type(i)
  BY <1>1 DEF Changing, Type
<1>2. ASSUME NEW q \in Proc \ {p}
      PROVE  /\ k'[q] = k[q] /\ r'[q] = r[q] /\ cwd'[q] = cwd[q]
             /\ StackOK(k[q]) /\ r[q] \in Regs /\ cwd[q] \in Inum \cup {None}
             /\ Known(k[q], r[q], cwd[q])
  BY DEF Only, Local, RegsOK, TypeOK, InUse
<1>3. ASSUME NEW q \in Proc \ {p}
      PROVE  /\ CwdOwn(k[q], cwd[q]) \in Inum \cup {None} /\ NextCwd(k[q], r[q]) \in Inum \cup {None}
             /\ Fresh(k[q], r[q]) \in Inum \cup {None} /\ Main(k[q], r[q]) \in Inum \cup {None}
             /\ Dying(k[q]) \in Inum \cup {None}
  BY <1>2, RolesTyped
<1>4. Dying(k[p]) # None => Forgotten(Dying(k[p]))
  BY DEF InUse
<1>5. Dying(k[p]) \in Inum \cup {None}
  BY RolesTyped DEF Local, RegsOK, TypeOK
<1>6. ASSUME NEW q \in Proc \ {p} PROVE Known(k[q], r[q], cwd[q])'
  <2>1. \A i \in Inum : 
           i \in {CwdOwn(k[q], cwd[q]), NextCwd(k[q], r[q]), Fresh(k[q], r[q])} => i # Dying(k[p])
    BY <1>4, Constants DEF Forgotten
  <2>2. \A i \in Inum : i = Main(k[q], r[q]) => i # Dying(k[p])
    BY Apart
  <2>3. /\ CwdOwn(k[q], cwd[q]) # None => Type(CwdOwn(k[q], cwd[q])) = "dir"
        /\ NextCwd(k[q], r[q]) # None => Type(NextCwd(k[q], r[q])) = "dir"
        /\ Main(k[q], r[q]) # None => Type(Main(k[q], r[q])) # "none"
        /\ Fresh(k[q], r[q]) # None => 
              /\ Type(Fresh(k[q], r[q])) = r[q].type
              /\ IsDir(Fresh(k[q], r[q])) => d.ino[Fresh(k[q], r[q])].addrs = <<>>
        /\ Deep(k[q], 2).op = "open_file" /\ r[q].ip # None /\ Main(k[q], r[q]) = r[q].ip /\ r[q].writable =>
              Type(r[q].ip) # "dir"
    BY <1>2 DEF Known
  <2>4. Fresh(k[q], r[q]) # None => Type(Fresh(k[q], r[q])) # "none"
    <3>1. Fresh(k[q], r[q]) # None => Deep(k[q], 3).op = "create_new" BY DEF Fresh
    <3>2. RegsOK(k[q], r[q]) BY DEF Local
    <3>. QED BY <3>1, <3>2, <2>3 DEF RegsOK
  <2>5. /\ CwdOwn(k[q], cwd[q]) # None => d'.ino[CwdOwn(k[q], cwd[q])].type = "dir"
        /\ NextCwd(k[q], r[q]) # None => d'.ino[NextCwd(k[q], r[q])].type = "dir"
        /\ Main(k[q], r[q]) # None => d'.ino[Main(k[q], r[q])].type = d.ino[Main(k[q], r[q])].type
        /\ Fresh(k[q], r[q]) # None =>
              /\ d'.ino[Fresh(k[q], r[q])].type = d.ino[Fresh(k[q], r[q])].type
              /\ d'.ino[Fresh(k[q], r[q])].addrs = d.ino[Fresh(k[q], r[q])].addrs
    BY <1>1, <1>3, <2>1, <2>2, <2>3, <2>4 DEF Type, Changing
  <2>. QED BY <1>2, <2>3, <2>5 DEF Known, Type, IsDir
<1>7. \A i \in Inum : valid'[i] => Type(i)' # "none"
  BY DEF Changing, Type
<1>8. \A i \in Inum : Type(i)' = "none" => d'.ino[i] = FreeInode /\ d'.ent[i] = NoEntries
  BY DEF Changing, Type
<1>9. \A f \in File : file'[f].ip # None =>
          Type(file[f].ip)' # "none" /\ (file'[f].writable => Type(file[f].ip)' # "dir")
  <2>. SUFFICES ASSUME NEW f \in File, file[f].ip # None
                PROVE  Type(file[f].ip)' # "none" /\ (file[f].writable => Type(file[f].ip)' # "dir")
    OBVIOUS
  <2>1. file[f].ip \in Inum BY DEF TypeOK
  <2>2. file[f].ip # Dying(k[p]) BY <1>4, <2>1, Constants DEF Forgotten
  <2>3. Type(file[f].ip) # "none" /\ (file[f].writable => Type(file[f].ip) # "dir") BY DEF InUse
  <2>4. d'.ino[file[f].ip].type = d.ino[file[f].ip].type BY <2>1, <2>2, <2>3, <1>1 DEF Type
  <2>. QED BY <2>3, <2>4 DEF Type
<1>10. \A q \in Proc : Known(k[q], r[q], cwd[q])'
  BY <1>6 DEF Using
<1>11. ASSUME NEW q1 \in Proc, NEW q2 \in Proc, q1 # q2, Fresh(k'[q1], r'[q1]) # None
       PROVE  Fresh(k'[q1], r'[q1]) # Fresh(k'[q2], r'[q2])
  <2>1. CASE q1 = p BY <2>1, <1>2, <1>11 DEF Using
  <2>2. CASE q2 = p BY <2>2, <1>2, <1>11 DEF Using
  <2>3. CASE q1 # p /\ q2 # p BY <2>3, <1>2, <1>11 DEF InUse
  <2>. QED BY <2>1, <2>2, <2>3
<1>12. ASSUME NEW q \in Proc, Dying(k'[q]) # None PROVE Forgotten(Dying(k[q]))'
  <2>1. CASE q = p BY <2>1, <1>12 DEF Using
  <2>2. CASE q # p
    <3>1. Dying(k'[q]) = Dying(k[q]) /\ Dying(k[q]) \in Inum /\ Forgotten(Dying(k[q]))
      BY <2>2, <1>2, <1>3, <1>12 DEF InUse
    <3>2. Dying(k[q]) # Dying(k[p]) BY <3>1, <2>2, Apart
    <3>3. d'.ino[Dying(k[q])].type # "none"
      BY <3>1, <3>2, <1>1 DEF Forgotten, Type
    <3>4. \A q2 \in Proc : Dying(k[q]) \notin {CwdOwn(k'[q2], cwd'[q2]), NextCwd(k'[q2], r'[q2]), Fresh(k'[q2], r'[q2])}
      <4>. SUFFICES ASSUME NEW q2 \in Proc 
           PROVE Dying(k[q]) \notin {CwdOwn(k'[q2], cwd'[q2]), NextCwd(k'[q2], r'[q2]), Fresh(k'[q2], r'[q2])}
        OBVIOUS
      <4>1. CASE q2 = p BY <4>1, <2>2, <3>1, Constants DEF Using
      <4>2. CASE q2 # p BY <4>2, <1>2, <3>1 DEF Forgotten
      <4>. QED BY <4>1, <4>2
    <3>. QED BY <3>1, <3>3, <3>4 DEF Forgotten, Type
  <2>. QED BY <2>1, <2>2
<1>. QED BY <1>7, <1>8, <1>9, <1>10, <1>11, <1>12 DEF InUse

LEMMA InsideStep ==
    ASSUME FsInv, NEW p \in Proc, Inside(p), Referring, Locked(p), Changing(p), Using(p),
           valid' \in [Inum -> BOOLEAN], BlocksOwned'
    PROVE  FsInv'
<1>1. TypeOK /\ Local /\ Counts /\ Locks /\ InUse BY DEF FsInv
<1>2. Only(p) /\ UNCHANGED <<outstanding, file, ofile, cwd>> BY DEF Inside
<1>3. Local' BY <1>1, LocalStep DEF Inside
<1>4. Counts' BY <1>1, CountsStep
<1>5. Locks' BY <1>1, <1>2, LocksStep
<1>6. InUse' BY <1>1, <1>2, InUseStep
<1>7. TypeOK'
  <2>1. \A q \in Proc : \A n \in DOMAIN k'[q] : k'[q][n].op \in Operations
    BY <1>3, OpsTyped DEF Local
  <2>. QED BY <1>1, <1>2, <2>1 DEF TypeOK, Referring, Locked, Changing
<1>. QED BY <1>3, <1>4, <1>5, <1>6, <1>7 DEF FsInv

LEMMA LinkingBlocks == 
    ASSUME TypeOK, BlocksOwned, Linking 
    PROVE  BlocksOwned'
<1>1. \A i \in Inum : d'.ino[i].addrs = d.ino[i].addrs /\ d'.used = d.used
  BY DEF Linking
<1>2. UNION {ToSet(d'.ino[i].addrs) : i \in Inum} = UNION {ToSet(d.ino[i].addrs) : i \in Inum}
  BY <1>1
<1>3. d'.used = UNION {ToSet(d'.ino[i].addrs) : i \in Inum}
  BY <1>1, <1>2 DEF BlocksOwned, Linking
<1>4. \A i, j \in Inum : i # j =>
          ToSet(d'.ino[i].addrs) \cap ToSet(d'.ino[j].addrs) = {}
  BY <1>1 DEF BlocksOwned
<1>5. \A i \in Inum : IsInjective(d'.ino[i].addrs)
  BY <1>1 DEF BlocksOwned
<1>. QED BY <1>3, <1>4, <1>5 DEF BlocksOwned

LEMMA LinkingChanges ==
    ASSUME TypeOK, InUse, Local, NEW p \in Proc, Linking, \A i \in Inum : valid'[i] => Type(i) # "none"
    PROVE  Changing(p)
<1>1. \A q \in Proc : Fresh(k[q], r[q]) \in Inum \cup {None}
  BY RolesTyped DEF TypeOK, Local, RegsOK
<1>. QED BY <1>1 DEF Linking, Changing, InUse, Type

\* What most steps change on the disk is nothing but links.
LEMMA LinkingStep ==
    ASSUME FsInv, NEW p \in Proc, Inside(p), Referring, Locked(p), Linking, Using(p),
           valid' \in [Inum -> BOOLEAN], \A i \in Inum : valid'[i] => Type(i) # "none"
    PROVE  FsInv'
BY InsideStep, LinkingBlocks, LinkingChanges DEF FsInv

LEMMA NothingLinked == TypeOK /\ UNCHANGED d => Linking
BY DEF Linking, TypeOK

-----------------------------------------------------------------------------
(* What Continue() and Fail() make of a stack.                             *)

Popped(s, t, L) ==
    /\ StackOK(s) /\ StackOK(t) /\ Layers(s, L) /\ Layers(t, L - 1) /\ s # <<>>
    /\ \A m \in Nat : Deep(t, m) = IF m = L THEN NoOp ELSE Deep(s, m)
Swapped(s, t, L, x) ==
    /\ StackOK(s) /\ StackOK(t) /\ Layers(s, L) /\ Layers(t, L) /\ s # <<>>
    /\ \A m \in Nat : Deep(t, m) = IF m = L THEN x ELSE Deep(s, m)
Pushed(s, t, L, x, y) ==
    /\ StackOK(s) /\ StackOK(t) /\ Layers(s, L) /\ Layers(t, L + 1) /\ s # <<>>
    /\ \A m \in Nat : Deep(t, m) = IF m = L + 1 THEN x ELSE IF m = L THEN y ELSE Deep(s, m)

End == Op("end_op", None)
GivenUp0(t) ==
    /\ StackOK(t) /\ Layers(t, 1)
    /\ \A m \in Nat : Deep(t, m) = IF m = 1 THEN End ELSE NoOp
GivenUp1(t, x) ==
    /\ StackOK(t) /\ Layers(t, 2)
    /\ \A m \in Nat : Deep(t, m) = IF m = 2 THEN x ELSE IF m = 1 THEN End ELSE NoOp
GivenUp2(t, x, y) ==
    /\ StackOK(t) /\ Layers(t, 3)
    /\ \A m \in Nat : Deep(t, m) = IF m = 3 THEN x ELSE IF m = 2 THEN y
                                    ELSE IF m = 1 THEN End ELSE NoOp
GivenUp3(t, x, y, z) ==
    /\ StackOK(t) /\ Layers(t, 4)
    /\ \A m \in Nat : Deep(t, m) = IF m = 4 THEN x ELSE IF m = 3 THEN y
                                    ELSE IF m = 2 THEN z
                                    ELSE IF m = 1 THEN End ELSE NoOp

LEMMA Top0 ==
    ASSUME NEW s, StackOK(s), s # <<>>, NEW L, L = Len(s)
    PROVE  Popped(s, <<>> \o Tail(s), L)
<1>1. PICK t : t = Tail(s) OBVIOUS
<1>2. /\ StackOK(t) /\ Len(t) = Len(s) - 1 /\ <<>> \o Tail(s) = t
      /\ \A m \in Nat : Deep(t, m) = IF m < Len(s) THEN Deep(s, m) ELSE NoOp
  BY <1>1, Rest
<1>3. Layers(s, Len(s)) /\ \A m \in Nat : m > Len(s) => Deep(s, m) = NoOp
  BY Layered
<1>4. L = Len(s) /\ L \in Nat BY <1>3 DEF Layers
<1>5. \A m \in Nat : Deep(t, m) = IF m = L THEN NoOp ELSE Deep(s, m)
  BY <1>2, <1>3, <1>4
<1>6. Layers(t, L - 1) BY <1>2, <1>4, Layered
<1>7. Popped(s, t, L) BY <1>2, <1>3, <1>4, <1>5, <1>6 DEF Popped
<1>. QED BY <1>2, <1>7, Zenon

LEMMA Top1 ==
    ASSUME NEW s, StackOK(s), s # <<>>, NEW L, L = Len(s), NEW x, OpOK(x), Fits(x.op, L, Deep(s, L - 1).op)
    PROVE  Swapped(s, <<x>> \o Tail(s), L, x)
<1>1. L = Len(s) OBVIOUS
<1>2. PICK b : b = Tail(s) OBVIOUS
<1>3. /\ L \in 1 .. 6 /\ StackOK(b) /\ Len(b) = L - 1
      /\ \A m \in Nat : Deep(b, m) = IF m < L THEN Deep(s, m) ELSE NoOp
  BY <1>1, <1>2, Rest
<1>4. Layers(s, L) /\ \A m \in Nat : m > L => Deep(s, m) = NoOp
  BY <1>1, Layered
<1>5. L - 1 \in Nat /\ L - 1 < 6 /\ L - 1 + 1 = L /\ L - 1 < L BY <1>3
<1>6. Len(b) < 6 /\ Fits(x.op, Len(b) + 1, Deep(b, Len(b)).op)
  BY <1>1, <1>3, <1>5
<1>7. PICK t : t = <<x>> \o b OBVIOUS
<1>8. /\ StackOK(t) /\ Len(t) = Len(b) + 1
      /\ \A m \in Nat : Deep(t, m) = IF m = Len(b) + 1 THEN x ELSE Deep(b, m)
  BY <1>3, <1>6, <1>7, Put1
<1>9. Len(t) = L BY <1>8, <1>3, <1>5
<1>10. \A m \in Nat : Deep(t, m) = IF m = L THEN x ELSE Deep(s, m)
  BY <1>3, <1>4, <1>5, <1>8
<1>11. Layers(t, L) BY <1>8, <1>9, Layered
<1>12. Swapped(s, t, L, x) BY <1>1, <1>4, <1>8, <1>10, <1>11 DEF Swapped
<1>. QED BY <1>2, <1>7, <1>12, Zenon

LEMMA Top2 ==
    ASSUME NEW s, StackOK(s), s # <<>>, NEW L, L = Len(s), NEW x, NEW y, OpOK(x), OpOK(y), L < 6,
           Fits(y.op, L, Deep(s, L - 1).op), Fits(x.op, L + 1, y.op)
    PROVE  Pushed(s, <<x, y>> \o Tail(s), L, x, y)
<1>1. L = Len(s) OBVIOUS
<1>2. PICK b : b = Tail(s) OBVIOUS
<1>3. /\ L \in 1 .. 6 /\ StackOK(b) /\ Len(b) = L - 1
      /\ \A m \in Nat : Deep(b, m) = IF m < L THEN Deep(s, m) ELSE NoOp
  BY <1>1, <1>2, Rest
<1>4. Layers(s, L) /\ \A m \in Nat : m > L => Deep(s, m) = NoOp
  BY <1>1, Layered
<1>5. L < 6 /\ L - 1 \in Nat /\ L - 1 < 5 /\ L - 1 + 1 = L /\ L - 1 + 2 = L + 1 /\ L - 1 < L
  BY <1>1, <1>3
<1>6. Len(b) < 5 /\ Fits(y.op, Len(b) + 1, Deep(b, Len(b)).op) /\ Fits(x.op, Len(b) + 2, y.op)
  BY <1>1, <1>3, <1>5
<1>7. PICK t : t = <<x, y>> \o b OBVIOUS
<1>8. /\ StackOK(t) /\ Len(t) = Len(b) + 2
      /\ \A m \in Nat : Deep(t, m) = IF m = Len(b) + 2 THEN x
                                     ELSE IF m = Len(b) + 1 THEN y ELSE Deep(b, m)
  <2>1. /\ StackOK(<<x, y>> \o b) /\ Len(<<x, y>> \o b) = Len(b) + 2
        /\ \A m \in Nat : Deep(<<x, y>> \o b, m) = IF m = Len(b) + 2 THEN x
                                     ELSE IF m = Len(b) + 1 THEN y ELSE Deep(b, m)
    BY <1>3, <1>6, Put2
  <2>. QED BY <2>1, <1>7, Zenon
<1>9. Len(t) = L + 1 BY <1>8, <1>3, <1>5
<1>10. \A m \in Nat : Deep(t, m) = IF m = L + 1 THEN x ELSE IF m = L THEN y ELSE Deep(s, m)
  BY <1>3, <1>4, <1>5, <1>8
<1>11. Layers(t, L + 1) BY <1>8, <1>9, Layered
<1>12. Pushed(s, t, L, x, y) BY <1>1, <1>4, <1>8, <1>10, <1>11 DEF Pushed
<1>. QED BY <1>2, <1>7, <1>12, Zenon

LEMMA Fail0 ==
    GivenUp0(<<>> \o Ops(<<"end_op">>))
<1>1. PICK t : t = Ops(<<"end_op">>) OBVIOUS
<1>2. /\ StackOK(t) /\ Len(t) = 1 /\ <<>> \o Ops(<<"end_op">>) = t
      /\ \A m \in Nat : Deep(t, m) = IF m = 1 THEN Op("end_op", None) ELSE NoOp
  BY <1>1, Failed
<1>3. Layers(t, Len(t)) BY <1>2, Layered
<1>4. Layers(t, 1) BY <1>2, <1>3
<1>5. GivenUp0(t) BY <1>2, <1>4 DEF GivenUp0, End
<1>. QED BY <1>2, <1>5, Zenon

LEMMA Fail1 ==
    ASSUME NEW x, OpOK(x), Fits(x.op, 2, "end_op")
    PROVE  GivenUp1(<<x>> \o Ops(<<"end_op">>), x)
<1>1. PICK b : b = Ops(<<"end_op">>) OBVIOUS
<1>2. /\ StackOK(b) /\ Len(b) = 1
      /\ \A m \in Nat : Deep(b, m) = IF m = 1 THEN Op("end_op", None) ELSE NoOp
  BY <1>1, Failed
<1>3. Deep(b, Len(b)).op = "end_op" /\ Len(b) < 6 /\ Len(b) + 1 = 2
  BY <1>2 DEF Op
<1>4. Fits(x.op, Len(b) + 1, Deep(b, Len(b)).op) BY <1>3
<1>5. PICK t : t = <<x>> \o b OBVIOUS
<1>6. /\ StackOK(t) /\ Len(t) = Len(b) + 1
      /\ \A m \in Nat : Deep(t, m) = IF m = Len(b) + 1 THEN x ELSE Deep(b, m)
  BY <1>2, <1>3, <1>4, <1>5, Put1
<1>7. Layers(t, Len(t)) BY <1>6, Layered
<1>8. Layers(t, 2) BY <1>3, <1>6, <1>7
<1>9. \A m \in Nat : Deep(t, m) = IF m = 2 THEN x ELSE IF m = 1 THEN End ELSE NoOp
  BY <1>2, <1>3, <1>6 DEF End
<1>10. GivenUp1(t, x) BY <1>6, <1>8, <1>9 DEF GivenUp1
<1>. QED BY <1>1, <1>5, <1>10, Zenon

LEMMA Fail2 ==
    ASSUME NEW x, NEW y, OpOK(x), OpOK(y), Fits(y.op, 2, "end_op"), Fits(x.op, 3, y.op)
    PROVE  GivenUp2(<<x, y>> \o Ops(<<"end_op">>), x, y)
<1>1. PICK b : b = Ops(<<"end_op">>) OBVIOUS
<1>2. /\ StackOK(b) /\ Len(b) = 1
      /\ \A m \in Nat : Deep(b, m) = IF m = 1 THEN Op("end_op", None) ELSE NoOp
  BY <1>1, Failed
<1>3. Deep(b, Len(b)).op = "end_op" /\ Len(b) < 5 /\ Len(b) + 1 = 2 /\ Len(b) + 2 = 3
  BY <1>2 DEF Op
<1>4. Fits(y.op, Len(b) + 1, Deep(b, Len(b)).op) /\ Fits(x.op, Len(b) + 2, y.op) BY <1>3
<1>5. PICK t : t = <<x, y>> \o b OBVIOUS
<1>6. /\ StackOK(t) /\ Len(t) = Len(b) + 2
      /\ \A m \in Nat : Deep(t, m) = IF m = Len(b) + 2 THEN x
                                     ELSE IF m = Len(b) + 1 THEN y ELSE Deep(b, m)
  <2>1. /\ StackOK(<<x, y>> \o b) /\ Len(<<x, y>> \o b) = Len(b) + 2
        /\ \A m \in Nat : Deep(<<x, y>> \o b, m) = IF m = Len(b) + 2 THEN x
                                     ELSE IF m = Len(b) + 1 THEN y ELSE Deep(b, m)
    <3>1. StackOK(b) BY <1>2
    <3>2. Len(b) < 5 BY <1>3
    <3>. QED BY <3>1, <3>2, <1>4, Put2
  <2>. QED BY <2>1, <1>5, Zenon
<1>7. Layers(t, Len(t)) BY <1>6, Layered
<1>8. Layers(t, 3) BY <1>3, <1>6, <1>7
<1>9. \A m \in Nat : Deep(b, m) = IF m = 1 THEN Op("end_op", None) ELSE NoOp
  BY <1>2
<1>10. \A m \in Nat : Deep(t, m) = IF m = 3 THEN x ELSE IF m = 2 THEN y ELSE IF m = 1 THEN Op("end_op", None) ELSE NoOp
  BY <1>3, <1>6, <1>9
<1>11. t = <<x, y>> \o Ops(<<"end_op">>) BY <1>1, <1>5, Zenon
<1>12. GivenUp2(t, x, y) BY <1>6, <1>8, <1>10 DEF GivenUp2, End
<1>. QED BY <1>11, <1>12, Zenon

LEMMA Fail3 ==
    ASSUME NEW x, NEW y, NEW z, OpOK(x), OpOK(y), OpOK(z),
           Fits(z.op, 2, "end_op"), Fits(y.op, 3, z.op), Fits(x.op, 4, y.op)
    PROVE  GivenUp3(<<x, y, z>> \o Ops(<<"end_op">>), x, y, z)
<1>1. PICK b : b = Ops(<<"end_op">>) OBVIOUS
<1>2. /\ StackOK(b) /\ Len(b) = 1
      /\ \A m \in Nat : Deep(b, m) = IF m = 1 THEN Op("end_op", None) ELSE NoOp
  BY <1>1, Failed
<1>3. Deep(b, Len(b)).op = "end_op" /\ Len(b) < 4 /\ Len(b) + 1 = 2 /\ Len(b) + 2 = 3 /\ Len(b) + 3 = 4
  BY <1>2 DEF Op
<1>4. /\ Fits(z.op, Len(b) + 1, Deep(b, Len(b)).op) /\ Fits(y.op, Len(b) + 2, z.op)
      /\ Fits(x.op, Len(b) + 3, y.op)
  BY <1>3
<1>5. PICK t : t = <<x, y, z>> \o b OBVIOUS
<1>6. /\ StackOK(t) /\ Len(t) = Len(b) + 3
      /\ \A m \in Nat : Deep(t, m) = IF m = Len(b) + 3 THEN x
                                     ELSE IF m = Len(b) + 2 THEN y
                                     ELSE IF m = Len(b) + 1 THEN z ELSE Deep(b, m)
  <2>1. /\ StackOK(<<x, y, z>> \o b) /\ Len(<<x, y, z>> \o b) = Len(b) + 3
        /\ \A m \in Nat : Deep(<<x, y, z>> \o b, m) = IF m = Len(b) + 3 THEN x
                                     ELSE IF m = Len(b) + 2 THEN y
                                     ELSE IF m = Len(b) + 1 THEN z ELSE Deep(b, m)
    <3>1. StackOK(b) BY <1>2
    <3>2. Len(b) < 4 BY <1>3
    <3>. QED BY <3>1, <3>2, <1>4, Put3
  <2>. QED BY <2>1, <1>5, Zenon
<1>7. Layers(t, Len(t)) BY <1>6, Layered
<1>8. Layers(t, 4) BY <1>3, <1>6, <1>7
<1>9. \A m \in Nat : Deep(b, m) = IF m = 1 THEN Op("end_op", None) ELSE NoOp
  BY <1>2
<1>10. \A m \in Nat : Deep(t, m) = IF m = 4 THEN x ELSE IF m = 3 THEN y ELSE IF m = 2 THEN z ELSE IF m = 1 THEN Op("end_op", None) ELSE NoOp
  BY <1>3, <1>6, <1>9
<1>11. t = <<x, y, z>> \o Ops(<<"end_op">>) BY <1>1, <1>5, Zenon
<1>12. GivenUp3(t, x, y, z) BY <1>6, <1>8, <1>10 DEF GivenUp3, End
<1>. QED BY <1>11, <1>12, Zenon

-----------------------------------------------------------------------------
(* iput(): its operation stays on the stack, then goes.                    *)

\* What depends only on the operations.
SameRoles(s, t, g) ==
    /\ Main(t, g) = Main(s, g) /\ NextCwd(t, g) = NextCwd(s, g) /\ Fresh(t, g) = Fresh(s, g)
    /\ \A c : CwdOwn(t, c) = CwdOwn(s, c)
    /\ Closed(t, g) = Closed(s, g)
    /\ Deep(t, 2).op = "open_file" <=> Deep(s, 2).op = "open_file"
    /\ InTransaction(s) /\ InTransaction(t) /\ ~Busy(s) /\ ~Busy(t) /\ t # <<>>

LEMMA PutTop ==
    ASSUME NEW s, NEW t, NEW g, NEW L, NEW l \in Putting, NEW i,
           Swapped(s, t, L, Op(l, i)), i = Deep(s, L).ip, RegsOK(s, g), Deep(s, L).op \in Putting
    PROVE  /\ RegsOK(t, g) /\ SameRoles(s, t, g)
           /\ \A c : But(OwnOf(s, g, c), OwnOf(t, g, c), 0)
<1>0. /\ Layers(s, L) /\ Layers(t, L) /\ s # <<>>
      /\ \A m \in Nat : Deep(t, m) = IF m = L THEN Op(l, Deep(s, L).ip) ELSE Deep(s, m)
  BY DEF Swapped
<1>1. \A m \in Nat : Deep(t, m).op = IF m = L THEN l ELSE Deep(s, m).op
  BY <1>0 DEF Op
<1>2. \A m \in Nat : Deep(t, m).ip = Deep(s, m).ip
  BY <1>0 DEF Op
<1>3. L \in 2 .. 6
  BY <1>0 DEF Layers, Layer, Fits, Putting
<1>4. t # <<>> BY <1>0, <1>3 DEF Layers
<1>13. RegsOK(t, g)
  BY <1>0, <1>1, <1>2, <1>3, <1>4 DEF RegsOK, Putting, Layers, Layer, Fits
<1>14. SameRoles(s, t, g)
  BY <1>0, <1>1, <1>2, <1>3, <1>4
     DEF SameRoles, Main, NextCwd, Fresh, CwdOwn, Closed, Leaving, InTransaction, Busy, Op,
         Putting, Layers, Layer, Fits
<1>15. \A c : \A n \in 1 .. 10 : OwnOf(t, g, c)[n] = OwnOf(s, g, c)[n]
  BY <1>0, <1>1, <1>2, <1>3
     DEF OwnOf, OpOwn, IpOwn, OldOwn, DpOwn, CwdOwn, Putting, Owning, Layers, Layer, Fits
<1>. QED BY <1>13, <1>14, <1>15 DEF But

LEMMA PopTop ==
    ASSUME NEW s, NEW t, NEW g, NEW L, Popped(s, t, L), RegsOK(s, g), Deep(s, L).op \in Putting
    PROVE  /\ RegsOK(t, g) /\ SameRoles(s, t, g) /\ L \in 2 .. 6
           /\ \A c : /\ OwnOf(s, g, c)[L] = Deep(s, L).ip /\ OwnOf(t, g, c)[L] = None
                     /\ But(OwnOf(s, g, c), OwnOf(t, g, c), L)
           /\ Dying(t) = None
<1>0. /\ Layers(s, L) /\ Layers(t, L - 1) /\ s # <<>>
      /\ \A m \in Nat : Deep(t, m) = IF m = L THEN NoOp ELSE Deep(s, m)
  BY DEF Popped
<1>1. \A m \in Nat : Deep(t, m).op = IF m = L THEN "none" ELSE Deep(s, m).op
  BY <1>0 DEF Op, NoOp
<1>3. L \in 2 .. 6
  BY <1>0 DEF Layers, Layer, Fits, Putting
<1>4. t # <<>> /\ Head(t) = Deep(s, L - 1)
  BY <1>0, <1>3 DEF Layers
<1>13. RegsOK(t, g)
  BY <1>0, <1>1, <1>3, <1>4 DEF RegsOK, Putting, Layers, Layer, Fits
<1>14. SameRoles(s, t, g)
  BY <1>0, <1>1, <1>3, <1>4
     DEF SameRoles, Main, NextCwd, Fresh, CwdOwn, Closed, Leaving, InTransaction, Busy, Op,
         Putting, Layers, Layer, Fits
<1>15. \A c : \A n \in 1 .. 10 : n # L => OwnOf(t, g, c)[n] = OwnOf(s, g, c)[n]
  BY <1>0, <1>1, <1>3
     DEF OwnOf, OpOwn, IpOwn, OldOwn, DpOwn, CwdOwn, Putting, Owning, Layers, Layer, Fits
<1>16. \A c : OwnOf(s, g, c)[L] = Deep(s, L).ip /\ OwnOf(t, g, c)[L] = None
  BY <1>0, <1>1, <1>3 DEF OwnOf, OpOwn, Owning, Putting
<1>18. Dying(t) = None
  BY <1>0, <1>1, <1>3, <1>4 DEF Layers, Layer, Fits, Putting, Dying
<1>. QED BY <1>3, <1>13, <1>14, <1>15, <1>16, <1>18 DEF But

\* A process in a call, before a step.
LEMMA Here ==
    ASSUME FsInv, NEW p \in Proc
    PROVE  /\ DOMAIN k = Proc /\ DOMAIN r = Proc
           /\ StackOK(k[p]) /\ RegsOK(k[p], r[p]) /\ r[p] \in Regs /\ Layers(k[p], Len(k[p]))
           /\ cwd[p] \in Inum \cup {None} /\ (k[p] # <<>> => cwd[p] \in Inum)
           /\ Known(k[p], r[p], cwd[p])
BY Layered DEF FsInv, Local, TypeOK, InUse, RegsOK

\* The step goes on with its call, or gives it up.
Regular(p) == UNCHANGED r \/ (\E g : r' = [r EXCEPT ![p] = g])

LEMMA ContinueWith ==
    ASSUME FsInv, NEW p \in Proc, NEW ops, Continue(p, ops), Regular(p)
    PROVE  Only(p) /\ k'[p] = ops \o Tail(k[p])
BY DEF FsInv, Local, Only, Continue, Regular

LEMMA FailWith ==
    ASSUME FsInv, NEW p \in Proc, NEW ops, Fail(p, ops), Regular(p)
    PROVE  Only(p) /\ k'[p] = ops \o Ops(<<"end_op">>)
BY DEF FsInv, Local, Only, Fail, Regular

LEMMA Continue0 ==
    ASSUME FsInv, NEW p \in Proc, k[p] # <<>>, Continue(p, <<>>), Regular(p)
    PROVE  Only(p) /\ Popped(k[p], k'[p], Len(k[p]))
<1>1. Only(p) /\ k'[p] = <<>> \o Tail(k[p]) BY ContinueWith
<1>2. StackOK(k[p]) BY Here
<1>. QED BY <1>1, <1>2, Top0, Zenon

LEMMA Continue1 ==
    ASSUME FsInv, NEW p \in Proc, k[p] # <<>>, NEW x, Continue(p, <<x>>), Regular(p),
           OpOK(x), Fits(x.op, Len(k[p]), Deep(k[p], Len(k[p]) - 1).op)
    PROVE  Only(p) /\ Swapped(k[p], k'[p], Len(k[p]), x)
<1>1. Only(p) /\ k'[p] = <<x>> \o Tail(k[p]) BY ContinueWith
<1>2. StackOK(k[p]) BY Here
<1>3. Swapped(k[p], <<x>> \o Tail(k[p]), Len(k[p]), x) BY <1>2, Top1
<1>. QED BY <1>1, <1>3, Zenon

LEMMA Continue2 ==
    ASSUME FsInv, NEW p \in Proc, k[p] # <<>>, NEW x, NEW y, Continue(p, <<x, y>>), Regular(p),
           OpOK(x), OpOK(y), Len(k[p]) < 6,
           Fits(y.op, Len(k[p]), Deep(k[p], Len(k[p]) - 1).op), Fits(x.op, Len(k[p]) + 1, y.op)
    PROVE  Only(p) /\ Pushed(k[p], k'[p], Len(k[p]), x, y)
<1>1. Only(p) /\ k'[p] = <<x, y>> \o Tail(k[p]) BY ContinueWith
<1>2. StackOK(k[p]) BY Here
<1>3. Pushed(k[p], <<x, y>> \o Tail(k[p]), Len(k[p]), x, y) BY <1>2, Top2
<1>. QED BY <1>1, <1>3, Zenon

LEMMA FailTo0 ==
    ASSUME FsInv, NEW p \in Proc, Fail(p, <<>>), Regular(p)
    PROVE  Only(p) /\ GivenUp0(k'[p])
<1>1. Only(p) /\ k'[p] = <<>> \o Ops(<<"end_op">>) BY FailWith
<1>. QED BY <1>1, Fail0, Zenon

LEMMA FailTo1 ==
    ASSUME FsInv, NEW p \in Proc, NEW x, Fail(p, <<x>>), Regular(p), OpOK(x), Fits(x.op, 2, "end_op")
    PROVE  Only(p) /\ GivenUp1(k'[p], x)
<1>1. Only(p) /\ k'[p] = <<x>> \o Ops(<<"end_op">>) BY FailWith
<1>2. GivenUp1(<<x>> \o Ops(<<"end_op">>), x) BY Fail1
<1>. QED BY <1>1, <1>2, Zenon

LEMMA FailTo2 ==
    ASSUME FsInv, NEW p \in Proc, NEW x, NEW y, Fail(p, <<x, y>>), Regular(p), OpOK(x), OpOK(y),
           Fits(y.op, 2, "end_op"), Fits(x.op, 3, y.op)
    PROVE  Only(p) /\ GivenUp2(k'[p], x, y)
<1>1. Only(p) /\ k'[p] = <<x, y>> \o Ops(<<"end_op">>) BY FailWith
<1>2. GivenUp2(<<x, y>> \o Ops(<<"end_op">>), x, y) BY Fail2
<1>. QED BY <1>1, <1>2, Zenon

LEMMA FailTo3 ==
    ASSUME FsInv, NEW p \in Proc, NEW x, NEW y, NEW z, Fail(p, <<x, y, z>>), Regular(p),
           OpOK(x), OpOK(y), OpOK(z),
           Fits(z.op, 2, "end_op"), Fits(y.op, 3, z.op), Fits(x.op, 4, y.op)
    PROVE  Only(p) /\ GivenUp3(k'[p], x, y, z)
<1>1. Only(p) /\ k'[p] = <<x, y, z>> \o Ops(<<"end_op">>) BY FailWith
<1>2. GivenUp3(<<x, y, z>> \o Ops(<<"end_op">>), x, y, z) BY Fail3
<1>. QED BY <1>1, <1>2, Zenon

\* Nobody else is about to free what p has.
LEMMA NobodysDying ==
    ASSUME FsInv, NEW p \in Proc, NEW q \in Proc \ {p}, Dying(k[q]) # None
    PROVE  /\ Dying(k[q]) # CwdOwn(k[p], cwd[p]) /\ Dying(k[q]) # NextCwd(k[p], r[p])
           /\ Dying(k[q]) # Fresh(k[p], r[p])
BY DEF FsInv, InUse, Forgotten

LEMMA SameUsing ==
    ASSUME FsInv, NEW p \in Proc, Only(p), UNCHANGED cwd, r'[p] = r[p],
           SameRoles(k[p], k'[p], r[p]), Linking, Dying(k'[p]) # None => Forgotten(Dying(k[p]))'
    PROVE  Using(p)
<1>1. Known(k[p], r[p], cwd[p])'
  <2>1. Known(k[p], r[p], cwd[p]) BY Here
  <2>2. /\ CwdOwn(k[p], cwd[p]) \in Inum \cup {None} /\ NextCwd(k[p], r[p]) \in Inum \cup {None}
        /\ Fresh(k[p], r[p]) \in Inum \cup {None} /\ Main(k[p], r[p]) \in Inum \cup {None}
    BY Here, RolesTyped
  <2>. QED BY <2>1, <2>2 DEF Known, Type, IsDir, SameRoles, Linking
<1>2. \A q \in Proc \ {p} : Fresh(k[p], r[p]) # None => Fresh(k[p], r[p]) # Fresh(k[q], r[q])
  BY DEF FsInv, InUse
<1>. QED BY <1>1, <1>2, NobodysDying DEF Using, SameRoles

LEMMA UnrefStep == ASSUME FsInv, NEW p \in Proc, unref(p) PROVE FsInv'
<1>1. PICK s, g, L : s = k[p] /\ g = r[p] /\ L = Len(s) OBVIOUS
<1>2. PICK i : i = Head(s).ip OBVIOUS
<1>3. StackOK(s) /\ RegsOK(s, g) /\ s # <<>> /\ Layers(s, L) /\ Head(s).op = "unref"
  BY <1>1, Here DEF unref, At, InKernel
<1>4. Deep(s, L).op \in Putting /\ Deep(s, L) = Head(s) BY <1>1, <1>3 DEF Putting, Layers
<1>5. OpOK(Head(s)) BY <1>3, Rest
<1>6. i \in Inum /\ i # None /\ Target(p) = i
  BY <1>1, <1>2, <1>3, <1>5, Constants DEF OpOK, Owning, Putting, Target
<1>9. /\ Continue(p, <<>>) /\ UNCHANGED <<d, lock, r, outstanding, file, ofile, cwd>>
      /\ ref' = [ref EXCEPT ![i] = @ - 1]
      /\ valid' = [valid EXCEPT ![i] = @ /\ ref[i] > 1]
  BY <1>6 DEF unref, Within
<1>10. PICK t : t = k'[p] OBVIOUS
<1>7. Only(p) /\ Popped(s, t, L)
  BY <1>1, <1>3, <1>9, <1>10, Continue0 DEF Regular
<1>8. /\ RegsOK(t, g) /\ SameRoles(s, t, g) /\ L \in 2 .. 6
      /\ \A c : /\ OwnOf(s, g, c)[L] = Deep(s, L).ip /\ OwnOf(t, g, c)[L] = None
                /\ But(OwnOf(s, g, c), OwnOf(t, g, c), L)
      /\ Dying(t) = None
  BY <1>3, <1>4, <1>7, PopTop
<1>11. TypeOK /\ Local /\ Counts /\ Locks /\ InUse BY DEF FsInv
<1>12. Inside(p) 
  BY <1>1, <1>3, <1>7, <1>8, <1>9, <1>10 DEF Inside, SameRoles, Popped
<1>13. Linking BY <1>9, <1>11, NothingLinked
<1>14. Using(p)
  BY <1>1, <1>7, <1>8, <1>9, <1>10, <1>13, SameUsing
<1>15. Dying(s) = None BY <1>3 DEF Dying
<1>16. Locked(p)
  <2>1. Main(k'[p], r'[p]) = Main(s, g) /\ Dying(k'[p]) = None
    BY <1>1, <1>8, <1>9, <1>10 DEF SameRoles
  <2>. QED BY <2>1, <1>1, <1>9, <1>11, <1>15 DEF Locked, Locks, TypeOK
<1>17. valid' \in [Inum -> BOOLEAN] /\ \A j \in Inum : valid'[j] => valid[j]
  BY <1>9, <1>11, <1>6 DEF TypeOK
<1>18. Referring
  <2>1. PICK R, N : Rows(p, R, N) BY DEF Rows
  <2>2. R[L] = i /\ N[L] = None /\ But(R, N, L)
    BY <2>1, <1>1, <1>2, <1>4, <1>8, <1>9, <1>10 DEF Rows
  <2>3. ref[i] \in Nat /\ ref[i] > 0
    <3>1. ref[i] = Count(Owned, i) /\ ref[i] \in Nat BY <1>6, <1>11 DEF Counts, TypeOK
    <3>2. L \in 1 .. 10 BY <1>8
    <3>3. <<p, L>> \in DOMAIN Owned /\ Owned[<<p, L>>] = i
      BY <3>2, <2>1, <2>2, Places DEF Rows
    <3>. QED BY <3>1, <3>3, SomeOwner
  <2>4. ref' \in [Inum -> Nat] BY <1>6, <1>9, <1>11, <2>3 DEF TypeOK
  <2>5. \A j \in Inum : ref'[j] + Is(R[L], j) = ref[j] + Is(N[L], j)
    BY <1>6, <1>9, <1>11, <2>2, Constants DEF Is, TypeOK
  <2>6. L \in 1 .. 10 BY <1>8
  <2>7. Steady(p) BY <1>7, <1>9, <2>4 DEF Steady
  <2>8. Moves1(R, N, L) BY <2>2, <2>5, <2>6 DEF Moves1
  <2>. QED BY <1>11, <2>1, <2>7, <2>8, Shift1
<1>. QED BY <1>12, <1>13, <1>14, <1>16, <1>17, <1>18, <1>11, LinkingStep DEF InUse

\* The next operation of a process.
LEMMA AtOp ==
    ASSUME FsInv, NEW p \in Proc, NEW l, At(p, l)
    PROVE  /\ k[p] # <<>> /\ Len(k[p]) \in 1 .. 6
           /\ Head(k[p]) = Deep(k[p], Len(k[p])) /\ Head(k[p]).op = l /\ OpOK(Head(k[p]))
           /\ Fits(l, Len(k[p]), Deep(k[p], Len(k[p]) - 1).op)
           /\ (l \in Owning \cup Naming => Target(p) = Head(k[p]).ip /\ Target(p) \in Inum)
           /\ (l \notin Owning \cup Naming \cup {"fileclose"} => Target(p) = r[p].ip)
<1>1. k[p] # <<>> /\ Head(k[p]).op = l BY DEF At, InKernel
<1>2. StackOK(k[p]) BY Here
<1>3. Len(k[p]) \in 1 .. 6 /\ Head(k[p]) = Deep(k[p], Len(k[p])) /\ OpOK(Head(k[p]))
      /\ Fits(l, Len(k[p]), Deep(k[p], Len(k[p]) - 1).op)
  BY <1>1, <1>2, Rest
<1>4. l \in Owning \cup Naming => Head(k[p]).ip \in Inum BY <1>1, <1>3 DEF OpOK
<1>5. l \notin Owning \cup Naming \cup {"fileclose"} => Head(k[p]).ip = None
  BY <1>1, <1>3 DEF OpOK
<1>. QED BY <1>1, <1>3, <1>4, <1>5, Constants DEF Target

LEMMA LockAt ==
    ASSUME FsInv, NEW p \in Proc, NEW l, CanLock(p, l), l # "iput"
    PROVE  At(p, l) /\ Target(p) \in Inum /\ lock[Target(p)] = None /\ Type(Target(p)) # "none"
<1>1. At(p, l) /\ Target(p) # None /\ lock[Target(p)] = None /\ Why(p) = "no" /\ l \in Locking
  BY DEF CanLock, GetsLock, At
<1>2. Target(p) \in Inum
  <2>1. r[p].ip \in Inum \cup {None} BY Here DEF Regs
  <2>2. l # "fileclose" BY <1>1 DEF Locking
  <2>. QED BY <1>1, <2>1, <2>2, AtOp
<1>3. Head(k[p]).op # "iput" BY <1>1 DEF At
<1>4. ~NoType(Target(p)) BY <1>1, <1>3 DEF Why
<1>5. Type(Target(p)) # "none" BY <1>2, <1>4 DEF NoType, FsInv, InUse, Type
<1>. QED BY <1>1, <1>2, <1>5

\* What a process has in some role it owns a reference to.
LEMMA RoleSlots ==
    ASSUME NEW s, NEW g, NEW c, StackOK(s)
    PROVE  /\ CwdOwn(s, c) = OwnOf(s, g, c)[10]
           /\ NextCwd(s, g) # None => NextCwd(s, g) = OwnOf(s, g, c)[7]
           /\ Fresh(s, g) # None => Fresh(s, g) = OwnOf(s, g, c)[7]
           /\ Main(s, g) # None => \E n \in 1 .. 10 : /\ Main(s, g) = OwnOf(s, g, c)[n]
                                                    /\ Deep(s, n).op \notin Putting
<1>1. PICK L : Layers(s, L) /\ \A m \in Nat : m > L => Deep(s, m) = NoOp BY Layered
<1>2. CwdOwn(s, c) = OwnOf(s, g, c)[10] BY DEF OwnOf
<1>3. NextCwd(s, g) # None => NextCwd(s, g) = OwnOf(s, g, c)[7]
  BY DEF OwnOf, NextCwd, IpOwn
<1>4. Deep(s, 3).op = "create_new" => Deep(s, 2).op \in {"open_file", "put_new"}
  BY <1>1 DEF Layers, Layer, Fits, Putting, NoOp, Op
<1>5. Fresh(s, g) # None => Fresh(s, g) = OwnOf(s, g, c)[7]
  BY <1>4 DEF OwnOf, Fresh, IpOwn
<1>6. Main(s, g) # None => \E n \in 1 .. 10 : /\ Main(s, g) = OwnOf(s, g, c)[n]
                                            /\ Deep(s, n).op \notin Putting
  <2>0. Deep(s, 7) = NoOp /\ Deep(s, 9) = NoOp BY <1>1 DEF Layers
  <2>1. CASE Deep(s, 2).op \in {"unlink_bad", "unlink_done"}
    <3>1. Main(s, g) = OwnOf(s, g, c)[2] BY <2>1 DEF Main, OwnOf, OpOwn, Owning
    <3>2. Deep(s, 2).op \notin Putting BY <2>1 DEF Putting
    <3>. QED BY <3>1, <3>2
  <2>2. CASE Deep(s, 2).op = "unlink_inode" \/ Deep(s, 3).op = "create_new"
    <3>1. Deep(s, 2).op \notin {"unlink_bad", "unlink_done"} BY <2>2, <1>4
    <3>2. Main(s, g) = OwnOf(s, g, c)[9] BY <3>1, <2>2 DEF Main, OwnOf, DpOwn
    <3>3. Deep(s, 9).op \notin Putting BY <2>0 DEF Putting, NoOp, Op
    <3>. QED BY <3>2, <3>3
  <2>3. CASE /\ ~(Deep(s, 2).op = "unlink_inode" \/ Deep(s, 3).op = "create_new")
             /\ Deep(s, 2).op \notin {"unlink_bad", "unlink_done"}
             /\ Deep(s, 3).op = "link_exists"
    <3>1. Main(s, g) = OwnOf(s, g, c)[3] BY <2>3 DEF Main, OwnOf, OpOwn, Owning
    <3>2. Deep(s, 3).op \notin Putting BY <2>3 DEF Putting
    <3>. QED BY <3>1, <3>2
  <2>4. CASE /\ ~(Deep(s, 2).op = "unlink_inode" \/ Deep(s, 3).op = "create_new")
             /\ Deep(s, 2).op \notin {"unlink_bad", "unlink_done"}
             /\ Deep(s, 3).op # "link_exists"
    <3>1. Main(s, g) # None => Main(s, g) = OwnOf(s, g, c)[7] BY <2>4 DEF Main, OwnOf, IpOwn
    <3>3. Deep(s, 7).op \notin Putting BY <2>0 DEF Putting, NoOp, Op
    <3>. QED BY <3>1, <3>3
  <2>. QED BY <2>1, <2>2, <2>3, <2>4
<1>. QED BY <1>2, <1>3, <1>5, <1>6

\* Whose only reference is that of an operation to come is nobody's but for it.
LEMMA Alone ==
    ASSUME FsInv, NEW p \in Proc, NEW L \in 1 .. 6, Deep(k[p], L).op \in Putting,
           NEW i \in Inum, Deep(k[p], L).ip = i, ref[i] = 1
    PROVE  /\ \A f \in File : file[f].ip # i
           /\ \A q \in Proc : i \notin {CwdOwn(k[q], cwd[q]), NextCwd(k[q], r[q]), Fresh(k[q], r[q])}
           /\ i # Main(k[p], r[p])
<1>1. Count(Owned, i) = 1 BY DEF FsInv, Counts
<1>2. i # None /\ p # 0 BY Constants
<1>3. <<p, L>> \in DOMAIN Owned /\ Owned[<<p, L>>] = i
  <2>1. OwnOf(k[p], r[p], cwd[p])[L] = i BY DEF OwnOf, OpOwn, Owning
  <2>2. L \in 1 .. 10 OBVIOUS
  <2>. QED BY <2>1, <2>2, Places
<1>4. ASSUME NEW f \in File PROVE file[f].ip # i
  <2>1. <<0, f>> \in DOMAIN Owned /\ Owned[<<0, f>>] = file[f].ip BY Places
  <2>2. <<0, f>> # <<p, L>> BY <1>2
  <2>. QED BY <1>1, <1>3, <2>1, <2>2, OnlyOwner
<1>5. ASSUME NEW q \in Proc, NEW n \in 1 .. 10, OwnOf(k[q], r[q], cwd[q])[n] = i PROVE q = p /\ n = L
  <2>1. <<q, n>> \in DOMAIN Owned /\ Owned[<<q, n>>] = i BY <1>5, Places
  <2>2. <<q, n>> = <<p, L>> BY <1>1, <1>3, <2>1, OnlyOwner
  <2>. QED BY <2>2
<1>6. ASSUME NEW q \in Proc
      PROVE  i \notin {CwdOwn(k[q], cwd[q]), NextCwd(k[q], r[q]), Fresh(k[q], r[q])}
  <2>1. StackOK(k[q]) BY Here
  <2>2. 10 \in 1 .. 10 /\ 7 \in 1 .. 10 /\ L # 7 /\ L # 10 OBVIOUS
  <2>. QED BY <1>2, <1>5, <2>1, <2>2, RoleSlots
<1>7. i # Main(k[p], r[p])
  <2>1. StackOK(k[p]) BY Here
  <2>. QED BY <1>2, <1>5, <2>1, RoleSlots
<1>. QED BY <1>4, <1>6, <1>7

-----------------------------------------------------------------------------
(* What is on the disk.                                                    *)

Addrs  == UNION {[1 .. n -> Block] : n \in 0 .. MAXFILE + 1}
Inodes == [type : {"none", "file", "dir", "dev"}, nlink : Int, addrs : Addrs]

LEMMA DiskParts ==
    /\ Disks = [ino : [Inum -> Inodes], ent : [Inum -> [Name -> Inum \cup {None}]], used : SUBSET Block]
    /\ FreeInode \in Inodes /\ NoEntries \in [Name -> Inum \cup {None}]
    /\ ToSet(<<>>) = {} /\ IsInjective(<<>>)
    /\ \A b \in Block : <<b>> \in Addrs /\ ToSet(<<b>>) = {b} /\ IsInjective(<<b>>)
<1>1. Disks = [ino : [Inum -> Inodes], ent : [Inum -> [Name -> Inum \cup {None}]], used : SUBSET Block]
  BY DEF Disks, Inodes, Addrs
<1>2. 0 \in 0 .. MAXFILE + 1 /\ 1 \in 0 .. MAXFILE + 1 BY Constants
<1>3. <<>> \in [1 .. 0 -> Block]
  <2>1. 1 .. 0 = {} OBVIOUS
  <2>2. <<>> \in Seq(Block) /\ Len(<<>>) = 0 BY EmptySeq
  <2>. QED BY <2>2, LenProperties
<1>4. <<>> \in Addrs BY <1>2, <1>3 DEF Addrs
<1>5. FreeInode \in Inodes BY <1>4 DEF Inodes, FreeInode
<1>6. ToSet(<<>>) = {} /\ IsInjective(<<>>)
  BY DEF ToSet, IsInjective
<1>7. ASSUME NEW b \in Block PROVE <<b>> \in Addrs /\ ToSet(<<b>>) = {b} /\ IsInjective(<<b>>)
  <2>1. <<b>> \in Seq(Block) /\ Len(<<b>>) = 1 /\ <<b>>[1] = b OBVIOUS
  <2>2. <<b>> \in [1 .. 1 -> Block] BY <2>1, LenProperties
  <2>3. DOMAIN <<b>> = 1 .. 1 /\ 1 .. 1 = {1} BY <2>2
  <2>. QED BY <1>2, <2>1, <2>2, <2>3 DEF Addrs, ToSet, IsInjective
<1>8. NoEntries \in [Name -> Inum \cup {None}] BY DEF NoEntries
<1>. QED BY <1>1, <1>5, <1>6, <1>7, <1>8

LEMMA FreedBlocks ==
    ASSUME TypeOK, BlocksOwned, NEW i \in Inum, d' = Freed(d, i)
    PROVE  /\ d' \in Disks /\ BlocksOwned'
           /\ \A j \in Inum : IF j = i THEN d'.ino[j] = FreeInode /\ d'.ent[j] = NoEntries
                              ELSE d'.ino[j] = d.ino[j] /\ d'.ent[j] = d.ent[j]
<1>1. d \in Disks /\ d.ino \in [Inum -> Inodes] /\ d.ent \in [Inum -> [Name -> Inum \cup {None}]]
      /\ d.used \subseteq Block
  BY DiskParts DEF TypeOK
<1>2. /\ d'.ino = [d.ino EXCEPT ![i] = FreeInode] /\ d'.ent = [d.ent EXCEPT ![i] = NoEntries]
      /\ d'.used = d.used \ ToSet(d.ino[i].addrs)
  BY DEF Freed
<1>3. d' \in Disks
  <2>1. d'.ino \in [Inum -> Inodes] /\ d'.ent \in [Inum -> [Name -> Inum \cup {None}]]
        /\ d'.used \subseteq Block
    BY <1>1, <1>2, DiskParts
  <2>2. d' = [ino |-> d'.ino, ent |-> d'.ent, used |-> d'.used] BY DEF Freed
  <2>. QED BY <2>1, <2>2, DiskParts
<1>4. \A j \in Inum : IF j = i THEN d'.ino[j] = FreeInode /\ d'.ent[j] = NoEntries
                      ELSE d'.ino[j] = d.ino[j] /\ d'.ent[j] = d.ent[j]
  BY <1>1, <1>2
<1>5. FreeInode.addrs = <<>> BY DEF FreeInode
<1>6. \A j \in Inum : ToSet(d'.ino[j].addrs) = IF j = i THEN {} ELSE ToSet(d.ino[j].addrs)
  BY <1>4, <1>5, DiskParts
<1>7. d'.used = UNION {ToSet(d'.ino[j].addrs) : j \in Inum}
  BY <1>2, <1>6 DEF BlocksOwned
<1>8. \A j, m \in Inum : j # m => ToSet(d'.ino[j].addrs) \cap ToSet(d'.ino[m].addrs) = {}
  BY <1>6 DEF BlocksOwned
<1>9. \A j \in Inum : IsInjective(d'.ino[j].addrs)
  BY <1>4, <1>5, DiskParts DEF BlocksOwned
<1>. QED BY <1>3, <1>4, <1>7, <1>8, <1>9 DEF BlocksOwned

\* Inode i has no blocks, and gets its first.
LEMMA FirstBlock ==
    ASSUME TypeOK, BlocksOwned, NEW i \in Inum, d.ino[i].addrs = <<>>, NEW b \in Block \ d.used,
           d' \in Disks, d'.used = d.used \cup {b}, d'.ino[i].addrs = <<b>>,
           \A j \in Inum : j # i => d'.ino[j].addrs = d.ino[j].addrs
    PROVE  BlocksOwned'
<1>1. b \in Block /\ b \notin d.used OBVIOUS
<1>2. \A j \in Inum : ToSet(d'.ino[j].addrs) = IF j = i THEN {b} ELSE ToSet(d.ino[j].addrs)
  BY <1>1, DiskParts
<1>3. ToSet(d.ino[i].addrs) = {} BY DiskParts
<1>4. \A j \in Inum : b \notin ToSet(d.ino[j].addrs) BY <1>1 DEF BlocksOwned
<1>5. d'.used = UNION {ToSet(d'.ino[j].addrs) : j \in Inum}
  BY <1>2, <1>3 DEF BlocksOwned
<1>6. \A j, m \in Inum : j # m => ToSet(d'.ino[j].addrs) \cap ToSet(d'.ino[m].addrs) = {}
  BY <1>2, <1>4 DEF BlocksOwned
<1>7. ASSUME NEW j \in Inum PROVE IsInjective(d'.ino[j].addrs)
  <2>1. IsInjective(d.ino[j].addrs) BY DEF BlocksOwned
  <2>2. IsInjective(<<b>>) BY <1>1, DiskParts
  <2>. QED BY <2>1, <2>2
<1>. QED BY <1>5, <1>6, <1>7 DEF BlocksOwned

\* Inode i grows by a block.
LEMMA OneMoreBlock ==
    ASSUME TypeOK, BlocksOwned, NEW i \in Inum, Len(d.ino[i].addrs) < MAXFILE,
           Block \ d.used # {}, d' = Appended(i)
    PROVE  /\ d' \in Disks /\ BlocksOwned'
           /\ d'.ent = d.ent
           /\ \A j \in Inum : /\ d'.ino[j].type = d.ino[j].type /\ d'.ino[j].nlink = d.ino[j].nlink
                              /\ j # i => d'.ino[j] = d.ino[j]
<1>1. d \in Disks /\ d.ino \in [Inum -> Inodes] /\ d.ent \in [Inum -> [Name -> Inum \cup {None}]]
      /\ d.used \subseteq Block
  BY DiskParts DEF TypeOK
<1>2. PICK b, a : b = NewBlock /\ a = d.ino[i].addrs OBVIOUS
<1>3. b \in Block \ d.used
  <2>1. Block \ d.used \in SUBSET Nat BY Constants
  <2>. QED BY <1>2, <2>1, MinIn DEF NewBlock
<1>4. PICK n \in 0 .. MAXFILE + 1 : a \in [1 .. n -> Block]
  <2>1. a \in Addrs BY <1>1, <1>2 DEF Inodes
  <2>. QED BY <2>1 DEF Addrs
<1>5. a \in Seq(Block) /\ Len(a) = n /\ n < MAXFILE
  <2>1. n \in Nat BY <1>4, Constants
  <2>2. a \in Seq(Block) /\ Len(a) = n BY <1>4, <2>1
  <2>. QED BY <2>2, <1>2
<1>6. PICK a2 : a2 = Append(a, b) OBVIOUS
<1>7. /\ a2 \in Seq(Block) /\ Len(a2) = n + 1 /\ a2[n + 1] = b
      /\ \A m \in 1 .. n : a2[m] = a[m]
  BY <1>3, <1>5, <1>6, AppendProperties
<1>8. a2 \in [1 .. n + 1 -> Block] /\ DOMAIN a2 = 1 .. n + 1 /\ DOMAIN a = 1 .. n
  BY <1>7, <1>4, LenProperties
<1>9. a2 \in Addrs
  <2>1. n + 1 \in 0 .. MAXFILE + 1 BY <1>4, <1>5, Constants
  <2>. QED BY <2>1, <1>8 DEF Addrs
<1>10. n \in Nat BY <1>4, Constants
<1>11. ToSet(a2) = ToSet(a) \cup {b}
  BY <1>7, <1>8, <1>10 DEF ToSet
<1>12. b \notin ToSet(a) /\ \A j \in Inum : b \notin ToSet(d.ino[j].addrs)
  BY <1>2, <1>3 DEF BlocksOwned
<1>13. IsInjective(a2)
  <2>1. IsInjective(a) BY <1>2 DEF BlocksOwned
  <2>2. \A m \in 1 .. n : a[m] # b BY <1>12, <1>8 DEF ToSet
  <2>3. \A m1, m2 \in 1 .. n + 1 : a2[m1] = a2[m2] => m1 = m2
    <3>1. \A m1, m2 \in 1 .. n : a[m1] = a[m2] => m1 = m2 BY <2>1, <1>8 DEF IsInjective
    <3>2. \A m1 \in 1 .. n + 1 : m1 = n + 1 \/ m1 \in 1 .. n BY <1>10
    <3>. QED BY <1>7, <2>2, <3>1, <3>2
  <2>. QED BY <2>3, <1>8 DEF IsInjective
<1>14. /\ d'.ino = [d.ino EXCEPT ![i].addrs = a2] /\ d'.ent = d.ent /\ d'.used = d.used \cup {b}
  BY <1>1, <1>2, <1>6, DiskParts DEF Appended
<1>15. d' \in Disks
  <2>0. [d.ino[i] EXCEPT !.addrs = a2] \in Inodes
    <3>1. d.ino[i] \in Inodes BY <1>1
    <3>. QED BY <3>1, <1>9 DEF Inodes
  <2>1. d'.ino \in [Inum -> Inodes] BY <1>1, <1>14, <2>0
  <2>2. d'.used \subseteq Block BY <1>1, <1>3, <1>14
  <2>3. d' = [ino |-> d'.ino, ent |-> d'.ent, used |-> d'.used]
    BY <1>1, DiskParts DEF Appended
  <2>. QED BY <1>1, <1>14, <2>1, <2>2, <2>3, DiskParts
<1>16. \A j \in Inum : /\ d'.ino[j].type = d.ino[j].type /\ d'.ino[j].nlink = d.ino[j].nlink
                       /\ j # i => d'.ino[j] = d.ino[j]
                       /\ d'.ino[j].addrs = IF j = i THEN a2 ELSE d.ino[j].addrs
  BY <1>1, <1>14 DEF Inodes
<1>17. \A j \in Inum : ToSet(d'.ino[j].addrs) =
                         IF j = i THEN ToSet(d.ino[j].addrs) \cup {b} ELSE ToSet(d.ino[j].addrs)
  BY <1>2, <1>11, <1>16
<1>18. d'.used = UNION {ToSet(d'.ino[j].addrs) : j \in Inum}
  <2>1. d'.used = d.used \cup {b} BY <1>14
  <2>2. \A x : x \in d.used <=> \E j \in Inum : x \in ToSet(d.ino[j].addrs)
    BY DEF BlocksOwned
  <2>3. \A x : (\E j \in Inum : x \in ToSet(d'.ino[j].addrs)) <=>
               (x = b \/ \E j \in Inum : x \in ToSet(d.ino[j].addrs))
    BY <1>17
  <2>. QED BY <2>1, <2>2, <2>3
<1>19. \A j, m \in Inum : j # m => ToSet(d'.ino[j].addrs) \cap ToSet(d'.ino[m].addrs) = {}
  <2>1. \A j, m \in Inum : j # m => ToSet(d.ino[j].addrs) \cap ToSet(d.ino[m].addrs) = {}
    BY DEF BlocksOwned
  <2>2. ASSUME NEW j \in Inum, NEW m \in Inum, j # m
        PROVE  ToSet(d'.ino[j].addrs) \cap ToSet(d'.ino[m].addrs) = {}
    <3>1. ToSet(d.ino[j].addrs) \cap ToSet(d.ino[m].addrs) = {} BY <2>1, <2>2
    <3>2. b \notin ToSet(d.ino[j].addrs) /\ b \notin ToSet(d.ino[m].addrs) BY <1>12
    <3>3. ToSet(d'.ino[j].addrs) = IF j = i THEN ToSet(d.ino[j].addrs) \cup {b} ELSE ToSet(d.ino[j].addrs)
      BY <1>17
    <3>4. ToSet(d'.ino[m].addrs) = IF m = i THEN ToSet(d.ino[m].addrs) \cup {b} ELSE ToSet(d.ino[m].addrs)
      BY <1>17
    <3>. QED BY <2>2, <3>1, <3>2, <3>3, <3>4
  <2>. QED BY <2>2
<1>20. \A j \in Inum : IsInjective(d'.ino[j].addrs)
  BY <1>13, <1>16 DEF BlocksOwned
<1>. QED BY <1>14, <1>15, <1>16, <1>18, <1>19, <1>20 DEF BlocksOwned

-----------------------------------------------------------------------------
(* Each step keeps the invariant.                                          *)

LEMMA Parts == FsInv => TypeOK /\ Local /\ Counts /\ Locks /\ InUse /\ BlocksOwned
BY DEF FsInv

\* The top operation, which puts inode i, becomes another of that kind.
TopPuts(p, s, g, L, i, l) ==
    /\ s = k[p] /\ g = r[p] /\ L = Len(s) /\ s # <<>>
    /\ Deep(s, L).op \in Putting /\ Deep(s, L).ip = i /\ l \in Putting
    /\ Continue(p, <<Op(l, i)>>) /\ UNCHANGED <<r, outstanding, file, ofile, cwd, ref>>

LEMMA PuttingStep ==
    ASSUME FsInv, NEW p \in Proc, NEW s, NEW g, NEW L, NEW i, NEW l, TopPuts(p, s, g, L, i, l)
    PROVE  /\ Inside(p) /\ Referring /\ SameRoles(s, k'[p], g) /\ r'[p] = g
           /\ Main(k'[p], r'[p]) = Main(s, g)
           /\ Dying(k'[p]) = IF l = "itrunc" THEN i ELSE None
<1>0. /\ s = k[p] /\ g = r[p] /\ L = Len(s) /\ s # <<>>
      /\ Deep(s, L).op \in Putting /\ Deep(s, L).ip = i /\ l \in Putting
      /\ Continue(p, <<Op(l, i)>>) /\ UNCHANGED <<r, outstanding, file, ofile, cwd, ref>>
  BY DEF TopPuts
<1>1. StackOK(s) /\ RegsOK(s, g) BY <1>0, Here
<1>2. L \in 1 .. 6 /\ OpOK(Head(s)) /\ Head(s) = Deep(s, L) /\ Fits(Deep(s, L).op, L, Deep(s, L - 1).op)
  BY <1>0, <1>1, Rest
<1>3. OpOK(Op(l, i)) /\ Fits(Op(l, i).op, L, Deep(s, L - 1).op)
  BY <1>0, <1>2 DEF OpOK, OpType, Op, Putting, Owning, Naming, Operations, Locking, Fits
<1>4. Only(p) /\ Swapped(s, k'[p], L, Op(l, i))
  BY <1>0, <1>3, Continue1 DEF Regular
<1>5. PICK t : t = k'[p] OBVIOUS
<1>6. /\ RegsOK(t, g) /\ SameRoles(s, t, g) /\ \A c : But(OwnOf(s, g, c), OwnOf(t, g, c), 0)
  BY <1>0, <1>1, <1>4, <1>5, PutTop
<1>7. r'[p] = g BY <1>0
<1>11. Main(t, g) = Main(s, g) BY <1>6 DEF SameRoles
<1>8. Inside(p)
  BY <1>0, <1>4, <1>5, <1>6, <1>7 DEF Inside, SameRoles, Swapped
<1>9. Referring
  <2>1. PICK R, N : Rows(p, R, N) BY DEF Rows
  <2>2. But(R, N, 0) BY <2>1, <1>0, <1>5, <1>6, <1>7 DEF Rows
  <2>3. Steady(p) BY <1>0, <1>4, Parts DEF Steady, TypeOK
  <2>. QED BY <1>0, <2>1, <2>2, <2>3, Parts, Shift0
<1>10. Dying(t) = IF l = "itrunc" THEN i ELSE None
  <2>1. StackOK(t) /\ t # <<>> /\ Deep(t, L) = Op(l, i) /\ Layers(t, L)
    BY <1>2, <1>4, <1>5, <1>6 DEF Swapped, SameRoles
  <2>2. Head(t) = Op(l, i) BY <2>1 DEF Layers
  <2>. QED BY <2>1, <2>2 DEF Dying, Op
<1>. QED BY <1>5, <1>6, <1>7, <1>8, <1>9, <1>10, <1>11

\* Process p goes on to keep locked a and b, and releases what else it had.
Relocks(p, a, b) ==
    /\ Main(k'[p], r'[p]) = a /\ Dying(k'[p]) = b
    /\ b # None => a # b
    /\ lock' \in [Inum -> Proc \cup {None}]
    /\ \A i \in Inum : i \in {a, b} => lock[i] \in {p, None} /\ lock'[i] = p
    /\ \A i \in Inum : i \notin {a, b} =>
          lock'[i] = IF i \in {Main(k[p], r[p]), Dying(k[p])} THEN None ELSE lock[i]

LEMMA Relocked ==
    ASSUME FsInv, NEW p \in Proc, NEW a, NEW b, Relocks(p, a, b)
    PROVE  Locked(p)
<1>1. \A i \in Inum : lock[i] = p <=> i \in {Main(k[p], r[p]), Dying(k[p])}
  BY Parts DEF Locks
<1>2. \A i \in Inum : lock'[i] = p <=> i \in {a, b}
  BY <1>1, Constants DEF Relocks
<1>3. \A i \in Inum : lock'[i] # lock[i] => lock[i] \in {p, None} /\ lock'[i] \in {p, None}
  BY <1>1 DEF Relocks
<1>4. /\ Main(k'[p], r'[p]) = a /\ Dying(k'[p]) = b 
      /\ b # None => a # b
      /\ lock' \in [Inum -> Proc \cup {None}]
  BY DEF Relocks
<1>. QED BY <1>2, <1>3, <1>4 DEF Locked

LEMMA IputStep == ASSUME FsInv, NEW p \in Proc, iput(p) PROVE FsInv'
<1>1. PICK s, g, L, i : s = k[p] /\ g = r[p] /\ L = Len(s) /\ i = Target(p) OBVIOUS
<1>2. /\ s # <<>> /\ L \in 1 .. 6 /\ Deep(s, L).op = "iput" /\ Deep(s, L).ip = i
      /\ i \in Inum /\ Head(s).op = "iput"
  BY <1>1, AtOp DEF iput, Owning, Putting
<1>3. lock[i] = None /\ i # None /\ Deep(s, L).op \in Putting BY <1>1, <1>2, Constants DEF iput, Putting
<1>4. UNCHANGED <<d, ref, valid, r, outstanding, file, ofile, cwd>>
  BY DEF iput, Within
<1>5. Linking BY <1>4, Parts, NothingLinked
<1>6. valid' \in [Inum -> BOOLEAN] /\ \A j \in Inum : valid'[j] => Type(j) # "none"
  BY <1>4, Parts DEF TypeOK, InUse
<1>7. Dying(s) = None BY <1>2 DEF Dying
<1>8. CASE LastRef(i)
  <2>1. lock' = [lock EXCEPT ![i] = p] /\ Continue(p, <<Op("itrunc", i)>>)
    BY <1>1, <1>8 DEF iput
  <2>0. TopPuts(p, s, g, L, i, "itrunc") BY <1>1, <1>2, <1>3, <1>4, <2>1 DEF TopPuts, Putting
  <2>2. /\ Inside(p) /\ Referring /\ SameRoles(s, k'[p], g) /\ r'[p] = g /\ Dying(k'[p]) = i
        /\ Main(k'[p], r'[p]) = Main(s, g)
    BY <2>0, PuttingStep
  <2>3. /\ \A f \in File : file[f].ip # i
        /\ \A q \in Proc : i \notin {CwdOwn(k[q], cwd[q]), NextCwd(k[q], r[q]), Fresh(k[q], r[q])}
        /\ i # Main(s, g)
    BY <1>1, <1>2, <1>3, <1>8, Alone DEF LastRef
  <2>4. Only(p) BY <2>2 DEF Inside
  <2>5. Forgotten(Dying(k[p]))'
    <3>1. Type(i) # "none" BY <1>2, <1>8, Parts DEF LastRef, InUse
    <3>2. \A q \in Proc : i \notin {CwdOwn(k'[q], cwd'[q]), NextCwd(k'[q], r'[q]), Fresh(k'[q], r'[q])}
      <4>. SUFFICES ASSUME NEW q \in Proc
           PROVE i \notin {CwdOwn(k'[q], cwd'[q]), NextCwd(k'[q], r'[q]), Fresh(k'[q], r'[q])}
        OBVIOUS
      <4>1. CASE q = p BY <4>1, <1>1, <1>4, <2>2, <2>3 DEF SameRoles
      <4>2. CASE q # p BY <4>2, <1>4, <2>3, <2>4 DEF Only
      <4>. QED BY <4>1, <4>2
    <3>. QED BY <3>1, <3>2, <2>2, <2>3, <1>4 DEF Forgotten, Type
  <2>6. Using(p) BY <1>1, <1>4, <1>5, <2>2, <2>4, <2>5, SameUsing
  <2>7. Locked(p)
    <3>2. \A j \in Inum : lock[j] = p <=> j \in {Main(s, g), None}
      BY <1>1, <1>7, Parts DEF Locks
    <3>3. Main(k'[p], r'[p]) = Main(s, g) /\ Dying(k'[p]) = i BY <2>2
    <3>4. lock \in [Inum -> Proc \cup {None}] BY Parts DEF TypeOK
    <3>1. Relocks(p, Main(s, g), i)
      BY <1>1, <1>2, <1>3, <1>7, <2>1, <2>3, <3>2, <3>3, <3>4, Constants DEF Relocks
    <3>. QED BY <3>1, Relocked
  <2>. QED BY <1>5, <1>6, <2>2, <2>6, <2>7, LinkingStep
<1>9. CASE ~LastRef(i)
  <2>1. UNCHANGED lock /\ Continue(p, <<Op("unref", i)>>)
    BY <1>1, <1>9 DEF iput
  <2>0. TopPuts(p, s, g, L, i, "unref") BY <1>1, <1>2, <1>3, <1>4, <2>1 DEF TopPuts, Putting
  <2>2. /\ Inside(p) /\ Referring /\ SameRoles(s, k'[p], g) /\ r'[p] = g /\ Dying(k'[p]) = None
        /\ Main(k'[p], r'[p]) = Main(s, g)
    BY <2>0, PuttingStep
  <2>4. Only(p) BY <2>2 DEF Inside
  <2>6. Using(p) BY <1>1, <1>4, <1>5, <2>2, <2>4, SameUsing
  <2>7. Locked(p)
    <3>1. Relocks(p, Main(s, g), None)
      BY <1>1, <1>2, <1>3, <1>7, <2>1, <2>2, Parts, Constants DEF Relocks, Locks, TypeOK
    <3>. QED BY <3>1, Relocked
  <2>. QED BY <1>5, <1>6, <2>2, <2>6, <2>7, LinkingStep
<1>. QED BY <1>8, <1>9

LEMMA ItruncStep == ASSUME FsInv, NEW p \in Proc, itrunc(p) PROVE FsInv'
<1>1. PICK s, g, L, i : s = k[p] /\ g = r[p] /\ L = Len(s) /\ i = Target(p) OBVIOUS
<1>2. /\ s # <<>> /\ L \in 1 .. 6 /\ Deep(s, L).op = "itrunc" /\ Deep(s, L).ip = i
      /\ i \in Inum /\ Head(s).op = "itrunc" /\ Head(s).ip = i
  BY <1>1, AtOp DEF itrunc, Owning, Putting
<1>3. i # None /\ Deep(s, L).op \in Putting BY <1>2, Constants DEF Putting
<1>4. UNCHANGED <<ref, r, outstanding, file, ofile, cwd>>
  BY DEF itrunc, Within
<1>5. d' = Freed(d, i) /\ valid' = [valid EXCEPT ![i] = FALSE] /\ lock' = [lock EXCEPT ![i] = None]
      /\ Continue(p, <<Op("unref", i)>>)
  BY <1>1 DEF itrunc
<1>6. Dying(s) = i BY <1>2 DEF Dying
<1>16. TopPuts(p, s, g, L, i, "unref") BY <1>1, <1>2, <1>3, <1>4, <1>5 DEF TopPuts, Putting
<1>7. /\ Inside(p) /\ Referring /\ SameRoles(s, k'[p], g) /\ r'[p] = g /\ Dying(k'[p]) = None
      /\ Main(k'[p], r'[p]) = Main(s, g)
  BY <1>16, PuttingStep
<1>8. Only(p) BY <1>7 DEF Inside
<1>9. /\ d' \in Disks /\ BlocksOwned'
      /\ \A j \in Inum : IF j = i THEN d'.ino[j] = FreeInode /\ d'.ent[j] = NoEntries
                         ELSE d'.ino[j] = d.ino[j] /\ d'.ent[j] = d.ent[j]
  BY <1>2, <1>5, Parts, FreedBlocks
<1>10. Forgotten(i) /\ i # Main(s, g)
  BY <1>1, <1>3, <1>6, Parts DEF InUse, Locks
<1>11. FreeInode.type = "none" BY DEF FreeInode
<1>12. valid' \in [Inum -> BOOLEAN] /\ \A j \in Inum : valid'[j] => j # i /\ Type(j) # "none"
  BY <1>5, Parts DEF TypeOK, InUse
<1>13. Changing(p)
  <2>1. \A j \in Inum : valid'[j] => d'.ino[j].type # "none" BY <1>9, <1>12 DEF Type
  <2>2. \A j \in Inum : d'.ino[j].type = "none" => d'.ino[j] = FreeInode /\ d'.ent[j] = NoEntries
    BY <1>9, Parts DEF InUse, Type
  <2>3. \A j \in Inum : j # Dying(k[p]) => d'.ino[j].type = d.ino[j].type
    BY <1>1, <1>6, <1>9
  <2>4. ASSUME NEW q \in Proc \ {p}, Fresh(k[q], r[q]) # None
        PROVE  d'.ino[Fresh(k[q], r[q])].addrs = d.ino[Fresh(k[q], r[q])].addrs
    <3>1. Fresh(k[q], r[q]) \in Inum
      <4>1. StackOK(k[q]) /\ r[q] \in Regs /\ cwd[q] \in Inum \cup {None} BY Here
      <4>. QED BY <2>4, <4>1, RolesTyped
    <3>2. Fresh(k[q], r[q]) # i BY <1>10 DEF Forgotten
    <3>. QED BY <3>1, <3>2, <1>9
  <2>. QED BY <2>1, <2>2, <2>3, <2>4, <1>9 DEF Changing
<1>14. Locked(p)
  <2>1. Relocks(p, Main(s, g), None)
    BY <1>1, <1>2, <1>3, <1>5, <1>6, <1>7, <1>10, Parts, Constants DEF Relocks, Locks, TypeOK
  <2>. QED BY <2>1, Relocked
<1>15. Using(p)
  <2>1. Known(s, g, cwd[p]) BY <1>1, Here
  <2>2. /\ CwdOwn(s, cwd[p]) \in Inum \cup {None} /\ NextCwd(s, g) \in Inum \cup {None}
        /\ Fresh(s, g) \in Inum \cup {None} /\ Main(s, g) \in Inum \cup {None}
    BY <1>1, Here, RolesTyped
  <2>3. i \notin {CwdOwn(s, cwd[p]), NextCwd(s, g), Fresh(s, g), Main(s, g)}
    BY <1>1, <1>10 DEF Forgotten
  <2>4. Known(k[p], r[p], cwd[p])'
    BY <2>1, <2>2, <2>3, <1>4, <1>7, <1>9 DEF Known, Type, IsDir, SameRoles
  <2>5. \A q \in Proc \ {p} : Fresh(s, g) # None => Fresh(s, g) # Fresh(k[q], r[q])
    BY <1>1, Parts DEF InUse
  <2>. QED BY <2>4, <2>5, <1>1, <1>4, <1>7, NobodysDying DEF Using, SameRoles
<1>. QED BY <1>7, <1>9, <1>12, <1>13, <1>14, <1>15, InsideStep

-----------------------------------------------------------------------------
(* A step that moves references between the places of a process.           *)

\* How many of its places have inode i.
Total(s, g, c, i) ==
    Is(OpOwn(s, 1), i) + Is(OpOwn(s, 2), i) + Is(OpOwn(s, 3), i) + Is(OpOwn(s, 4), i)
    + Is(OpOwn(s, 5), i) + Is(OpOwn(s, 6), i) + Is(IpOwn(s, g), i) + Is(OldOwn(s, g), i)
    + Is(DpOwn(s, g), i) + Is(CwdOwn(s, c), i)

LEMMA TotalType ==
    ASSUME NEW s, NEW g, NEW c, NEW i
    PROVE  Total(s, g, c, i) \in Nat
<1>1. \A u : Is(u, i) \in Nat BY DEF Is
<1>2. /\ Is(OpOwn(s, 1), i) \in Nat /\ Is(OpOwn(s, 2), i) \in Nat /\ Is(OpOwn(s, 3), i) \in Nat
      /\ Is(OpOwn(s, 4), i) \in Nat /\ Is(OpOwn(s, 5), i) \in Nat /\ Is(OpOwn(s, 6), i) \in Nat
      /\ Is(IpOwn(s, g), i) \in Nat /\ Is(OldOwn(s, g), i) \in Nat
      /\ Is(DpOwn(s, g), i) \in Nat /\ Is(CwdOwn(s, c), i) \in Nat
  BY <1>1
<1>. QED BY <1>2 DEF Total

Row(p) == {p} \X (1 .. 10)

RowSum(F, p, v) ==
    Is(F[<<p, 1>>], v) + Is(F[<<p, 2>>], v) + Is(F[<<p, 3>>], v) + Is(F[<<p, 4>>], v)
    + Is(F[<<p, 5>>], v) + Is(F[<<p, 6>>], v) + Is(F[<<p, 7>>], v) + Is(F[<<p, 8>>], v)
    + Is(F[<<p, 9>>], v) + Is(F[<<p, 10>>], v)

LEMMA RowOut ==
    ASSUME NEW D, IsFiniteSet(D), NEW F, NEW p, Row(p) \subseteq D, NEW v
    PROVE  /\ IsFiniteSet(D \ Row(p))
           /\ CountIn(D \ Row(p), F, v) \in Nat /\ RowSum(F, p, v) \in Nat
           /\ CountIn(D, F, v) = CountIn(D \ Row(p), F, v) + RowSum(F, p, v)
<1>1. \A S : IsFiniteSet(S) => \A y \in S : 
         IsFiniteSet(S \ {y}) /\ CountIn(S, F, v) = CountIn(S \ {y}, F, v) + Is(F[y], v)
  <2>. SUFFICES ASSUME NEW S, IsFiniteSet(S), NEW y \in S
       PROVE IsFiniteSet(S \ {y}) /\ CountIn(S, F, v) = CountIn(S \ {y}, F, v) + Is(F[y], v)
    OBVIOUS
  <2>1. IsFiniteSet(S \ {y}) BY FS_RemoveElement
  <2>2. Cardinality({x \in S : F[x] = v}) = Cardinality({x \in S \ {y} : F[x] = v}) + Is(F[y], v)
    BY CountOne
  <2>. QED BY <2>1, <2>2 DEF CountIn
<1>2. \A S : IsFiniteSet(S) => CountIn(S, F, v) \in Nat
  <2>. SUFFICES ASSUME NEW S, IsFiniteSet(S) PROVE CountIn(S, F, v) \in Nat OBVIOUS
  <2>1. IsFiniteSet({x \in S : F[x] = v}) BY FS_Subset
  <2>. QED BY <2>1, FS_CardinalityType DEF CountIn
<1>3. PICK D1, D2, D3, D4, D5, D6, D7, D8, D9, D10 :
         /\ D1 = D \ {<<p, 1>>} /\ D2 = D1 \ {<<p, 2>>} /\ D3 = D2 \ {<<p, 3>>}
         /\ D4 = D3 \ {<<p, 4>>} /\ D5 = D4 \ {<<p, 5>>} /\ D6 = D5 \ {<<p, 6>>}
         /\ D7 = D6 \ {<<p, 7>>} /\ D8 = D7 \ {<<p, 8>>} /\ D9 = D8 \ {<<p, 9>>}
         /\ D10 = D9 \ {<<p, 10>>}
  OBVIOUS
<1>4. /\ <<p, 1>> \in D /\ <<p, 2>> \in D1 /\ <<p, 3>> \in D2 /\ <<p, 4>> \in D3 /\ <<p, 5>> \in D4
      /\ <<p, 6>> \in D5 /\ <<p, 7>> \in D6 /\ <<p, 8>> \in D7 /\ <<p, 9>> \in D8 /\ <<p, 10>> \in D9
  BY <1>3 DEF Row
<1>5. D10 = D \ Row(p)
  <2>1. \A n : n \in 1 .. 10 <=> n \in {1, 2, 3, 4, 5, 6, 7, 8, 9, 10} OBVIOUS
  <2>2. Row(p) = {<<p, 1>>, <<p, 2>>, <<p, 3>>, <<p, 4>>, <<p, 5>>, <<p, 6>>, <<p, 7>>, <<p, 8>>,
                  <<p, 9>>, <<p, 10>>}
    BY <2>1 DEF Row
  <2>. QED BY <1>3, <2>2
<1>6. IsFiniteSet(D1) /\ CountIn(D, F, v) = CountIn(D1, F, v) + Is(F[<<p, 1>>], v)
  BY <1>1, <1>3, <1>4
<1>7. IsFiniteSet(D2) /\ CountIn(D1, F, v) = CountIn(D2, F, v) + Is(F[<<p, 2>>], v)
  BY <1>1, <1>3, <1>4, <1>6
<1>8. IsFiniteSet(D3) /\ CountIn(D2, F, v) = CountIn(D3, F, v) + Is(F[<<p, 3>>], v)
  BY <1>1, <1>3, <1>4, <1>7
<1>9. IsFiniteSet(D4) /\ CountIn(D3, F, v) = CountIn(D4, F, v) + Is(F[<<p, 4>>], v)
  BY <1>1, <1>3, <1>4, <1>8
<1>10. IsFiniteSet(D5) /\ CountIn(D4, F, v) = CountIn(D5, F, v) + Is(F[<<p, 5>>], v)
  BY <1>1, <1>3, <1>4, <1>9
<1>11. IsFiniteSet(D6) /\ CountIn(D5, F, v) = CountIn(D6, F, v) + Is(F[<<p, 6>>], v)
  BY <1>1, <1>3, <1>4, <1>10
<1>12. IsFiniteSet(D7) /\ CountIn(D6, F, v) = CountIn(D7, F, v) + Is(F[<<p, 7>>], v)
  BY <1>1, <1>3, <1>4, <1>11
<1>13. IsFiniteSet(D8) /\ CountIn(D7, F, v) = CountIn(D8, F, v) + Is(F[<<p, 8>>], v)
  BY <1>1, <1>3, <1>4, <1>12
<1>14. IsFiniteSet(D9) /\ CountIn(D8, F, v) = CountIn(D9, F, v) + Is(F[<<p, 9>>], v)
  BY <1>1, <1>3, <1>4, <1>13
<1>15. IsFiniteSet(D10) /\ CountIn(D9, F, v) = CountIn(D10, F, v) + Is(F[<<p, 10>>], v)
  <2>1. IsFiniteSet(D9) /\ <<p, 10>> \in D9 /\ D10 = D9 \ {<<p, 10>>} BY <1>3, <1>4, <1>14
  <2>. QED BY <1>1, <2>1
<1>16. CountIn(D10, F, v) \in Nat BY <1>2, <1>15
<1>17. \A u : Is(u, v) \in Nat BY DEF Is
<1>18. PICK a1, a2, a3, a4, a5, a6, a7, a8, a9, a10 :
         /\ a1 = Is(F[<<p, 1>>], v) /\ a2 = Is(F[<<p, 2>>], v) /\ a3 = Is(F[<<p, 3>>], v)
         /\ a4 = Is(F[<<p, 4>>], v) /\ a5 = Is(F[<<p, 5>>], v) /\ a6 = Is(F[<<p, 6>>], v)
         /\ a7 = Is(F[<<p, 7>>], v) /\ a8 = Is(F[<<p, 8>>], v) /\ a9 = Is(F[<<p, 9>>], v)
         /\ a10 = Is(F[<<p, 10>>], v)
  OBVIOUS
<1>19. /\ a1 \in Nat /\ a2 \in Nat /\ a3 \in Nat /\ a4 \in Nat /\ a5 \in Nat
       /\ a6 \in Nat /\ a7 \in Nat /\ a8 \in Nat /\ a9 \in Nat /\ a10 \in Nat
  BY <1>17, <1>18
<1>20. RowSum(F, p, v) = a1 + a2 + a3 + a4 + a5 + a6 + a7 + a8 + a9 + a10
  BY <1>18 DEF RowSum
<1>21. CountIn(D5, F, v) = CountIn(D10, F, v) + a6 + a7 + a8 + a9 + a10
  BY <1>11, <1>12, <1>13, <1>14, <1>15, <1>16, <1>18, <1>19
<1>22. CountIn(D, F, v) = CountIn(D10, F, v) + RowSum(F, p, v)
  BY <1>6, <1>7, <1>8, <1>9, <1>10, <1>16, <1>18, <1>19, <1>20, <1>21
<1>. QED BY <1>5, <1>15, <1>16, <1>19, <1>20, <1>22

\* The places of p account for the counts, and those of the files are the same.
Balanced(p, s, g, t, h) ==
    /\ Only(p) /\ \A q \in Proc \ {p} : cwd'[q] = cwd[q]
    /\ \A f \in File : file'[f].ip = file[f].ip
    /\ s = k[p] /\ g = r[p] /\ t = k'[p] /\ h = r'[p] /\ ref' \in [Inum -> Nat]
    /\ \A i \in Inum : ref'[i] + Total(s, g, cwd[p], i) = ref[i] + Total(t, h, cwd'[p], i)

LEMMA BalancedRefs ==
    ASSUME TypeOK, Counts, NEW p \in Proc, NEW s, NEW g, NEW t, NEW h, Balanced(p, s, g, t, h)
    PROVE  Referring
<1>0. /\ Only(p) /\ \A q \in Proc \ {p} : cwd'[q] = cwd[q]
      /\ \A f \in File : file'[f].ip = file[f].ip
      /\ s = k[p] /\ g = r[p] /\ t = k'[p] /\ h = r'[p] /\ ref' \in [Inum -> Nat]
      /\ \A i \in Inum : ref'[i] + Total(s, g, cwd[p], i) = ref[i] + Total(t, h, cwd'[p], i)
  BY DEF Balanced
<1>1. PICK D, F, G : D = DOMAIN Owned /\ F = Owned /\ G = Owned' OBVIOUS
<1>2. DOMAIN Owned' = D BY <1>1 DEF Owned
<1>3. IsFiniteSet(D) BY <1>1, OwnersFinite
<1>4. Row(p) \subseteq D BY <1>1 DEF Row, Owned
<1>5. ASSUME NEW x \in D \ Row(p) PROVE F[x] = G[x]
  <2>1. CASE x[1] = 0
    <3>1. x[2] \in File BY <1>1, <2>1, Constants DEF Owned
    <3>. QED BY <1>0, <1>1, <2>1, <3>1 DEF Owned
  <2>2. CASE x[1] # 0
    <3>1. x[1] \in Proc /\ x[2] \in 1 .. 10 /\ x = <<x[1], x[2]>> BY <1>1, <2>2 DEF Owned
    <3>2. x[1] # p BY <1>5, <3>1 DEF Row
    <3>3. F[x] = OwnOf(k[x[1]], r[x[1]], cwd[x[1]])[x[2]] BY <1>1, <2>2 DEF Owned
    <3>4. G[x] = OwnOf(k'[x[1]], r'[x[1]], cwd'[x[1]])[x[2]] BY <1>1, <2>2 DEF Owned
    <3>. QED BY <1>0, <3>1, <3>2, <3>3, <3>4 DEF Only
  <2>. QED BY <2>1, <2>2
<1>6. ASSUME NEW i \in Inum PROVE ref'[i] = Count(Owned, i)'
  <2>1. {x \in D \ Row(p) : F[x] = i} = {x \in D \ Row(p) : G[x] = i} BY <1>5
  <2>2. PICK e : e = CountIn(D \ Row(p), F, i) /\ e = CountIn(D \ Row(p), G, i)
    BY <2>1 DEF CountIn
  <2>3. ASSUME NEW n \in 1 .. 10
        PROVE  /\ F[<<p, n>>] = OwnOf(s, g, cwd[p])[n]
               /\ G[<<p, n>>] = OwnOf(t, h, cwd'[p])[n]
    <3>1. p # 0 BY Constants
    <3>. QED BY <3>1, <1>0, <1>1 DEF Owned
  <2>4. e \in Nat /\ CountIn(D, F, i) = e + Total(s, g, cwd[p], i)
    <3>1. /\ F[<<p, 1>>] = OpOwn(s, 1) /\ F[<<p, 2>>] = OpOwn(s, 2) /\ F[<<p, 3>>] = OpOwn(s, 3)
          /\ F[<<p, 4>>] = OpOwn(s, 4) /\ F[<<p, 5>>] = OpOwn(s, 5) /\ F[<<p, 6>>] = OpOwn(s, 6)
          /\ F[<<p, 7>>] = IpOwn(s, g) /\ F[<<p, 8>>] = OldOwn(s, g)
          /\ F[<<p, 9>>] = DpOwn(s, g) /\ F[<<p, 10>>] = CwdOwn(s, cwd[p])
      BY <2>3, Slots
    <3>2. e \in Nat /\ CountIn(D, F, i) = e + RowSum(F, p, i)
      <4>1. /\ CountIn(D \ Row(p), F, i) \in Nat
            /\ CountIn(D, F, i) = CountIn(D \ Row(p), F, i) + RowSum(F, p, i)
        BY <1>3, <1>4, RowOut
      <4>. QED BY <4>1, <2>2
    <3>3. RowSum(F, p, i) = Total(s, g, cwd[p], i) BY <3>1 DEF RowSum, Total
    <3>. QED BY <3>2, <3>3
  <2>5. CountIn(D, G, i) = e + Total(t, h, cwd'[p], i)
    <3>1. /\ G[<<p, 1>>] = OpOwn(t, 1) /\ G[<<p, 2>>] = OpOwn(t, 2) /\ G[<<p, 3>>] = OpOwn(t, 3)
          /\ G[<<p, 4>>] = OpOwn(t, 4) /\ G[<<p, 5>>] = OpOwn(t, 5) /\ G[<<p, 6>>] = OpOwn(t, 6)
          /\ G[<<p, 7>>] = IpOwn(t, h) /\ G[<<p, 8>>] = OldOwn(t, h)
          /\ G[<<p, 9>>] = DpOwn(t, h) /\ G[<<p, 10>>] = CwdOwn(t, cwd'[p])
      BY <2>3, Slots
    <3>2. e \in Nat /\ CountIn(D, G, i) = e + RowSum(G, p, i) BY <1>3, <1>4, <2>2, RowOut
    <3>3. RowSum(G, p, i) = Total(t, h, cwd'[p], i) BY <3>1 DEF RowSum, Total
    <3>. QED BY <3>2, <3>3
  <2>6. ref[i] = CountIn(D, F, i) BY <1>1 DEF Counts, Count, CountIn
  <2>7. Count(Owned, i)' = CountIn(D, G, i) BY <1>1, <1>2 DEF Count, CountIn
  <2>8. Total(s, g, cwd[p], i) \in Nat /\ Total(t, h, cwd'[p], i) \in Nat
    BY TotalType
  <2>9. ref'[i] \in Nat /\ ref'[i] + Total(s, g, cwd[p], i) = ref[i] + Total(t, h, cwd'[p], i)
    BY <1>0
  <2>. QED BY <2>4, <2>5, <2>6, <2>7, <2>8, <2>9
<1>. QED BY <1>0, <1>6 DEF Referring

\* The call of p goes on from stack s and local variables g to t and h.
Goes(p, s, g, t, h) ==
    /\ s = k[p] /\ g = r[p] /\ t = k'[p] /\ h = r'[p] /\ Only(p)
    /\ s # <<>> /\ StackOK(t) /\ RegsOK(t, h)
    /\ InTransaction(s) /\ InTransaction(t) /\ ~Busy(t)
    /\ Closed(t, h) => Closed(s, g)
    /\ Within

\* It gets hold of inodes in its new roles that nobody is about to free.
Careful(p, s, g, t, h, c) ==
    /\ Dying(t) = None
    /\ \A i \in Inum : i \in {CwdOwn(t, c), NextCwd(t, h), Fresh(t, h)} =>
          \/ i \in {CwdOwn(s, c), NextCwd(s, g), Fresh(s, g)}
          \/ lock[i] \in {None, p}
    /\ Fresh(t, h) \in {None, Fresh(s, g)}

LEMMA CarefulUsing ==
    ASSUME FsInv, NEW p \in Proc, NEW s, NEW g, NEW t, NEW h, NEW c, c = cwd[p],
           Goes(p, s, g, t, h), Careful(p, s, g, t, h, c), Known(k[p], r[p], cwd[p])'
    PROVE  Using(p)
<1>1. /\ s = k[p] /\ g = r[p] /\ t = k'[p] /\ h = r'[p] /\ cwd'[p] = c /\ StackOK(t) /\ h \in Regs
      /\ c \in Inum \cup {None}
  BY Here DEF Goes, Within, RegsOK
<1>2. Dying(t) = None /\ Fresh(t, h) \in {None, Fresh(s, g)} BY DEF Careful
<1>3. CwdOwn(t, c) \in Inum \cup {None} /\ NextCwd(t, h) \in Inum \cup {None} 
      /\ Fresh(t, h) \in Inum \cup {None}
  BY <1>1, RolesTyped
<1>4. ASSUME NEW q \in Proc \ {p}, Dying(k[q]) # None
      PROVE  Dying(k[q]) \notin {CwdOwn(t, c), NextCwd(t, h), Fresh(t, h)}
  <2>1. Dying(k[q]) \in Inum
    <3>1. StackOK(k[q]) /\ r[q] \in Regs /\ cwd[q] \in Inum \cup {None} BY Here
    <3>. QED BY <3>1, <1>4, RolesTyped
  <2>2. lock[Dying(k[q])] = q BY <2>1, Parts DEF Locks
  <2>3. q # None BY Constants
  <2>4. Dying(k[q]) \notin {CwdOwn(s, c), NextCwd(s, g), Fresh(s, g)}
    BY <1>1, <1>4, NobodysDying
  <2>. QED BY <2>1, <2>2, <2>3, <2>4 DEF Careful
<1>5. \A q \in Proc \ {p} : Fresh(t, h) # None => Fresh(t, h) # Fresh(k[q], r[q])
  BY <1>1, <1>2, Parts DEF InUse
<1>. QED BY <1>1, <1>2, <1>4, <1>5 DEF Using

LEMMA GoesInside ==
    ASSUME NEW p \in Proc, NEW s, NEW g, NEW t, NEW h, Goes(p, s, g, t, h)
    PROVE  Inside(p) /\ Only(p)
BY DEF Goes, Inside, Within

\* A step that changes at most entries and links on the disk.
Reads(p, s, g, t, h) ==
    /\ Goes(p, s, g, t, h) /\ Balanced(p, s, g, t, h) /\ Relocks(p, Main(t, h), None)
    /\ Linking /\ Careful(p, s, g, t, h, cwd[p]) /\ Known(t, h, cwd[p])
    /\ valid' \in [Inum -> BOOLEAN] /\ \A i \in Inum : valid'[i] => Type(i) # "none"

LEMMA SameKnown ==
    ASSUME NEW s, NEW g, NEW c, Known(s, g, c), Linking, StackOK(s), g \in Regs, c \in Inum \cup {None}
    PROVE  Known(s, g, c)'
<1>1. /\ CwdOwn(s, c) \in Inum \cup {None} /\ NextCwd(s, g) \in Inum \cup {None}
      /\ Fresh(s, g) \in Inum \cup {None} /\ Main(s, g) \in Inum \cup {None}
  BY RolesTyped
<1>2. g.ip \in Inum \cup {None} BY DEF Regs
<1>3. \A i \in Inum : d'.ino[i].type = d.ino[i].type /\ d'.ino[i].addrs = d.ino[i].addrs
  BY DEF Linking
<1>. QED BY <1>1, <1>2, <1>3 DEF Known, Type, IsDir

LEMMA ReadsStep ==
    ASSUME FsInv, NEW p \in Proc, NEW s, NEW g, NEW t, NEW h, Reads(p, s, g, t, h)
    PROVE  FsInv'
<1>1. Inside(p) /\ Only(p) BY GoesInside DEF Reads
<1>2. Referring BY Parts, BalancedRefs DEF Reads
<1>3. Locked(p) BY Relocked DEF Reads
<1>4. Using(p)
  <2>1. PICK c : c = cwd[p] OBVIOUS
  <2>2. /\ t = k'[p] /\ h = r'[p] /\ cwd'[p] = c /\ StackOK(t) /\ h \in Regs
        /\ c \in Inum \cup {None}
    BY <2>1, Here DEF Reads, Goes, Within, RegsOK
  <2>3. Known(t, h, c)' BY <2>1, <2>2, SameKnown DEF Reads
  <2>4. Known(k[p], r[p], cwd[p])' BY <2>2, <2>3
  <2>. QED BY <2>1, <2>4, CarefulUsing DEF Reads
<1>. QED BY <1>1, <1>2, <1>3, <1>4, LinkingStep DEF Reads

-----------------------------------------------------------------------------
(* The steps that walk a path, and those that make or remove entries.      *)

\* What the lock of inode i, and a reference to another one, do to the cache.
Cached(p, i, keep, got) ==
    /\ ref' \in [Inum -> Nat] /\ \A j \in Inum : ref'[j] = ref[j] + Is(got, j)
    /\ valid' \in [Inum -> BOOLEAN] /\ \A j \in Inum : valid'[j] => Type(j) # "none"
    /\ lock' \in [Inum -> Proc \cup {None}]
    /\ \A j \in Inum : lock'[j] = IF j # i THEN lock[j] ELSE IF keep THEN p ELSE None

LEMMA Ilocked ==
    ASSUME FsInv, NEW p \in Proc, NEW i \in Inum, NEW keep, NEW got \in Inum \cup {None},
           Type(i) # "none", ilock(p, i, keep, got)
    PROVE  Cached(p, i, keep, got)
<1>1. /\ ref \in [Inum -> Nat] /\ valid \in [Inum -> BOOLEAN] /\ lock \in [Inum -> Proc \cup {None}]
      /\ \A j \in Inum : valid[j] => Type(j) # "none"
  BY Parts DEF TypeOK, InUse
<1>2. /\ lock' \in [Inum -> Proc \cup {None}]
      /\ \A j \in Inum : lock'[j] = IF j # i THEN lock[j] ELSE IF keep THEN p ELSE None
  BY <1>1 DEF ilock
<1>3. valid' \in [Inum -> BOOLEAN] /\ \A j \in Inum : valid'[j] => Type(j) # "none"
  BY <1>1 DEF ilock
<1>4. ref' \in [Inum -> Nat] /\ \A j \in Inum : ref'[j] = ref[j] + Is(got, j)
  <2>1. CASE got = None BY <2>1, <1>1, Constants DEF ilock, Is
  <2>2. CASE got # None BY <2>2, <1>1 DEF ilock, Is
  <2>. QED BY <2>1, <2>2
<1>. QED BY <1>2, <1>3, <1>4 DEF Cached

\* What a lookup finds.
LEMMA Lookup ==
    ASSUME TypeOK, NEW i \in Inum, NEW n \in Name
    PROVE  Found(i, n) \in Inum \cup {None}
BY DEF TypeOK, Disks, Found

\* A step that locks inode i, for as long as it takes or to keep it.
Ilocks(p, s, g, t, h, c, i, keep, got) ==
    /\ Goes(p, s, g, t, h) /\ c = cwd[p] /\ lock[i] = None /\ Cached(p, i, keep, got)
    /\ Linking /\ Careful(p, s, g, t, h, c) /\ Known(t, h, c) /\ Dying(s) = None
    /\ IF keep THEN Main(s, g) = None /\ Main(t, h) = i ELSE Main(t, h) = Main(s, g)
    /\ \A j \in Inum : Total(t, h, c, j) = Total(s, g, c, j) + Is(got, j)

LEMMA IlocksStep ==
    ASSUME FsInv, NEW p \in Proc, NEW s, NEW g, NEW t, NEW h, NEW c, NEW i \in Inum, NEW keep,
           NEW got, Ilocks(p, s, g, t, h, c, i, keep, got)
    PROVE  FsInv'
<1>1. /\ s = k[p] /\ g = r[p] /\ t = k'[p] /\ h = r'[p] /\ c = cwd[p] /\ Only(p) /\ Within
  BY DEF Ilocks, Goes
<1>2. Balanced(p, s, g, t, h)
  <2>1. ASSUME NEW j \in Inum
        PROVE  ref'[j] + Total(s, g, c, j) = ref[j] + Total(t, h, c, j)
    <3>1. Total(s, g, c, j) \in Nat BY TotalType
    <3>2. ref[j] \in Nat /\ Is(got, j) \in Nat BY Parts DEF TypeOK, Is
    <3>3. ref'[j] = ref[j] + Is(got, j) BY DEF Ilocks, Cached
    <3>4. Total(t, h, c, j) = Total(s, g, c, j) + Is(got, j) BY DEF Ilocks
    <3>. QED BY <3>1, <3>2, <3>3, <3>4
  <2>. QED BY <1>1, <2>1 DEF Balanced, Within, Ilocks, Cached
<1>3. Relocks(p, Main(t, h), None)
  <2>1. \A j \in Inum : lock[j] = p <=> j \in {Main(s, g), None} BY <1>1, Parts DEF Locks, Ilocks
  <2>2. /\ Dying(s) = None /\ Dying(t) = None /\ lock[i] = None
        /\ lock' \in [Inum -> Proc \cup {None}]
        /\ \A j \in Inum : lock'[j] = IF j # i THEN lock[j] ELSE IF keep THEN p ELSE None
        /\ IF keep THEN Main(s, g) = None /\ Main(t, h) = i ELSE Main(t, h) = Main(s, g)
    BY DEF Ilocks, Cached, Careful
  <2>3. Main(k'[p], r'[p]) = Main(t, h) /\ Dying(k'[p]) = None
        /\ Main(k[p], r[p]) = Main(s, g) /\ Dying(k[p]) = None
    BY <1>1, <2>2
  <2>4. CASE keep BY <2>1, <2>2, <2>3, <2>4, Constants DEF Relocks
  <2>5. CASE ~keep BY <2>1, <2>2, <2>3, <2>5, Constants DEF Relocks
  <2>. QED BY <2>4, <2>5
<1>4. Reads(p, s, g, t, h)
  BY <1>1, <1>2, <1>3 DEF Reads, Ilocks, Cached
<1>. QED BY <1>4, ReadsStep

LEMMA MoreToWalk ==
    ASSUME NEW S, NEW w \in Seq(S), w # <<>>, Len(w) # 1
    PROVE  Tail(w) # <<>>
<1>1. PICK n, e : n = Len(w) /\ e = Tail(w) OBVIOUS
<1>2. Len(e) = n - 1 /\ n \in Nat BY <1>1, HeadTailProperties, LenProperties
<1>3. Len(<<>>) = 0 OBVIOUS
<1>4. n # 1 BY <1>1
<1>5. n - 1 # 0 BY <1>2, <1>4
<1>6. e # <<>> BY <1>2, <1>3, <1>5
<1>. QED BY <1>1, <1>6

LEMMA Joined ==
    \A x, y : <<x>> \o <<y>> = <<x, y>> /\ <<x>> \o <<>> = <<x>>
<1>. SUFFICES ASSUME NEW x, NEW y PROVE <<x>> \o <<y>> = <<x, y>> /\ <<x>> \o <<>> = <<x>>
  OBVIOUS
<1>1. PICK S : S = {x, y} OBVIOUS
<1>2. x \in S /\ y \in S BY <1>1
<1>. QED BY <1>2, Two

LEMMA WalkStep == ASSUME FsInv, NEW p \in Proc, walk(p) PROVE FsInv'
<1>1. PICK s, g, L, i, c, t, h : /\ s = k[p] /\ g = r[p] /\ L = Len(s) /\ i = Target(p) /\ c = cwd[p]
                                /\ t = k'[p] /\ h = r'[p]
  OBVIOUS
<1>2. /\ s # <<>> /\ Deep(s, L).op = "walk" /\ Deep(s, L).ip = i /\ i \in Inum /\ Head(s).op = "walk"
      /\ Type(i) # "none" /\ lock[i] = None /\ Fits("walk", L, Deep(s, L - 1).op)
  <2>1. At(p, "walk") /\ CanLock(p, "walk") /\ "walk" \in Naming BY LockAt DEF walk, Naming
  <2>. QED BY <2>1, <1>1, AtOp, LockAt
<1>3. StackOK(s) /\ RegsOK(s, g) /\ Layers(s, L) /\ g \in Regs /\ Known(s, g, c) /\ c \in Inum
  BY <1>1, <1>2, Here
<1>4. L \in 3 .. 4 BY <1>2 DEF Fits, Putting
<1>5. g.ip = i /\ g.path # <<>> /\ g.path \in Seq(Name) /\ i # None
  BY <1>2, <1>3, <1>4, Constants DEF RegsOK, Regs
<1>6. PICK a, b : /\ a = Head(g.path) /\ b = Tail(g.path) OBVIOUS
<1>7. a \in Name /\ b \in Seq(Name)
  <2>1. g.path \in Seq(Name) /\ g.path # <<>> BY <1>5
  <2>2. Head(g.path) \in Name /\ Tail(g.path) \in Seq(Name) BY <2>1, HeadTailProperties
  <2>. QED BY <2>2, <1>6
<1>8. PICK stop, next : 
        /\ stop = (IsDir(i) /\ g.parent /\ Len(g.path) = 1)
        /\ next = IF IsDir(i) /\ ~stop THEN Found(i, a) ELSE None
  OBVIOUS
<1>9. next \in Inum \cup {None}
  <2>1. Found(i, a) \in Inum \cup {None} BY <1>2, <1>7, Lookup, Parts
  <2>. QED BY <2>1, <1>8
<1>10. /\ ilock(p, i, FALSE, next) /\ UNCHANGED d /\ Within
       /\ r' = [r EXCEPT ![p].path = b, ![p].name = a, ![p].ip = IF stop THEN i ELSE next]
       /\ Continue(p, IF stop THEN <<>>
                      ELSE <<Op("iput", i)>> \o
                           (IF next = None \/ Len(g.path) = 1 THEN <<>> ELSE <<Op("walk", next)>>))
  BY <1>1, <1>6, <1>8 DEF walk
<1>11. Regular(p) /\ h = [g EXCEPT !.path = b, !.name = a, !.ip = IF stop THEN i ELSE next]
  BY <1>1, <1>10, Here DEF Regular
<1>12. Cached(p, i, FALSE, next) BY <1>2, <1>9, <1>10, Ilocked
<1>13. Linking BY <1>10, Parts, NothingLinked
<1>14. h \in Regs /\ h.path = b /\ h.ip = (IF stop THEN i ELSE next) /\ h.old = g.old /\ h.dp = g.dp
       /\ h.type = g.type /\ h.writable = g.writable
  <2>1. PICK v : v = (IF stop THEN i ELSE next) OBVIOUS
  <2>2. v \in Inum \cup {None} BY <1>2, <1>9, <2>1
  <2>3. h = [g EXCEPT !.path = b, !.name = a, !.ip = v] BY <1>11, <2>1
  <2>4. h \in Regs BY <1>3, <1>7, <2>2, <2>3 DEF Regs
  <2>. QED BY <1>3, <2>1, <2>3, <2>4 DEF Regs
<1>15. CASE stop
  <2>1. Continue(p, <<>>) BY <1>10, <1>15
  <2>2. Only(p) /\ Popped(s, t, L) BY <2>1, <1>1, <1>2, <1>11, Continue0
  <2>3. StackOK(t) /\ Layers(t, L - 1) /\ \A m \in 1 .. 6 : Deep(t, m) = IF m = L THEN NoOp ELSE Deep(s, m)
    BY <2>2 DEF Popped
  <2>4. /\ Deep(t, 1) = Deep(s, 1) /\ Deep(t, 2) = Deep(s, 2)
        /\ Deep(t, 3) = (IF L = 3 THEN NoOp ELSE Deep(s, 3))
        /\ Deep(t, 4) = NoOp /\ Deep(t, 5) = NoOp /\ Deep(t, 6) = NoOp
    BY <2>3, <1>3, <1>4 DEF Layers, Layer
  <2>5. RegsOK(t, h)
    BY <1>2, <1>3, <1>4, <1>14, <1>15, <2>3, <2>4 DEF RegsOK, Layers, Layer, Fits, NoOp, Op, Putting
  <2>6. /\ t # <<>> /\ InTransaction(s) /\ InTransaction(t) /\ ~Busy(t) /\ ~Closed(t, h)
        /\ Dying(s) = None /\ Dying(t) = None /\ Main(s, g) = None /\ Main(t, h) = None
        /\ NextCwd(t, h) = None /\ Fresh(t, h) = None /\ CwdOwn(t, c) = CwdOwn(s, c)
    BY <1>2, <1>3, <1>4, <2>3, <2>4 DEF Layers, Layer, Fits, NoOp, Op, Putting,
       InTransaction, Busy, Closed, Leaving, Main, Dying, NextCwd, Fresh, CwdOwn
  <2>7. Goes(p, s, g, t, h)
    BY <1>1, <1>2, <1>10, <2>2, <2>3, <2>5, <2>6 DEF Goes
  <2>8. Careful(p, s, g, t, h, c) /\ Known(t, h, c)
    BY <1>3, <2>6, Constants DEF Careful, Known
  <2>9. next = None BY <1>8, <1>15
  <2>10. ASSUME NEW j \in Inum PROVE Total(t, h, c, j) = Total(s, g, c, j) + Is(next, j)
    BY <1>2, <1>3, <1>4, <1>5, <1>14, <1>15, <2>4, <2>6, <2>9, Constants 
    DEF Total, Is, OpOwn, IpOwn, OldOwn, DpOwn, Owning, Layers, Layer, NoOp, Op, Fits, Putting
  <2>11. Ilocks(p, s, g, t, h, c, i, FALSE, next)
    BY <1>1, <1>2, <1>12, <1>13, <2>6, <2>7, <2>8, <2>10 DEF Ilocks
  <2>. QED BY <1>2, <2>11, IlocksStep
<1>16. CASE ~stop /\ (next = None \/ Len(g.path) = 1)
  <2>1. Continue(p, <<Op("iput", i)>>)
    <3>1. <<Op("iput", i)>> \o <<>> = <<Op("iput", i)>> BY Joined
    <3>. QED BY <3>1, <1>10, <1>16
  <2>0. OpOK(Op("iput", i)) /\ Fits("iput", L, Deep(s, L - 1).op)
    BY <1>2, <1>3, <1>4 DEF OpOK, OpType, Op, Owning, Putting, Operations, Locking, Fits, Inum
  <2>2. Only(p) /\ Swapped(s, t, L, Op("iput", i))
    BY <2>0, <2>1, <1>1, <1>2, <1>11, Continue1 DEF Op
  <2>3. StackOK(t) /\ Layers(t, L) /\ \A m \in 1 .. 6 : Deep(t, m) = IF m = L THEN Op("iput", i) ELSE Deep(s, m)
    BY <2>2 DEF Swapped
  <2>4. /\ Deep(t, 1) = Deep(s, 1) /\ Deep(t, 2) = Deep(s, 2)
        /\ Deep(t, 3) = (IF L = 3 THEN Op("iput", i) ELSE Deep(s, 3))
        /\ Deep(t, 4) = (IF L = 4 THEN Op("iput", i) ELSE NoOp)
        /\ Deep(t, 5) = NoOp /\ Deep(t, 6) = NoOp
    BY <2>3, <1>3, <1>4 DEF Layers, Layer
  <2>5. RegsOK(t, h)
    BY <1>2, <1>3, <1>4, <1>9, <1>14, <1>16, <2>3, <2>4 DEF RegsOK, Layers, Layer, Fits, NoOp, Op, Putting
  <2>6. /\ t # <<>> /\ InTransaction(s) /\ InTransaction(t) /\ ~Busy(t) /\ ~Closed(t, h)
        /\ Dying(s) = None /\ Dying(t) = None /\ Main(s, g) = None /\ Main(t, h) = None
        /\ NextCwd(t, h) = None /\ Fresh(t, h) = None /\ CwdOwn(t, c) = CwdOwn(s, c)
    BY <1>2, <1>3, <1>4, <2>3, <2>4 DEF Layers, Layer, Fits, NoOp, Op, Putting,
       InTransaction, Busy, Closed, Leaving, Main, Dying, NextCwd, Fresh, CwdOwn
  <2>7. Goes(p, s, g, t, h)
    BY <1>1, <1>2, <1>10, <2>2, <2>3, <2>5, <2>6 DEF Goes
  <2>8. Careful(p, s, g, t, h, c) /\ Known(t, h, c)
    BY <1>3, <2>6, Constants DEF Careful, Known
  <2>10. ASSUME NEW j \in Inum PROVE Total(t, h, c, j) = Total(s, g, c, j) + Is(next, j)
    BY <1>2, <1>3, <1>4, <1>5, <1>14, <1>16, <2>4, <2>6, Constants 
    DEF Total, Is, OpOwn, IpOwn, OldOwn, DpOwn, Owning, Layers, Layer, NoOp, Op, Fits, Putting
  <2>11. Ilocks(p, s, g, t, h, c, i, FALSE, next)
    BY <1>1, <1>2, <1>12, <1>13, <2>6, <2>7, <2>8, <2>10 DEF Ilocks
  <2>. QED BY <1>2, <2>11, IlocksStep
<1>17. CASE ~stop /\ next # None /\ Len(g.path) # 1
  <2>1. Continue(p, <<Op("iput", i), Op("walk", next)>>)
    <3>1. <<Op("iput", i)>> \o <<Op("walk", next)>> = <<Op("iput", i), Op("walk", next)>> BY Joined
    <3>. QED BY <3>1, <1>10, <1>17
  <2>0. OpOK(Op("iput", i)) /\ OpOK(Op("walk", next)) 
        /\ Fits("iput", L + 1, "walk") /\ Fits("walk", L, Deep(s, L - 1).op)
    BY <1>2, <1>3, <1>4, <1>9, <1>17
    DEF OpOK, OpType, Op, Owning, Naming, Putting, Operations, Locking, Fits, Inum
  <2>2. Only(p) /\ Pushed(s, t, L, Op("iput", i), Op("walk", next))
    <3>1. PICK x, y : x = Op("iput", i) /\ y = Op("walk", next) OBVIOUS
    <3>2. x.op = "iput" /\ y.op = "walk" BY <3>1 DEF Op
    <3>3. /\ OpOK(x) /\ OpOK(y) /\ L < 6 /\ k[p] # <<>>
          /\ Fits(y.op, L, Deep(s, L - 1).op) /\ Fits(x.op, L + 1, y.op)
      <4>1. L < 6 BY <1>4
      <4>5. k[p] # <<>> BY <1>1, <1>2
      <4>2. OpOK(x) /\ OpOK(y) BY <2>0, <3>1
      <4>3. Fits(y.op, L, Deep(s, L - 1).op) BY <2>0, <3>2
      <4>4. Fits(x.op, L + 1, y.op) BY <2>0, <3>2
      <4>. QED BY <4>1, <4>2, <4>3, <4>4, <4>5
    <3>5. Continue(p, <<x, y>>) BY <2>1, <3>1 DEF Continue
    <3>4. Only(p) /\ Pushed(s, t, L, x, y) BY <1>1, <1>11, <3>3, <3>5, Continue2
    <3>. QED BY <3>1, <3>4
  <2>3. StackOK(t) /\ Layers(t, L + 1) /\ \A m \in 1 .. 6 : Deep(t, m) = 
           IF m = L + 1 THEN Op("iput", i) ELSE IF m = L THEN Op("walk", next) ELSE Deep(s, m)
    BY <2>2 DEF Pushed
  <2>4. /\ Deep(t, 1) = Deep(s, 1) /\ Deep(t, 2) = Deep(s, 2)
        /\ Deep(t, 3) = (IF L = 3 THEN Op("walk", next) ELSE Deep(s, 3))
        /\ Deep(t, 4) = (IF L = 4 THEN Op("walk", next) ELSE Op("iput", i))
        /\ Deep(t, 5) = (IF L = 4 THEN Op("iput", i) ELSE NoOp) /\ Deep(t, 6) = NoOp
    BY <2>3, <1>3, <1>4 DEF Layers, Layer
  <2>12. b # <<>>
    BY <1>5, <1>6, <1>17, MoreToWalk
  <2>5. RegsOK(t, h)
    BY <1>2, <1>3, <1>4, <1>9, <1>14, <1>17, <2>12, <2>3, <2>4 DEF RegsOK, Layers, Layer, Fits, NoOp, Op, Putting
  <2>6. /\ t # <<>> /\ InTransaction(s) /\ InTransaction(t) /\ ~Busy(t) /\ ~Closed(t, h)
        /\ Dying(s) = None /\ Dying(t) = None /\ Main(s, g) = None /\ Main(t, h) = None
        /\ NextCwd(t, h) = None /\ Fresh(t, h) = None /\ CwdOwn(t, c) = CwdOwn(s, c)
    BY <1>2, <1>3, <1>4, <2>3, <2>4 DEF Layers, Layer, Fits, NoOp, Op, Putting,
       InTransaction, Busy, Closed, Leaving, Main, Dying, NextCwd, Fresh, CwdOwn
  <2>7. Goes(p, s, g, t, h)
    BY <1>1, <1>2, <1>10, <2>2, <2>3, <2>5, <2>6 DEF Goes
  <2>8. Careful(p, s, g, t, h, c) /\ Known(t, h, c)
    BY <1>3, <2>6, Constants DEF Careful, Known
  <2>10. ASSUME NEW j \in Inum PROVE Total(t, h, c, j) = Total(s, g, c, j) + Is(next, j)
    BY <1>2, <1>3, <1>4, <1>5, <1>14, <1>17, <2>12, <2>4, <2>6, Constants 
    DEF Total, Is, OpOwn, IpOwn, OldOwn, DpOwn, Owning, Layers, Layer, NoOp, Op, Fits, Putting
  <2>11. Ilocks(p, s, g, t, h, c, i, FALSE, next)
    BY <1>1, <1>2, <1>12, <1>13, <2>6, <2>7, <2>8, <2>10 DEF Ilocks
  <2>. QED BY <1>2, <2>11, IlocksStep
<1>. QED BY <1>15, <1>16, <1>17

\* Operations to come are well formed.
LEMMA GoodOps ==
    /\ \A l \in Owning \cup Naming : \A i \in Inum : OpOK(Op(l, i))
    /\ \A l \in Operations \ (Owning \cup Naming \cup {"fileclose"}) : OpOK(Op(l, None))
    /\ \A f \in File : OpOK(Op("fileclose", f))
<1>1. None \in Nat /\ Inum \subseteq Nat /\ File \subseteq Nat BY Constants DEF None
<1>2. Owning \cup Naming \cup {"fileclose"} \subseteq Operations
  BY DEF Owning, Naming, Putting, Operations, Locking
<1>3. "fileclose" \notin Owning \cup Naming BY DEF Owning, Naming, Putting
<1>. QED BY <1>1, <1>2, <1>3 DEF OpOK, OpType, Op

\* The stack of p goes on from s to t: what is at its depths.
Next0(p, s, t, L) ==
    /\ s = k[p] /\ t = k'[p] /\ L = Len(s) /\ s # <<>> /\ Regular(p) /\ Continue(p, <<>>)
Next1(p, s, t, L, l, i) ==
    /\ s = k[p] /\ t = k'[p] /\ L = Len(s) /\ s # <<>> /\ Regular(p) /\ Continue(p, <<Op(l, i)>>)
    /\ OpOK(Op(l, i)) /\ Fits(l, L, Deep(s, L - 1).op)
Next2(p, s, t, L, l, i, m, j) ==
    /\ s = k[p] /\ t = k'[p] /\ L = Len(s) /\ s # <<>> /\ L < 6
    /\ Regular(p) /\ Continue(p, <<Op(l, i), Op(m, j)>>)
    /\ OpOK(Op(l, i)) /\ OpOK(Op(m, j)) /\ Fits(m, L, Deep(s, L - 1).op) /\ Fits(l, L + 1, m)
Give0(p, t) == t = k'[p] /\ Regular(p) /\ Fail(p, <<>>)
Give1(p, t, l, i) ==
    /\ t = k'[p] /\ Regular(p) /\ Fail(p, <<Op(l, i)>>) /\ OpOK(Op(l, i)) /\ Fits(l, 2, "end_op")
Give2(p, t, l, i, m, j) ==
    /\ t = k'[p] /\ Regular(p) /\ Fail(p, <<Op(l, i), Op(m, j)>>)
    /\ OpOK(Op(l, i)) /\ OpOK(Op(m, j)) /\ Fits(m, 2, "end_op") /\ Fits(l, 3, m)
Give3(p, t, l, i, m, j, n, e) ==
    /\ t = k'[p] /\ Regular(p) /\ Fail(p, <<Op(l, i), Op(m, j), Op(n, e)>>)
    /\ OpOK(Op(l, i)) /\ OpOK(Op(m, j)) /\ OpOK(Op(n, e))
    /\ Fits(n, 2, "end_op") /\ Fits(m, 3, n) /\ Fits(l, 4, m)

\* The six depths of a stack.
Depths(t, a, b, c, e, f, g) ==
    /\ Deep(t, 1) = a /\ Deep(t, 2) = b /\ Deep(t, 3) = c
    /\ Deep(t, 4) = e /\ Deep(t, 5) = f /\ Deep(t, 6) = g

LEMMA ToNext0 ==
    ASSUME FsInv, NEW p \in Proc, NEW s, NEW t, NEW L, Next0(p, s, t, L)
    PROVE  /\ Only(p) /\ StackOK(t) /\ Layers(t, L - 1) /\ L \in 1 .. 6
           /\ \A m \in 1 .. 6 : Deep(t, m) = IF m = L THEN NoOp ELSE Deep(s, m)
<1>0. s = k[p] /\ t = k'[p] /\ L = Len(s) /\ s # <<>> /\ Regular(p) /\ Continue(p, <<>>)
  BY DEF Next0
<1>1. Only(p) /\ Popped(k[p], k'[p], Len(k[p])) BY <1>0, Continue0
<1>2. L \in 1 .. 6 BY <1>0, Here, Rest
<1>3. Only(p) /\ Popped(s, t, L) BY <1>0, <1>1
<1>. QED BY <1>2, <1>3 DEF Popped

LEMMA ToNext1 ==
    ASSUME FsInv, NEW p \in Proc, NEW s, NEW t, NEW L, NEW l, NEW i, Next1(p, s, t, L, l, i)
    PROVE  /\ Only(p) /\ StackOK(t) /\ Layers(t, L) /\ L \in 1 .. 6
           /\ \A m \in 1 .. 6 : Deep(t, m) = IF m = L THEN Op(l, i) ELSE Deep(s, m)
<1>0. /\ s = k[p] /\ t = k'[p] /\ L = Len(s) /\ s # <<>> /\ Regular(p) /\ Continue(p, <<Op(l, i)>>)
      /\ OpOK(Op(l, i)) /\ Fits(l, L, Deep(s, L - 1).op)
  BY DEF Next1
<1>1. PICK x : x = Op(l, i) OBVIOUS
<1>2. x.op = l BY <1>1 DEF Op
<1>3. OpOK(x) /\ Continue(p, <<x>>) BY <1>0, <1>1 DEF Continue
<1>4. Fits(x.op, Len(k[p]), Deep(k[p], Len(k[p]) - 1).op) BY <1>0, <1>2
<1>5. Only(p) /\ Swapped(k[p], k'[p], Len(k[p]), x) BY <1>0, <1>3, <1>4, Continue1
<1>6. L \in 1 .. 6 BY <1>0, Here, Rest
<1>7. Only(p) /\ Swapped(s, t, L, Op(l, i)) BY <1>0, <1>1, <1>5
<1>. QED BY <1>6, <1>7 DEF Swapped

LEMMA ToNext2 ==
    ASSUME FsInv, NEW p \in Proc, NEW s, NEW t, NEW L, NEW l, NEW i, NEW m, NEW j,
           Next2(p, s, t, L, l, i, m, j)
    PROVE  /\ Only(p) /\ StackOK(t) /\ Layers(t, L + 1) /\ L \in 1 .. 6
           /\ \A n \in 1 .. 6 : Deep(t, n) = IF n = L + 1 THEN Op(l, i)
                                              ELSE IF n = L THEN Op(m, j) ELSE Deep(s, n)
<1>0. /\ s = k[p] /\ t = k'[p] /\ L = Len(s) /\ s # <<>> /\ L < 6
      /\ Regular(p) /\ Continue(p, <<Op(l, i), Op(m, j)>>)
      /\ OpOK(Op(l, i)) /\ OpOK(Op(m, j)) /\ Fits(m, L, Deep(s, L - 1).op) /\ Fits(l, L + 1, m)
  BY DEF Next2
<1>1. PICK x, y : x = Op(l, i) /\ y = Op(m, j) OBVIOUS
<1>2. x.op = l /\ y.op = m BY <1>1 DEF Op
<1>3. OpOK(x) /\ OpOK(y) BY <1>0, <1>1
<1>7. Continue(p, <<x, y>>) BY <1>0, <1>1 DEF Continue
<1>4. /\ Fits(y.op, Len(k[p]), Deep(k[p], Len(k[p]) - 1).op) /\ Fits(x.op, Len(k[p]) + 1, y.op)
      /\ Len(k[p]) < 6
  BY <1>0, <1>2
<1>5. Only(p) /\ Pushed(k[p], k'[p], Len(k[p]), x, y) BY <1>0, <1>3, <1>4, <1>7, Continue2
<1>6. L \in 1 .. 6 BY <1>0, Here, Rest
<1>8. Only(p) /\ Pushed(s, t, L, Op(l, i), Op(m, j)) BY <1>0, <1>1, <1>5
<1>. QED BY <1>6, <1>8 DEF Pushed

LEMMA ToGive0 ==
    ASSUME FsInv, NEW p \in Proc, NEW t, Give0(p, t)
    PROVE  Only(p) /\ StackOK(t) /\ Layers(t, 1) /\ Depths(t, End, NoOp, NoOp, NoOp, NoOp, NoOp)
<1>0. t = k'[p] /\ Regular(p) /\ Fail(p, <<>>) BY DEF Give0
<1>1. Only(p) /\ GivenUp0(k'[p]) BY <1>0, FailTo0
<1>. QED BY <1>0, <1>1 DEF GivenUp0, Depths

LEMMA ToGive1 ==
    ASSUME FsInv, NEW p \in Proc, NEW t, NEW l, NEW i, Give1(p, t, l, i)
    PROVE  Only(p) /\ StackOK(t) /\ Layers(t, 2) /\ Depths(t, End, Op(l, i), NoOp, NoOp, NoOp, NoOp)
<1>0. t = k'[p] /\ Regular(p) /\ Fail(p, <<Op(l, i)>>) /\ OpOK(Op(l, i)) /\ Fits(l, 2, "end_op")
  BY DEF Give1
<1>1. PICK x : x = Op(l, i) OBVIOUS
<1>2. x.op = l BY <1>1 DEF Op
<1>3. Fail(p, <<x>>) BY <1>0, <1>1 DEF Fail
<1>4. OpOK(x) /\ Fits(x.op, 2, "end_op") BY <1>0, <1>1, <1>2
<1>5. Only(p) /\ GivenUp1(k'[p], x) BY <1>0, <1>3, <1>4, FailTo1
<1>. QED BY <1>0, <1>1, <1>5 DEF GivenUp1, Depths

LEMMA ToGive2 ==
    ASSUME FsInv, NEW p \in Proc, NEW t, NEW l, NEW i, NEW m, NEW j, Give2(p, t, l, i, m, j)
    PROVE  Only(p) /\ StackOK(t) /\ Layers(t, 3) /\ Depths(t, End, Op(m, j), Op(l, i), NoOp, NoOp, NoOp)
<1>0. /\ t = k'[p] /\ Regular(p) /\ Fail(p, <<Op(l, i), Op(m, j)>>)
      /\ OpOK(Op(l, i)) /\ OpOK(Op(m, j)) /\ Fits(m, 2, "end_op") /\ Fits(l, 3, m)
  BY DEF Give2
<1>1. PICK x, y : x = Op(l, i) /\ y = Op(m, j) OBVIOUS
<1>2. x.op = l /\ y.op = m BY <1>1 DEF Op
<1>3. Fail(p, <<x, y>>) BY <1>0, <1>1 DEF Fail
<1>4. OpOK(x) /\ OpOK(y) BY <1>0, <1>1
<1>5. Fits(y.op, 2, "end_op") /\ Fits(x.op, 3, y.op) BY <1>0, <1>2
<1>6. Only(p) /\ GivenUp2(k'[p], x, y) BY <1>0, <1>3, <1>4, <1>5, FailTo2
<1>. QED BY <1>0, <1>1, <1>6 DEF GivenUp2, Depths

LEMMA ToGive3 ==
    ASSUME FsInv, NEW p \in Proc, NEW t, NEW l, NEW i, NEW m, NEW j, NEW n, NEW e,
           Give3(p, t, l, i, m, j, n, e)
    PROVE  Only(p) /\ StackOK(t) /\ Layers(t, 4) /\ Depths(t, End, Op(n, e), Op(m, j), Op(l, i), NoOp, NoOp)
<1>0. /\ t = k'[p] /\ Regular(p) /\ Fail(p, <<Op(l, i), Op(m, j), Op(n, e)>>)
      /\ OpOK(Op(l, i)) /\ OpOK(Op(m, j)) /\ OpOK(Op(n, e))
      /\ Fits(n, 2, "end_op") /\ Fits(m, 3, n) /\ Fits(l, 4, m)
  BY DEF Give3
<1>1. PICK x, y, z : x = Op(l, i) /\ y = Op(m, j) /\ z = Op(n, e) OBVIOUS
<1>2. x.op = l /\ y.op = m /\ z.op = n BY <1>1 DEF Op
<1>3. Fail(p, <<x, y, z>>) BY <1>0, <1>1 DEF Fail
<1>4. OpOK(x) /\ OpOK(y) /\ OpOK(z) BY <1>0, <1>1
<1>5. Fits(z.op, 2, "end_op") /\ Fits(y.op, 3, z.op) /\ Fits(x.op, 4, y.op) BY <1>0, <1>2
<1>6. Only(p) /\ GivenUp3(k'[p], x, y, z) BY <1>0, <1>3, <1>4, <1>5, FailTo3
<1>. QED BY <1>0, <1>1, <1>6 DEF GivenUp3, Depths

\* A step that goes on with other locks, and takes a reference to `got'.
Relinks(p, s, g, t, h, c, got) ==
    /\ Goes(p, s, g, t, h) /\ c = cwd[p] /\ Relocks(p, Main(t, h), None)
    /\ Linking /\ Careful(p, s, g, t, h, c) /\ Known(t, h, c)
    /\ valid' \in [Inum -> BOOLEAN] /\ \A i \in Inum : valid'[i] => Type(i) # "none"
    /\ ref' \in [Inum -> Nat] /\ \A j \in Inum : ref'[j] = ref[j] + Is(got, j)
    /\ \A j \in Inum : Total(t, h, c, j) = Total(s, g, c, j) + Is(got, j)

LEMMA RelinksStep ==
    ASSUME FsInv, NEW p \in Proc, NEW s, NEW g, NEW t, NEW h, NEW c, NEW got,
           Relinks(p, s, g, t, h, c, got)
    PROVE  FsInv'
<1>1. /\ s = k[p] /\ g = r[p] /\ t = k'[p] /\ h = r'[p] /\ c = cwd[p] /\ Only(p) /\ Within
  BY DEF Relinks, Goes
<1>2. Balanced(p, s, g, t, h)
  <2>1. ASSUME NEW j \in Inum
        PROVE  ref'[j] + Total(s, g, c, j) = ref[j] + Total(t, h, c, j)
    <3>1. Total(s, g, c, j) \in Nat BY TotalType
    <3>2. ref[j] \in Nat /\ Is(got, j) \in Nat BY Parts DEF TypeOK, Is
    <3>3. ref'[j] = ref[j] + Is(got, j) BY DEF Relinks
    <3>4. Total(t, h, c, j) = Total(s, g, c, j) + Is(got, j) BY DEF Relinks
    <3>. QED BY <3>1, <3>2, <3>3, <3>4
  <2>. QED BY <1>1, <2>1 DEF Balanced, Within, Relinks
<1>4. Reads(p, s, g, t, h)
  BY <1>1, <1>2 DEF Reads, Relinks
<1>. QED BY <1>4, ReadsStep

\* Changes of entries and links.
LEMMA EntrySet ==
    ASSUME TypeOK, NEW i \in Inum, Type(i) # "none", NEW n \in Name, NEW e \in Inum \cup {None},
           NEW x \in Int, d' = [d EXCEPT !.ent[i][n] = e, !.ino[i].nlink = x]
    PROVE  Linking
<1>1. d \in Disks /\ d.ino \in [Inum -> Inodes] /\ d.ent \in [Inum -> [Name -> Inum \cup {None}]]
      /\ d.used \subseteq Block
  BY DiskParts DEF TypeOK
<1>2. /\ d'.ino = [d.ino EXCEPT ![i].nlink = x] /\ d'.ent = [d.ent EXCEPT ![i][n] = e]
      /\ d'.used = d.used
  BY <1>1, DiskParts
<1>3. [d.ino[i] EXCEPT !.nlink = x] \in Inodes
  <2>1. d.ino[i] \in Inodes BY <1>1
  <2>. QED BY <2>1 DEF Inodes
<1>4. d'.ino \in [Inum -> Inodes] /\ d'.ent \in [Inum -> [Name -> Inum \cup {None}]]
  BY <1>1, <1>2, <1>3
<1>5. d' \in Disks
  <2>1. d' = [ino |-> d'.ino, ent |-> d'.ent, used |-> d'.used] BY <1>1, DiskParts
  <2>. QED BY <1>1, <1>2, <1>4, <2>1, DiskParts
<1>6. \A j \in Inum : d'.ino[j].type = d.ino[j].type /\ d'.ino[j].addrs = d.ino[j].addrs
  BY <1>1, <1>2 DEF Inodes
<1>7. \A j \in Inum : d.ino[j].type = "none" => d'.ino[j] = d.ino[j] /\ d'.ent[j] = d.ent[j]
  BY <1>1, <1>2 DEF Type
<1>. QED BY <1>2, <1>5, <1>6, <1>7 DEF Linking

LEMMA CreateFoundStep == ASSUME FsInv, NEW p \in Proc, create_found(p) PROVE FsInv'
<1>1. PICK s, g, L, i, c, t, h : /\ s = k[p] /\ g = r[p] /\ L = Len(s) /\ i = Target(p) /\ c = cwd[p]
                                /\ t = k'[p] /\ h = r'[p]
  OBVIOUS
<1>2. /\ s # <<>> /\ Deep(s, L).op = "create_found" /\ Deep(s, L).ip = i /\ i \in Inum /\ Head(s).op = "create_found"
      /\ Type(i) # "none" /\ lock[i] = None /\ Fits("create_found", L, Deep(s, L - 1).op)
  <2>1. At(p, "create_found") /\ CanLock(p, "create_found") BY LockAt DEF create_found
  <2>2. Type(i) # "none" /\ lock[i] = None /\ i \in Inum BY <2>1, <1>1, LockAt
  <2>3. "create_found" \in Naming
    BY DEF Owning, Naming
  <2>. QED BY <2>1, <2>2, <2>3, <1>1, AtOp
<1>3. StackOK(s) /\ RegsOK(s, g) /\ Layers(s, L) /\ g \in Regs /\ Known(s, g, c) /\ c \in Inum
  BY <1>1, <1>2, Here
<1>4. L = 3 /\ Deep(s, 2).op \in {"open_file", "put_new"} BY <1>2 DEF Fits, Putting
<1>5. g.ip = i /\ i # None /\ Deep(s, 1).op = "end_op" /\ Deep(s, 3).op = "create_found"
      /\ Deep(s, 4) = NoOp /\ Deep(s, 5) = NoOp /\ Deep(s, 6) = NoOp
  BY <1>2, <1>3, <1>4, Constants DEF RegsOK, Layers, Layer, Fits, Putting
<1>6. PICK ok : ok = (g.type = "file" /\ d.ino[i].type = "file") OBVIOUS
<1>7. ok \in BOOLEAN BY <1>6
<1>10. /\ ilock(p, i, ok, None) /\ UNCHANGED d /\ Within
       /\ r' = [r EXCEPT ![p].ip = IF ok THEN i ELSE None]
       /\ Continue(p, IF ok THEN <<>> ELSE <<Op("iput", i)>>)
  BY <1>1, <1>6 DEF create_found
<1>11. Regular(p) /\ h = [g EXCEPT !.ip = IF ok THEN i ELSE None]
  BY <1>1, <1>10, Here DEF Regular
<1>12. Cached(p, i, ok, None) BY <1>2, <1>10, Ilocked
<1>13. Linking BY <1>10, Parts, NothingLinked
<1>14. h \in Regs /\ h.path = g.path /\ h.ip = (IF ok THEN i ELSE None) /\ h.old = g.old /\ h.dp = g.dp
       /\ h.type = g.type /\ h.writable = g.writable
  <2>1. PICK v : v = (IF ok THEN i ELSE None) OBVIOUS
  <2>2. v \in Inum \cup {None} BY <1>2, <2>1
  <2>3. h = [g EXCEPT !.ip = v] BY <1>11, <2>1
  <2>4. h \in Regs BY <1>3, <2>2, <2>3 DEF Regs
  <2>. QED BY <1>3, <2>1, <2>3, <2>4 DEF Regs
<1>15. CASE ok
  <2>1. Next0(p, s, t, L) BY <1>1, <1>2, <1>10, <1>11, <1>15 DEF Next0
  <2>2. Only(p) BY <2>1, ToNext0
  <2>3. StackOK(t) /\ Layers(t, L - 1) BY <2>1, ToNext0
  <2>4. /\ Deep(t, 1) = Deep(s, 1) /\ Deep(t, 2) = Deep(s, 2) /\ Deep(t, 3) = NoOp
        /\ Deep(t, 4) = NoOp /\ Deep(t, 5) = NoOp /\ Deep(t, 6) = NoOp
    BY <2>1, <1>4, <1>5, ToNext0
  <2>5. RegsOK(t, h)
    BY <1>2, <1>3, <1>4, <1>5, <1>14, <1>6, <1>15, <2>3, <2>4, Constants DEF RegsOK, Layers, Layer, Fits, NoOp, Op, Putting, End
  <2>6. /\ t # <<>> /\ InTransaction(s) /\ InTransaction(t) /\ ~Busy(t) /\ ~Closed(t, h)
        /\ Dying(s) = None /\ Dying(t) = None /\ Main(s, g) = None /\ Main(t, h) = i
        /\ NextCwd(t, h) = None /\ Fresh(t, h) = None /\ CwdOwn(t, c) = CwdOwn(s, c)
    BY <1>2, <1>3, <1>4, <1>5, <1>14, <1>6, <1>15, <2>3, <2>4, Constants DEF Layers, Layer, Fits, NoOp, Op, Putting, End,
       InTransaction, Busy, Closed, Leaving, Main, Dying, NextCwd, Fresh, CwdOwn
  <2>7. Goes(p, s, g, t, h)
    BY <1>1, <1>2, <1>10, <2>2, <2>3, <2>5, <2>6 DEF Goes
  <2>8. Careful(p, s, g, t, h, c) /\ Known(t, h, c)
    BY <1>2, <1>3, <1>4, <1>5, <1>14, <1>6, <1>15, <2>3, <2>4, <2>6, Constants DEF Careful, Known, IsDir, Type, CwdOwn, Op, End, NoOp
  <2>10. ASSUME NEW j \in Inum PROVE Total(t, h, c, j) = Total(s, g, c, j) + Is(None, j)
    BY <1>2, <1>3, <1>4, <1>5, <1>14, <1>6, <1>15, <2>4, <2>6, Constants
    DEF Total, Is, OpOwn, IpOwn, OldOwn, DpOwn, CwdOwn, Owning, Layers, Layer, Fits, NoOp, Op, Putting, End
  <2>11. Cached(p, i, TRUE, None)
    BY <1>12, <1>15 DEF Cached
  <2>12. Ilocks(p, s, g, t, h, c, i, TRUE, None)
    BY <1>1, <1>2, <1>13, <2>6, <2>7, <2>8, <2>10, <2>11 DEF Ilocks
  <2>. QED BY <1>2, <2>12, IlocksStep
<1>16. CASE ~ok
  <2>0. OpOK(Op("iput", i)) /\ Fits("iput", L, Deep(s, L - 1).op)
    BY <1>2, <1>4, GoodOps DEF Owning, Putting, Fits
  <2>1. Next1(p, s, t, L, "iput", i) BY <2>0, <1>1, <1>2, <1>10, <1>11, <1>16 DEF Next1
  <2>2. Only(p) BY <2>1, ToNext1
  <2>3. StackOK(t) /\ Layers(t, L) BY <2>1, ToNext1
  <2>4. /\ Deep(t, 1) = Deep(s, 1) /\ Deep(t, 2) = Deep(s, 2) /\ Deep(t, 3) = Op("iput", i)
        /\ Deep(t, 4) = NoOp /\ Deep(t, 5) = NoOp /\ Deep(t, 6) = NoOp
    BY <2>1, <1>4, <1>5, ToNext1
  <2>5. RegsOK(t, h)
    BY <1>2, <1>3, <1>4, <1>5, <1>14, <1>6, <1>16, <2>3, <2>4, Constants DEF RegsOK, Layers, Layer, Fits, NoOp, Op, Putting, End
  <2>6. /\ t # <<>> /\ InTransaction(s) /\ InTransaction(t) /\ ~Busy(t) /\ ~Closed(t, h)
        /\ Dying(s) = None /\ Dying(t) = None /\ Main(s, g) = None /\ Main(t, h) = None
        /\ NextCwd(t, h) = None /\ Fresh(t, h) = None /\ CwdOwn(t, c) = CwdOwn(s, c)
    BY <1>2, <1>3, <1>4, <1>5, <1>14, <1>6, <1>16, <2>3, <2>4, Constants DEF Layers, Layer, Fits, NoOp, Op, Putting, End,
       InTransaction, Busy, Closed, Leaving, Main, Dying, NextCwd, Fresh, CwdOwn
  <2>7. Goes(p, s, g, t, h)
    BY <1>1, <1>2, <1>10, <2>2, <2>3, <2>5, <2>6 DEF Goes
  <2>8. Careful(p, s, g, t, h, c) /\ Known(t, h, c)
    BY <1>2, <1>3, <1>4, <1>5, <1>14, <1>6, <1>16, <2>3, <2>4, <2>6, Constants DEF Careful, Known, IsDir, Type, CwdOwn, Op, End, NoOp
  <2>10. ASSUME NEW j \in Inum PROVE Total(t, h, c, j) = Total(s, g, c, j) + Is(None, j)
    BY <1>2, <1>3, <1>4, <1>5, <1>14, <1>6, <1>16, <2>4, <2>6, Constants
    DEF Total, Is, OpOwn, IpOwn, OldOwn, DpOwn, CwdOwn, Owning, Layers, Layer, Fits, NoOp, Op, Putting, End
  <2>11. Cached(p, i, FALSE, None)
    BY <1>12, <1>16 DEF Cached
  <2>12. Ilocks(p, s, g, t, h, c, i, FALSE, None)
    BY <1>1, <1>2, <1>13, <2>6, <2>7, <2>8, <2>10, <2>11 DEF Ilocks
  <2>. QED BY <1>2, <2>12, IlocksStep
<1>. QED BY <1>15, <1>16

LEMMA OpenLockStep == ASSUME FsInv, NEW p \in Proc, open_lock(p) PROVE FsInv'
<1>1. PICK s, g, L, i, c, t, h : /\ s = k[p] /\ g = r[p] /\ L = Len(s) /\ i = Target(p) /\ c = cwd[p]
                                /\ t = k'[p] /\ h = r'[p]
  OBVIOUS
<1>2. /\ s # <<>> /\ Deep(s, L).op = "open_lock" /\ g.ip = i /\ i \in Inum /\ Head(s).op = "open_lock"
      /\ Type(i) # "none" /\ lock[i] = None /\ Fits("open_lock", L, Deep(s, L - 1).op)
  <2>1. At(p, "open_lock") /\ CanLock(p, "open_lock") BY LockAt DEF open_lock
  <2>2. Type(i) # "none" /\ lock[i] = None /\ i \in Inum BY <2>1, <1>1, LockAt
  <2>3. "open_lock" \notin Owning \cup Naming \cup {"fileclose"} BY DEF Owning, Naming, Putting
  <2>. QED BY <2>1, <2>2, <2>3, <1>1, AtOp
<1>3. StackOK(s) /\ RegsOK(s, g) /\ Layers(s, L) /\ g \in Regs /\ Known(s, g, c) /\ c \in Inum
  BY <1>1, <1>2, Here
<1>4. L = 3 /\ Deep(s, 2).op = "open_file" BY <1>2 DEF Fits, Putting
<1>5. i # None /\ Deep(s, 1).op = "end_op" /\ Deep(s, 3).op = "open_lock"
      /\ Deep(s, 4) = NoOp /\ Deep(s, 5) = NoOp /\ Deep(s, 6) = NoOp
  BY <1>2, <1>3, <1>4, Constants DEF Layers, Layer, Fits, Putting
<1>6. PICK bad : bad = (IsDir(i) /\ g.writable) OBVIOUS
<1>7. bad \in BOOLEAN BY <1>6, <1>3 DEF Regs
<1>10. /\ ilock(p, i, ~bad, None) /\ UNCHANGED <<d, r>> /\ Within
       /\ IF bad THEN Fail(p, <<Op("iput", i)>>) ELSE Continue(p, <<>>)
  BY <1>1, <1>6 DEF open_lock
<1>14. h = g BY <1>1, <1>10
<1>11. Regular(p) BY <1>10 DEF Regular
<1>12. Cached(p, i, ~bad, None) BY <1>2, <1>10, Ilocked
<1>13. Linking BY <1>10, Parts, NothingLinked
<1>15. CASE ~bad
  <2>1. Next0(p, s, t, L) BY <1>1, <1>2, <1>10, <1>11, <1>15 DEF Next0
  <2>2. Only(p) BY <2>1, ToNext0
  <2>3. StackOK(t) /\ Layers(t, L - 1) BY <2>1, ToNext0
  <2>4. /\ Deep(t, 1) = Deep(s, 1) /\ Deep(t, 2) = Deep(s, 2) /\ Deep(t, 3) = NoOp
        /\ Deep(t, 4) = NoOp /\ Deep(t, 5) = NoOp /\ Deep(t, 6) = NoOp
    BY <2>1, <1>4, <1>5, ToNext0
  <2>5. RegsOK(t, h)
    BY <1>2, <1>3, <1>4, <1>5, <1>14, <1>6, <1>15, <2>3, <2>4, Constants DEF RegsOK, Layers, Layer, Fits, NoOp, Op, Putting, End
  <2>6. /\ t # <<>> /\ InTransaction(s) /\ InTransaction(t) /\ ~Busy(t) /\ ~Closed(t, h)
        /\ Dying(s) = None /\ Dying(t) = None /\ Main(s, g) = None /\ Main(t, h) = i
        /\ NextCwd(t, h) = None /\ Fresh(t, h) = None /\ CwdOwn(t, c) = CwdOwn(s, c)
    BY <1>2, <1>3, <1>4, <1>5, <1>14, <1>6, <1>15, <2>3, <2>4, Constants DEF Layers, Layer, Fits, NoOp, Op, Putting, End,
       InTransaction, Busy, Closed, Leaving, Main, Dying, NextCwd, Fresh, CwdOwn
  <2>7. Goes(p, s, g, t, h)
    BY <1>1, <1>2, <1>10, <2>2, <2>3, <2>5, <2>6 DEF Goes
  <2>8. Careful(p, s, g, t, h, c) /\ Known(t, h, c)
    BY <1>2, <1>3, <1>4, <1>5, <1>14, <1>6, <1>15, <2>3, <2>4, <2>6, Constants DEF Careful, Known, IsDir, Type, CwdOwn, Op, End, NoOp
  <2>10. ASSUME NEW j \in Inum PROVE Total(t, h, c, j) = Total(s, g, c, j) + Is(None, j)
    BY <1>2, <1>3, <1>4, <1>5, <1>14, <1>6, <1>15, <2>4, <2>6, Constants
    DEF Total, Is, OpOwn, IpOwn, OldOwn, DpOwn, CwdOwn, Owning, Layers, Layer, Fits, NoOp, Op, Putting, End
  <2>11. Cached(p, i, TRUE, None)
    BY <1>12, <1>15 DEF Cached
  <2>12. Ilocks(p, s, g, t, h, c, i, TRUE, None)
    BY <1>1, <1>2, <1>13, <2>6, <2>7, <2>8, <2>10, <2>11 DEF Ilocks
  <2>. QED BY <1>2, <2>12, IlocksStep
<1>16. CASE bad
  <2>0. OpOK(Op("iput", i)) /\ Fits("iput", 2, "end_op")
    BY <1>2, GoodOps DEF Owning, Putting, Fits
  <2>1. Give1(p, t, "iput", i) BY <2>0, <1>1, <1>10, <1>11, <1>16 DEF Give1
  <2>2. Only(p) BY <2>1, ToGive1
  <2>3. StackOK(t) /\ Layers(t, 2) BY <2>1, ToGive1
  <2>4. /\ Deep(t, 1) = End /\ Deep(t, 2) = Op("iput", i) /\ Deep(t, 3) = NoOp
        /\ Deep(t, 4) = NoOp /\ Deep(t, 5) = NoOp /\ Deep(t, 6) = NoOp
    BY <2>1, ToGive1 DEF Depths
  <2>5. RegsOK(t, h)
    BY <1>2, <1>3, <1>4, <1>5, <1>14, <1>6, <1>16, <2>3, <2>4, Constants DEF RegsOK, Layers, Layer, Fits, NoOp, Op, Putting, End
  <2>6. /\ t # <<>> /\ InTransaction(s) /\ InTransaction(t) /\ ~Busy(t) /\ ~Closed(t, h)
        /\ Dying(s) = None /\ Dying(t) = None /\ Main(s, g) = None /\ Main(t, h) = None
        /\ NextCwd(t, h) = None /\ Fresh(t, h) = None /\ CwdOwn(t, c) = CwdOwn(s, c)
    BY <1>2, <1>3, <1>4, <1>5, <1>14, <1>6, <1>16, <2>3, <2>4, Constants DEF Layers, Layer, Fits, NoOp, Op, Putting, End,
       InTransaction, Busy, Closed, Leaving, Main, Dying, NextCwd, Fresh, CwdOwn
  <2>7. Goes(p, s, g, t, h)
    BY <1>1, <1>2, <1>10, <2>2, <2>3, <2>5, <2>6 DEF Goes
  <2>8. Careful(p, s, g, t, h, c) /\ Known(t, h, c)
    BY <1>2, <1>3, <1>4, <1>5, <1>14, <1>6, <1>16, <2>3, <2>4, <2>6, Constants DEF Careful, Known, IsDir, Type, CwdOwn, Op, End, NoOp
  <2>10. ASSUME NEW j \in Inum PROVE Total(t, h, c, j) = Total(s, g, c, j) + Is(None, j)
    BY <1>2, <1>3, <1>4, <1>5, <1>14, <1>6, <1>16, <2>4, <2>6, Constants
    DEF Total, Is, OpOwn, IpOwn, OldOwn, DpOwn, CwdOwn, Owning, Layers, Layer, Fits, NoOp, Op, Putting, End
  <2>11. Cached(p, i, FALSE, None)
    BY <1>12, <1>16 DEF Cached
  <2>12. Ilocks(p, s, g, t, h, c, i, FALSE, None)
    BY <1>1, <1>2, <1>13, <2>6, <2>7, <2>8, <2>10, <2>11 DEF Ilocks
  <2>. QED BY <1>2, <2>12, IlocksStep
<1>. QED BY <1>15, <1>16

LEMMA CountSet ==
    ASSUME TypeOK, NEW i \in Inum, Type(i) # "none", NEW x \in Int, d' = [d EXCEPT !.ino[i].nlink = x]
    PROVE  Linking
<1>1. d \in Disks /\ d.ino \in [Inum -> Inodes] /\ d.ent \in [Inum -> [Name -> Inum \cup {None}]]
      /\ d.used \subseteq Block
  BY DiskParts DEF TypeOK
<1>2. /\ d'.ino = [d.ino EXCEPT ![i].nlink = x] /\ d'.ent = d.ent
      /\ d'.used = d.used
  BY <1>1, DiskParts
<1>3. [d.ino[i] EXCEPT !.nlink = x] \in Inodes
  <2>1. d.ino[i] \in Inodes BY <1>1
  <2>. QED BY <2>1 DEF Inodes
<1>4. d'.ino \in [Inum -> Inodes] /\ d'.ent \in [Inum -> [Name -> Inum \cup {None}]]
  BY <1>1, <1>2, <1>3
<1>5. d' \in Disks
  <2>1. d' = [ino |-> d'.ino, ent |-> d'.ent, used |-> d'.used] BY <1>1, DiskParts
  <2>. QED BY <1>1, <1>2, <1>4, <2>1, DiskParts
<1>6. \A j \in Inum : d'.ino[j].type = d.ino[j].type /\ d'.ino[j].addrs = d.ino[j].addrs
  BY <1>1, <1>2 DEF Inodes
<1>7. \A j \in Inum : d.ino[j].type = "none" => d'.ino[j] = d.ino[j] /\ d'.ent[j] = d.ent[j]
  BY <1>1, <1>2 DEF Type
<1>. QED BY <1>2, <1>5, <1>6, <1>7 DEF Linking

LEMMA EntryOnly ==
    ASSUME TypeOK, NEW i \in Inum, Type(i) # "none", NEW n \in Name, NEW e \in Inum \cup {None},
           d' = [d EXCEPT !.ent[i][n] = e]
    PROVE  Linking
<1>1. d \in Disks /\ d.ino \in [Inum -> Inodes] /\ d.ent \in [Inum -> [Name -> Inum \cup {None}]]
      /\ d.used \subseteq Block
  BY DiskParts DEF TypeOK
<1>2. /\ d'.ino = d.ino /\ d'.ent = [d.ent EXCEPT ![i][n] = e]
      /\ d'.used = d.used
  BY <1>1, DiskParts
<1>4. d'.ino \in [Inum -> Inodes] /\ d'.ent \in [Inum -> [Name -> Inum \cup {None}]]
  BY <1>1, <1>2
<1>5. d' \in Disks
  <2>1. d' = [ino |-> d'.ino, ent |-> d'.ent, used |-> d'.used] BY <1>1, DiskParts
  <2>. QED BY <1>1, <1>2, <1>4, <2>1, DiskParts
<1>6. \A j \in Inum : d'.ino[j].type = d.ino[j].type /\ d'.ino[j].addrs = d.ino[j].addrs
  BY <1>1, <1>2 DEF Inodes
<1>7. \A j \in Inum : d.ino[j].type = "none" => d'.ino[j] = d.ino[j] /\ d'.ent[j] = d.ent[j]
  BY <1>1, <1>2 DEF Type
<1>. QED BY <1>2, <1>5, <1>6, <1>7 DEF Linking

LEMMA LinkUndoStep == ASSUME FsInv, NEW p \in Proc, link_undo(p) PROVE FsInv'
<1>1. PICK s, g, L, i, c, t, h : /\ s = k[p] /\ g = r[p] /\ L = Len(s) /\ i = Target(p) /\ c = cwd[p]
                                /\ t = k'[p] /\ h = r'[p]
  OBVIOUS
<1>2. /\ s # <<>> /\ Deep(s, L).op = "link_undo" /\ Deep(s, L).ip = i /\ i \in Inum /\ Head(s).op = "link_undo"
      /\ Type(i) # "none" /\ lock[i] = None /\ Fits("link_undo", L, Deep(s, L - 1).op)
  <2>1. At(p, "link_undo") /\ CanLock(p, "link_undo") BY LockAt DEF link_undo
  <2>2. Type(i) # "none" /\ lock[i] = None /\ i \in Inum BY <2>1, <1>1, LockAt
  <2>3. "link_undo" \in Owning
    BY DEF Owning, Naming
  <2>. QED BY <2>1, <2>2, <2>3, <1>1, AtOp
<1>3. StackOK(s) /\ RegsOK(s, g) /\ Layers(s, L) /\ g \in Regs /\ Known(s, g, c) /\ c \in Inum
  BY <1>1, <1>2, Here
<1>4. L = 2 /\ Deep(s, 1).op = "end_op" /\ Deep(s, 2).op = "link_undo" /\ Deep(s, 3) = NoOp
      /\ Deep(s, 4) = NoOp /\ Deep(s, 5) = NoOp /\ Deep(s, 6) = NoOp
  BY <1>2, <1>3 DEF Layers, Layer, Fits, Putting
<1>5. i # None BY <1>2, Constants
<1>10. /\ ilock(p, i, FALSE, None) /\ d' = [d EXCEPT !.ino[i].nlink = @ - 1] /\ UNCHANGED r /\ Within
       /\ Continue(p, <<Op("iput", i)>>)
  BY <1>1 DEF link_undo
<1>14. h = g BY <1>1, <1>10
<1>11. Regular(p) BY <1>10 DEF Regular
<1>12. Cached(p, i, FALSE, None) BY <1>2, <1>10, Ilocked
<1>13. Linking
  <2>1. PICK x : x = d.ino[i].nlink - 1 OBVIOUS
  <2>2. x \in Int BY <2>1, <1>2, Parts, DiskParts DEF TypeOK, Inodes
  <2>3. d' = [d EXCEPT !.ino[i].nlink = x] BY <1>10, <2>1
  <2>. QED BY <2>2, <2>3, <1>2, Parts, CountSet
<1>15. FsInv'
  <2>0. OpOK(Op("iput", i)) /\ Fits("iput", L, Deep(s, L - 1).op)
    BY <1>2, <1>4, GoodOps DEF Owning, Putting, Fits
  <2>1. Next1(p, s, t, L, "iput", i) BY <2>0, <1>1, <1>2, <1>10, <1>11 DEF Next1
  <2>2. Only(p) BY <2>1, ToNext1
  <2>3. StackOK(t) /\ Layers(t, L) BY <2>1, ToNext1
  <2>4. /\ Deep(t, 1) = Deep(s, 1) /\ Deep(t, 2) = Op("iput", i) /\ Deep(t, 3) = NoOp
        /\ Deep(t, 4) = NoOp /\ Deep(t, 5) = NoOp /\ Deep(t, 6) = NoOp
    BY <2>1, <1>4, <1>5, ToNext1
  <2>5. RegsOK(t, h)
    BY <1>2, <1>3, <1>4, <1>5, <1>14, <1>5, <2>3, <2>4, Constants DEF RegsOK, Layers, Layer, Fits, NoOp, Op, Putting, End
  <2>6. /\ t # <<>> /\ InTransaction(s) /\ InTransaction(t) /\ ~Busy(t) /\ ~Closed(t, h)
        /\ Dying(s) = None /\ Dying(t) = None /\ Main(s, g) = None /\ Main(t, h) = None
        /\ NextCwd(t, h) = None /\ Fresh(t, h) = None /\ CwdOwn(t, c) = CwdOwn(s, c)
    BY <1>2, <1>3, <1>4, <1>5, <1>14, <1>5, <2>3, <2>4, Constants DEF Layers, Layer, Fits, NoOp, Op, Putting, End,
       InTransaction, Busy, Closed, Leaving, Main, Dying, NextCwd, Fresh, CwdOwn
  <2>7. Goes(p, s, g, t, h)
    BY <1>1, <1>2, <1>10, <2>2, <2>3, <2>5, <2>6 DEF Goes
  <2>8. Careful(p, s, g, t, h, c) /\ Known(t, h, c)
    BY <1>2, <1>3, <1>4, <1>5, <1>14, <1>5, <2>3, <2>4, <2>6, Constants DEF Careful, Known, IsDir, Type, CwdOwn, Op, End, NoOp
  <2>10. ASSUME NEW j \in Inum PROVE Total(t, h, c, j) = Total(s, g, c, j) + Is(None, j)
    BY <1>2, <1>3, <1>4, <1>5, <1>14, <1>5, <2>4, <2>6, Constants
    DEF Total, Is, OpOwn, IpOwn, OldOwn, DpOwn, CwdOwn, Owning, Layers, Layer, Fits, NoOp, Op, Putting, End
  <2>11. Ilocks(p, s, g, t, h, c, i, FALSE, None)
    BY <1>1, <1>2, <1>12, <1>13, <2>6, <2>7, <2>8, <2>10 DEF Ilocks
  <2>. QED BY <1>2, <2>11, IlocksStep
<1>. QED BY <1>15

LEMMA UnlinkStep == ASSUME FsInv, NEW p \in Proc, unlink(p) PROVE FsInv'
<1>1. PICK s, g, L, i, c, t, h : /\ s = k[p] /\ g = r[p] /\ L = Len(s) /\ i = Target(p) /\ c = cwd[p]
                                /\ t = k'[p] /\ h = r'[p]
  OBVIOUS
<1>2. /\ s # <<>> /\ Deep(s, L).op = "unlink" /\ g.ip = i /\ i \in Inum /\ Head(s).op = "unlink"
      /\ Type(i) # "none" /\ lock[i] = None /\ Fits("unlink", L, Deep(s, L - 1).op)
  <2>1. At(p, "unlink") /\ CanLock(p, "unlink") BY LockAt DEF unlink
  <2>2. Type(i) # "none" /\ lock[i] = None /\ i \in Inum BY <2>1, <1>1, LockAt
  <2>3. "unlink" \notin Owning \cup Naming \cup {"fileclose"} BY DEF Owning, Naming, Putting
  <2>. QED BY <2>1, <2>2, <2>3, <1>1, AtOp
<1>3. StackOK(s) /\ RegsOK(s, g) /\ Layers(s, L) /\ g \in Regs /\ Known(s, g, c) /\ c \in Inum
  BY <1>1, <1>2, Here
<1>4. L = 2 /\ Deep(s, 1).op = "end_op" /\ Deep(s, 2).op = "unlink" /\ Deep(s, 3) = NoOp
      /\ Deep(s, 4) = NoOp /\ Deep(s, 5) = NoOp /\ Deep(s, 6) = NoOp
  BY <1>2, <1>3 DEF Layers, Layer, Fits, Putting
<1>5. i # None BY <1>2, Constants
<1>6. PICK e : e = IF g.name \in {".", ".."} THEN None ELSE Found(i, g.name) OBVIOUS
<1>7. e \in Inum \cup {None}
  <2>1. Found(i, g.name) \in Inum \cup {None} BY <1>2, <1>3, Lookup, Parts DEF Regs
  <2>. QED BY <2>1, <1>6
<1>8. PICK keep : keep = (e # None) OBVIOUS
<1>10. /\ ilock(p, i, keep, e) /\ UNCHANGED d /\ Within /\ r' = [r EXCEPT ![p].dp = i]
       /\ IF e = None THEN Fail(p, <<Op("iput", i)>>) ELSE Continue(p, <<Op("unlink_inode", e)>>)
  BY <1>1, <1>6, <1>8 DEF unlink
<1>11. Regular(p) /\ h = [g EXCEPT !.dp = i]
  BY <1>1, <1>10, Here DEF Regular
<1>12. Cached(p, i, keep, e) BY <1>2, <1>7, <1>10, Ilocked
<1>13. Linking BY <1>10, Parts, NothingLinked
<1>14. h \in Regs /\ h.ip = g.ip /\ h.old = g.old /\ h.dp = i /\ h.type = g.type
  <2>1. h = [g EXCEPT !.dp = i] BY <1>11
  <2>2. h \in Regs BY <1>2, <1>3, <2>1 DEF Regs
  <2>. QED BY <1>3, <2>1, <2>2 DEF Regs
<1>15. CASE e = None
  <2>0. OpOK(Op("iput", i)) /\ Fits("iput", 2, "end_op")
    BY <1>2, GoodOps DEF Owning, Putting, Fits
  <2>1. Give1(p, t, "iput", i) BY <2>0, <1>1, <1>10, <1>11, <1>15 DEF Give1
  <2>2. Only(p) BY <2>1, ToGive1
  <2>3. StackOK(t) /\ Layers(t, 2) BY <2>1, ToGive1
  <2>4. /\ Deep(t, 1) = End /\ Deep(t, 2) = Op("iput", i) /\ Deep(t, 3) = NoOp
        /\ Deep(t, 4) = NoOp /\ Deep(t, 5) = NoOp /\ Deep(t, 6) = NoOp
    BY <2>1, ToGive1 DEF Depths
  <2>5. RegsOK(t, h)
    BY <1>2, <1>3, <1>4, <1>5, <1>14, <1>15, <2>3, <2>4, Constants DEF RegsOK, Layers, Layer, Fits, NoOp, Op, Putting, End
  <2>6. /\ t # <<>> /\ InTransaction(s) /\ InTransaction(t) /\ ~Busy(t) /\ ~Closed(t, h)
        /\ Dying(s) = None /\ Dying(t) = None /\ Main(s, g) = None /\ Main(t, h) = None
        /\ NextCwd(t, h) = None /\ Fresh(t, h) = None /\ CwdOwn(t, c) = CwdOwn(s, c)
    BY <1>2, <1>3, <1>4, <1>5, <1>14, <1>15, <2>3, <2>4, Constants DEF Layers, Layer, Fits, NoOp, Op, Putting, End,
       InTransaction, Busy, Closed, Leaving, Main, Dying, NextCwd, Fresh, CwdOwn
  <2>7. Goes(p, s, g, t, h)
    BY <1>1, <1>2, <1>10, <2>2, <2>3, <2>5, <2>6 DEF Goes
  <2>8. Careful(p, s, g, t, h, c) /\ Known(t, h, c)
    BY <1>2, <1>3, <1>4, <1>5, <1>14, <1>15, <2>3, <2>4, <2>6, Constants DEF Careful, Known, IsDir, Type, CwdOwn, Op, End, NoOp
  <2>10. ASSUME NEW j \in Inum PROVE Total(t, h, c, j) = Total(s, g, c, j) + Is(e, j)
    BY <1>2, <1>3, <1>4, <1>5, <1>14, <1>15, <2>4, <2>6, Constants
    DEF Total, Is, OpOwn, IpOwn, OldOwn, DpOwn, CwdOwn, Owning, Layers, Layer, Fits, NoOp, Op, Putting, End
  <2>11. Cached(p, i, FALSE, e) BY <1>8, <1>12, <1>15 DEF Cached
  <2>12. Ilocks(p, s, g, t, h, c, i, FALSE, e)
    BY <1>1, <1>2, <1>13, <2>6, <2>7, <2>8, <2>10, <2>11 DEF Ilocks
  <2>. QED BY <1>2, <2>12, IlocksStep
<1>16. CASE e # None
  <2>0. e \in Inum /\ OpOK(Op("unlink_inode", e)) /\ Fits("unlink_inode", L, Deep(s, L - 1).op)
    BY <1>4, <1>7, <1>16, GoodOps DEF Owning, Putting, Fits
  <2>1. Next1(p, s, t, L, "unlink_inode", e) BY <2>0, <1>1, <1>2, <1>10, <1>11, <1>16 DEF Next1
  <2>2. Only(p) BY <2>1, ToNext1
  <2>3. StackOK(t) /\ Layers(t, L) BY <2>1, ToNext1
  <2>4. /\ Deep(t, 1) = Deep(s, 1) /\ Deep(t, 2) = Op("unlink_inode", e) /\ Deep(t, 3) = NoOp
        /\ Deep(t, 4) = NoOp /\ Deep(t, 5) = NoOp /\ Deep(t, 6) = NoOp
    BY <2>1, <1>4, <1>5, ToNext1
  <2>5. RegsOK(t, h)
    BY <1>2, <1>3, <1>4, <1>5, <1>14, <1>16, <2>0, <2>3, <2>4, Constants DEF RegsOK, Layers, Layer, Fits, NoOp, Op, Putting, End
  <2>6. /\ t # <<>> /\ InTransaction(s) /\ InTransaction(t) /\ ~Busy(t) /\ ~Closed(t, h)
        /\ Dying(s) = None /\ Dying(t) = None /\ Main(s, g) = None /\ Main(t, h) = i
        /\ NextCwd(t, h) = None /\ Fresh(t, h) = None /\ CwdOwn(t, c) = CwdOwn(s, c)
    BY <1>2, <1>3, <1>4, <1>5, <1>14, <1>16, <2>0, <2>3, <2>4, Constants DEF Layers, Layer, Fits, NoOp, Op, Putting, End,
       InTransaction, Busy, Closed, Leaving, Main, Dying, NextCwd, Fresh, CwdOwn
  <2>7. Goes(p, s, g, t, h)
    BY <1>1, <1>2, <1>10, <2>2, <2>3, <2>5, <2>6 DEF Goes
  <2>8. Careful(p, s, g, t, h, c) /\ Known(t, h, c)
    BY <1>2, <1>3, <1>4, <1>5, <1>14, <1>16, <2>0, <2>3, <2>4, <2>6, Constants DEF Careful, Known, IsDir, Type, CwdOwn, Op, End, NoOp
  <2>10. ASSUME NEW j \in Inum PROVE Total(t, h, c, j) = Total(s, g, c, j) + Is(e, j)
    BY <1>2, <1>3, <1>4, <1>5, <1>14, <1>16, <2>0, <2>4, <2>6, Constants
    DEF Total, Is, OpOwn, IpOwn, OldOwn, DpOwn, CwdOwn, Owning, Layers, Layer, Fits, NoOp, Op, Putting, End
  <2>11. Cached(p, i, TRUE, e) BY <1>8, <1>12, <1>16 DEF Cached
  <2>12. Ilocks(p, s, g, t, h, c, i, TRUE, e)
    BY <1>1, <1>2, <1>13, <2>6, <2>7, <2>8, <2>10, <2>11 DEF Ilocks
  <2>. QED BY <1>2, <2>12, IlocksStep
<1>. QED BY <1>15, <1>16

LEMMA ChdirStep == ASSUME FsInv, NEW p \in Proc, chdir(p) PROVE FsInv'
<1>1. PICK s, g, L, i, c, t, h : /\ s = k[p] /\ g = r[p] /\ L = Len(s) /\ i = Target(p) /\ c = cwd[p]
                                /\ t = k'[p] /\ h = r'[p]
  OBVIOUS
<1>2. /\ s # <<>> /\ Deep(s, L).op = "chdir" /\ g.ip = i /\ i \in Inum /\ Head(s).op = "chdir"
      /\ Type(i) # "none" /\ lock[i] = None /\ Fits("chdir", L, Deep(s, L - 1).op)
  <2>1. At(p, "chdir") /\ CanLock(p, "chdir") BY LockAt DEF chdir
  <2>2. Type(i) # "none" /\ lock[i] = None /\ i \in Inum BY <2>1, <1>1, LockAt
  <2>3. "chdir" \notin Owning \cup Naming \cup {"fileclose"} BY DEF Owning, Naming, Putting
  <2>. QED BY <2>1, <2>2, <2>3, <1>1, AtOp
<1>3. StackOK(s) /\ RegsOK(s, g) /\ Layers(s, L) /\ g \in Regs /\ Known(s, g, c) /\ c \in Inum
  BY <1>1, <1>2, Here
<1>4. L = 3 /\ Deep(s, 1).op = "set_cwd" /\ Deep(s, 2).op = "end_op" /\ Deep(s, 3).op = "chdir"
      /\ Deep(s, 4) = NoOp /\ Deep(s, 5) = NoOp /\ Deep(s, 6) = NoOp
  BY <1>2, <1>3 DEF Layers, Layer, Fits, Putting
<1>5. i # None /\ c # None BY <1>2, <1>3, Constants
<1>10. /\ ilock(p, i, FALSE, None) /\ UNCHANGED <<d, r>> /\ Within
       /\ IF IsDir(i) THEN Continue(p, <<Op("iput", c)>>) ELSE Fail(p, <<Op("iput", i)>>)
  BY <1>1 DEF chdir
<1>14. h = g BY <1>1, <1>10
<1>11. Regular(p) BY <1>10 DEF Regular
<1>12. Cached(p, i, FALSE, None) BY <1>2, <1>10, Ilocked
<1>13. Linking BY <1>10, Parts, NothingLinked
<1>15. CASE IsDir(i)
  <2>0. OpOK(Op("iput", c)) /\ Fits("iput", L, Deep(s, L - 1).op)
    BY <1>3, <1>4, GoodOps DEF Owning, Putting, Fits
  <2>1. Next1(p, s, t, L, "iput", c) BY <2>0, <1>1, <1>2, <1>10, <1>11, <1>15 DEF Next1
  <2>2. Only(p) BY <2>1, ToNext1
  <2>3. StackOK(t) /\ Layers(t, L) BY <2>1, ToNext1
  <2>4. /\ Deep(t, 1) = Deep(s, 1) /\ Deep(t, 2) = Deep(s, 2) /\ Deep(t, 3) = Op("iput", c)
        /\ Deep(t, 4) = NoOp /\ Deep(t, 5) = NoOp /\ Deep(t, 6) = NoOp
    BY <2>1, <1>4, <1>5, ToNext1
  <2>5. RegsOK(t, h)
    BY <1>2, <1>3, <1>4, <1>5, <1>14, <1>15, <2>3, <2>4, Constants DEF RegsOK, Layers, Layer, Fits, NoOp, Op, Putting, End
  <2>6. /\ t # <<>> /\ InTransaction(s) /\ InTransaction(t) /\ ~Busy(t) /\ ~Closed(t, h)
        /\ Dying(s) = None /\ Dying(t) = None /\ Main(s, g) = None /\ Main(t, h) = None
        /\ NextCwd(t, h) = i /\ Fresh(t, h) = None /\ CwdOwn(t, c) = None
    BY <1>2, <1>3, <1>4, <1>5, <1>14, <1>15, <2>3, <2>4, Constants DEF Layers, Layer, Fits, NoOp, Op, Putting, End,
       InTransaction, Busy, Closed, Leaving, Main, Dying, NextCwd, Fresh, CwdOwn
  <2>7. Goes(p, s, g, t, h)
    BY <1>1, <1>2, <1>10, <2>2, <2>3, <2>5, <2>6 DEF Goes
  <2>8. Careful(p, s, g, t, h, c) /\ Known(t, h, c)
    BY <1>2, <1>3, <1>4, <1>5, <1>14, <1>15, <2>3, <2>4, <2>6, Constants DEF Careful, Known, IsDir, Type, CwdOwn, Op, End, NoOp
  <2>10. ASSUME NEW j \in Inum PROVE Total(t, h, c, j) = Total(s, g, c, j) + Is(None, j)
    BY <1>2, <1>3, <1>4, <1>5, <1>14, <1>15, <2>4, <2>6, Constants
    DEF Total, Is, OpOwn, IpOwn, OldOwn, DpOwn, CwdOwn, Owning, Layers, Layer, Fits, NoOp, Op, Putting, End
  <2>11. Ilocks(p, s, g, t, h, c, i, FALSE, None)
    BY <1>1, <1>2, <1>12, <1>13, <2>6, <2>7, <2>8, <2>10 DEF Ilocks
  <2>. QED BY <1>2, <2>11, IlocksStep
<1>16. CASE ~IsDir(i)
  <2>0. OpOK(Op("iput", i)) /\ Fits("iput", 2, "end_op")
    BY <1>2, GoodOps DEF Owning, Putting, Fits
  <2>1. Give1(p, t, "iput", i) BY <2>0, <1>1, <1>10, <1>11, <1>16 DEF Give1
  <2>2. Only(p) BY <2>1, ToGive1
  <2>3. StackOK(t) /\ Layers(t, 2) BY <2>1, ToGive1
  <2>4. /\ Deep(t, 1) = End /\ Deep(t, 2) = Op("iput", i) /\ Deep(t, 3) = NoOp
        /\ Deep(t, 4) = NoOp /\ Deep(t, 5) = NoOp /\ Deep(t, 6) = NoOp
    BY <2>1, ToGive1 DEF Depths
  <2>5. RegsOK(t, h)
    BY <1>2, <1>3, <1>4, <1>5, <1>14, <1>16, <2>3, <2>4, Constants DEF RegsOK, Layers, Layer, Fits, NoOp, Op, Putting, End
  <2>6. /\ t # <<>> /\ InTransaction(s) /\ InTransaction(t) /\ ~Busy(t) /\ ~Closed(t, h)
        /\ Dying(s) = None /\ Dying(t) = None /\ Main(s, g) = None /\ Main(t, h) = None
        /\ NextCwd(t, h) = None /\ Fresh(t, h) = None /\ CwdOwn(t, c) = CwdOwn(s, c)
    BY <1>2, <1>3, <1>4, <1>5, <1>14, <1>16, <2>3, <2>4, Constants DEF Layers, Layer, Fits, NoOp, Op, Putting, End,
       InTransaction, Busy, Closed, Leaving, Main, Dying, NextCwd, Fresh, CwdOwn
  <2>7. Goes(p, s, g, t, h)
    BY <1>1, <1>2, <1>10, <2>2, <2>3, <2>5, <2>6 DEF Goes
  <2>8. Careful(p, s, g, t, h, c) /\ Known(t, h, c)
    BY <1>2, <1>3, <1>4, <1>5, <1>14, <1>16, <2>3, <2>4, <2>6, Constants DEF Careful, Known, IsDir, Type, CwdOwn, Op, End, NoOp
  <2>10. ASSUME NEW j \in Inum PROVE Total(t, h, c, j) = Total(s, g, c, j) + Is(None, j)
    BY <1>2, <1>3, <1>4, <1>5, <1>14, <1>16, <2>4, <2>6, Constants
    DEF Total, Is, OpOwn, IpOwn, OldOwn, DpOwn, CwdOwn, Owning, Layers, Layer, Fits, NoOp, Op, Putting, End
  <2>11. Ilocks(p, s, g, t, h, c, i, FALSE, None)
    BY <1>1, <1>2, <1>12, <1>13, <2>6, <2>7, <2>8, <2>10 DEF Ilocks
  <2>. QED BY <1>2, <2>11, IlocksStep
<1>. QED BY <1>15, <1>16

LEMMA LinkDirStep == ASSUME FsInv, NEW p \in Proc, link_dir(p) PROVE FsInv'
<1>1. PICK s, g, L, i, c, t, h : /\ s = k[p] /\ g = r[p] /\ L = Len(s) /\ i = Target(p) /\ c = cwd[p]
                                /\ t = k'[p] /\ h = r'[p]
  OBVIOUS
<1>2. /\ s # <<>> /\ Deep(s, L).op = "link_dir" /\ g.ip = i /\ i \in Inum /\ Head(s).op = "link_dir"
      /\ Type(i) # "none" /\ lock[i] = None /\ Fits("link_dir", L, Deep(s, L - 1).op)
  <2>1. At(p, "link_dir") /\ CanLock(p, "link_dir") BY LockAt DEF link_dir
  <2>2. Type(i) # "none" /\ lock[i] = None /\ i \in Inum BY <2>1, <1>1, LockAt
  <2>3. "link_dir" \notin Owning \cup Naming \cup {"fileclose"} BY DEF Owning, Naming, Putting
  <2>. QED BY <2>1, <2>2, <2>3, <1>1, AtOp
<1>3. StackOK(s) /\ RegsOK(s, g) /\ Layers(s, L) /\ g \in Regs /\ Known(s, g, c) /\ c \in Inum
  BY <1>1, <1>2, Here
<1>4. L = 2 /\ Deep(s, 1).op = "end_op" /\ Deep(s, 2).op = "link_dir" /\ Deep(s, 3) = NoOp
      /\ Deep(s, 4) = NoOp /\ Deep(s, 5) = NoOp /\ Deep(s, 6) = NoOp
  BY <1>2, <1>3 DEF Layers, Layer, Fits, Putting
<1>6. PICK o, e : o = g.old /\ e = Found(i, g.name) OBVIOUS
<1>5. i # None /\ o # None /\ o \in Inum /\ g.old = o
  <2>1. Deep(s, 3).op # "link_count" BY <1>4 DEF NoOp, Op
  <2>2. g.old # None /\ g.old \in Inum \cup {None} BY <2>1, <1>3, <1>4 DEF RegsOK, Regs
  <2>. QED BY <2>2, <1>2, <1>6, Constants
<1>7. e \in Inum \cup {None} /\ g.name \in Name
  <2>1. Found(i, g.name) \in Inum \cup {None} /\ g.name \in Name BY <1>2, <1>3, Lookup, Parts DEF Regs
  <2>. QED BY <2>1, <1>6
<1>8. PICK keep : keep = (e # None) OBVIOUS
<1>10. /\ ilock(p, i, keep, e) /\ Within /\ r' = [r EXCEPT ![p].dp = i]
       /\ IF e # None THEN Fail(p, <<Op("iput", e), Op("link_exists", i), Op("link_undo", o)>>) /\ UNCHANGED d
          ELSE d' = [d EXCEPT !.ent[i][g.name] = o] /\ Continue(p, <<Op("iput", i), Op("iput", o)>>)
  BY <1>1, <1>6, <1>8 DEF link_dir
<1>11. Regular(p) /\ h = [g EXCEPT !.dp = i]
  BY <1>1, <1>10, Here DEF Regular
<1>12. Cached(p, i, keep, e) BY <1>2, <1>7, <1>10, Ilocked
<1>14. h \in Regs /\ h.ip = g.ip /\ h.old = g.old /\ h.dp = i /\ h.type = g.type
  <2>1. h = [g EXCEPT !.dp = i] BY <1>11
  <2>2. h \in Regs BY <1>2, <1>3, <2>1 DEF Regs
  <2>. QED BY <1>3, <2>1, <2>2 DEF Regs
<1>15. CASE e # None
  <2>12. Linking BY <1>10, <1>15, Parts, NothingLinked
  <2>0. /\ OpOK(Op("iput", e)) /\ OpOK(Op("link_exists", i)) /\ OpOK(Op("link_undo", o))
        /\ Fits("link_undo", 2, "end_op") /\ Fits("link_exists", 3, "link_undo")
        /\ Fits("iput", 4, "link_exists") /\ e \in Inum
    BY <1>2, <1>5, <1>7, <1>15, GoodOps DEF Owning, Putting, Fits
  <2>1. Give3(p, t, "iput", e, "link_exists", i, "link_undo", o)
    BY <2>0, <1>1, <1>10, <1>11, <1>15 DEF Give3
  <2>2. Only(p) BY <2>1, ToGive3
  <2>3. StackOK(t) /\ Layers(t, 4) BY <2>1, ToGive3
  <2>4. /\ Deep(t, 1) = End /\ Deep(t, 2) = Op("link_undo", o) /\ Deep(t, 3) = Op("link_exists", i)
        /\ Deep(t, 4) = Op("iput", e) /\ Deep(t, 5) = NoOp /\ Deep(t, 6) = NoOp
    BY <2>1, ToGive3 DEF Depths
  <2>5. RegsOK(t, h)
    BY <1>2, <1>3, <1>4, <1>5, <1>14, <1>15, <2>0, <2>3, <2>4, Constants DEF RegsOK, Layers, Layer, Fits, NoOp, Op, Putting, End
  <2>6. /\ t # <<>> /\ InTransaction(s) /\ InTransaction(t) /\ ~Busy(t) /\ ~Closed(t, h)
        /\ Dying(s) = None /\ Dying(t) = None /\ Main(s, g) = None /\ Main(t, h) = i
        /\ NextCwd(t, h) = None /\ Fresh(t, h) = None /\ CwdOwn(t, c) = CwdOwn(s, c)
    BY <1>2, <1>3, <1>4, <1>5, <1>14, <1>15, <2>0, <2>3, <2>4, Constants DEF Layers, Layer, Fits, NoOp, Op, Putting, End,
       InTransaction, Busy, Closed, Leaving, Main, Dying, NextCwd, Fresh, CwdOwn
  <2>7. Goes(p, s, g, t, h)
    BY <1>1, <1>2, <1>10, <2>2, <2>3, <2>5, <2>6 DEF Goes
  <2>8. Careful(p, s, g, t, h, c) /\ Known(t, h, c)
    BY <1>2, <1>3, <1>4, <1>5, <1>14, <1>15, <2>0, <2>3, <2>4, <2>6, Constants DEF Careful, Known, IsDir, Type, CwdOwn, Op, End, NoOp
  <2>10. ASSUME NEW j \in Inum PROVE Total(t, h, c, j) = Total(s, g, c, j) + Is(e, j)
    BY <1>2, <1>3, <1>4, <1>5, <1>14, <1>15, <2>0, <2>4, <2>6, Constants
    DEF Total, Is, OpOwn, IpOwn, OldOwn, DpOwn, CwdOwn, Owning, Layers, Layer, Fits, NoOp, Op, Putting, End
  <2>11. Cached(p, i, TRUE, e) BY <1>8, <1>12, <1>15 DEF Cached
  <2>13. Ilocks(p, s, g, t, h, c, i, TRUE, e)
    BY <1>1, <1>2, <2>6, <2>7, <2>8, <2>10, <2>11, <2>12 DEF Ilocks
  <2>. QED BY <1>2, <2>13, IlocksStep
<1>16. CASE e = None
  <2>12. Linking
    <3>1. d' = [d EXCEPT !.ent[i][g.name] = o] BY <1>10, <1>16
    <3>. QED BY <3>1, <1>2, <1>5, <1>7, Parts, EntryOnly
  <2>0. /\ OpOK(Op("iput", i)) /\ OpOK(Op("iput", o))
        /\ Fits("iput", L, Deep(s, L - 1).op) /\ Fits("iput", L + 1, "iput") /\ L < 6
    BY <1>2, <1>4, <1>5, GoodOps DEF Owning, Putting, Fits
  <2>1. Next2(p, s, t, L, "iput", i, "iput", o) BY <2>0, <1>1, <1>2, <1>10, <1>11, <1>16 DEF Next2
  <2>2. Only(p) BY <2>1, ToNext2
  <2>3. StackOK(t) /\ Layers(t, L + 1) BY <2>1, ToNext2
  <2>4. /\ Deep(t, 1) = Deep(s, 1) /\ Deep(t, 2) = Op("iput", o) /\ Deep(t, 3) = Op("iput", i)
        /\ Deep(t, 4) = NoOp /\ Deep(t, 5) = NoOp /\ Deep(t, 6) = NoOp
    BY <2>1, <1>4, <1>5, ToNext2
  <2>5. RegsOK(t, h)
    BY <1>2, <1>3, <1>4, <1>5, <1>14, <1>16, <2>3, <2>4, Constants DEF RegsOK, Layers, Layer, Fits, NoOp, Op, Putting, End
  <2>6. /\ t # <<>> /\ InTransaction(s) /\ InTransaction(t) /\ ~Busy(t) /\ ~Closed(t, h)
        /\ Dying(s) = None /\ Dying(t) = None /\ Main(s, g) = None /\ Main(t, h) = None
        /\ NextCwd(t, h) = None /\ Fresh(t, h) = None /\ CwdOwn(t, c) = CwdOwn(s, c)
    BY <1>2, <1>3, <1>4, <1>5, <1>14, <1>16, <2>3, <2>4, Constants DEF Layers, Layer, Fits, NoOp, Op, Putting, End,
       InTransaction, Busy, Closed, Leaving, Main, Dying, NextCwd, Fresh, CwdOwn
  <2>7. Goes(p, s, g, t, h)
    BY <1>1, <1>2, <1>10, <2>2, <2>3, <2>5, <2>6 DEF Goes
  <2>8. Careful(p, s, g, t, h, c) /\ Known(t, h, c)
    BY <1>2, <1>3, <1>4, <1>5, <1>14, <1>16, <2>3, <2>4, <2>6, Constants DEF Careful, Known, IsDir, Type, CwdOwn, Op, End, NoOp
  <2>10. ASSUME NEW j \in Inum PROVE Total(t, h, c, j) = Total(s, g, c, j) + Is(e, j)
    BY <1>2, <1>3, <1>4, <1>5, <1>14, <1>16, <2>4, <2>6, Constants
    DEF Total, Is, OpOwn, IpOwn, OldOwn, DpOwn, CwdOwn, Owning, Layers, Layer, Fits, NoOp, Op, Putting, End
  <2>11. Cached(p, i, FALSE, e) BY <1>8, <1>12, <1>16 DEF Cached
  <2>13. Ilocks(p, s, g, t, h, c, i, FALSE, e)
    BY <1>1, <1>2, <2>6, <2>7, <2>8, <2>10, <2>11, <2>12 DEF Ilocks
  <2>. QED BY <1>2, <2>13, IlocksStep
<1>. QED BY <1>15, <1>16

\* A step that unlocks the inode that the call has locked.
Unlocks(p, s, g, t, h, c, i) ==
    /\ Goes(p, s, g, t, h) /\ c = cwd[p] /\ iunlock(i) /\ Main(s, g) = i /\ Main(t, h) = None
    /\ Linking /\ Careful(p, s, g, t, h, c) /\ Known(t, h, c) /\ Dying(s) = None
    /\ \A j \in Inum : Total(t, h, c, j) = Total(s, g, c, j) + Is(None, j)

LEMMA UnlocksStep ==
    ASSUME FsInv, NEW p \in Proc, NEW s, NEW g, NEW t, NEW h, NEW c, NEW i \in Inum,
           Unlocks(p, s, g, t, h, c, i)
    PROVE  FsInv'
<1>1. /\ s = k[p] /\ g = r[p] /\ t = k'[p] /\ h = r'[p] /\ c = cwd[p]
      /\ Main(s, g) = i /\ Dying(s) = None /\ Main(t, h) = None /\ Dying(t) = None
      /\ lock' = [lock EXCEPT ![i] = None] /\ UNCHANGED <<ref, valid>>
  BY DEF Unlocks, Goes, Careful, iunlock
<1>2. Relocks(p, Main(t, h), None)
  <2>1. lock \in [Inum -> Proc \cup {None}] BY Parts DEF TypeOK
  <2>2. Main(k'[p], r'[p]) = None /\ Dying(k'[p]) = None /\ Main(k[p], r[p]) = i /\ Dying(k[p]) = None
    BY <1>1
  <2>. QED BY <1>1, <2>1, <2>2, Constants DEF Relocks
<1>3. /\ ref' \in [Inum -> Nat] /\ \A j \in Inum : ref'[j] = ref[j] + Is(None, j)
      /\ valid' \in [Inum -> BOOLEAN] /\ \A j \in Inum : valid'[j] => Type(j) # "none"
  BY <1>1, Parts, Constants DEF TypeOK, InUse, Is
<1>4. Relinks(p, s, g, t, h, c, None)
  BY <1>2, <1>3 DEF Relinks, Unlocks
<1>. QED BY <1>4, RelinksStep

LEMMA PutNewStep == ASSUME FsInv, NEW p \in Proc, put_new(p) PROVE FsInv'
<1>1. PICK s, g, L, i, c, t, h : /\ s = k[p] /\ g = r[p] /\ L = Len(s) /\ i = Target(p) /\ c = cwd[p]
                                /\ t = k'[p] /\ h = r'[p]
  OBVIOUS
<1>2. /\ s # <<>> /\ Deep(s, L).op = "put_new" /\ g.ip = i /\ i \in Inum /\ Head(s).op = "put_new"
      /\ Fits("put_new", L, Deep(s, L - 1).op)
  <2>1. At(p, "put_new") /\ Target(p) # None BY DEF put_new
  <2>2. "put_new" \notin Owning \cup Naming \cup {"fileclose"} BY DEF Owning, Naming, Putting
  <2>3. g.ip = i BY <2>1, <2>2, <1>1, AtOp
  <2>4. i \in Inum
    <3>1. r[p].ip \in Inum \cup {None} BY Here DEF Regs
    <3>. QED BY <1>1, <2>1, <2>3, <3>1
  <2>. QED BY <2>1, <2>3, <2>4, <1>1, AtOp
<1>3. StackOK(s) /\ RegsOK(s, g) /\ Layers(s, L) /\ g \in Regs /\ Known(s, g, c) /\ c \in Inum
  BY <1>1, <1>2, Here
<1>4. L = 2 /\ Deep(s, 1).op = "end_op" /\ Deep(s, 2).op = "put_new" /\ Deep(s, 3) = NoOp
      /\ Deep(s, 4) = NoOp /\ Deep(s, 5) = NoOp /\ Deep(s, 6) = NoOp
  BY <1>2, <1>3 DEF Layers, Layer, Fits, Putting
<1>5. i # None BY <1>2, Constants
<1>10. /\ iunlock(i) /\ UNCHANGED <<d, r>> /\ Within /\ Continue(p, <<Op("iput", i)>>)
  BY <1>1 DEF put_new
<1>14. h = g BY <1>1, <1>10
<1>11. Regular(p) BY <1>10 DEF Regular
<1>13. Linking BY <1>10, Parts, NothingLinked
<1>15. FsInv'
  <2>0. OpOK(Op("iput", i)) /\ Fits("iput", L, Deep(s, L - 1).op)
    BY <1>2, <1>4, GoodOps DEF Owning, Putting, Fits
  <2>1. Next1(p, s, t, L, "iput", i) BY <2>0, <1>1, <1>2, <1>10, <1>11 DEF Next1
  <2>2. Only(p) BY <2>1, ToNext1
  <2>3. StackOK(t) /\ Layers(t, L) BY <2>1, ToNext1
  <2>4. /\ Deep(t, 1) = Deep(s, 1) /\ Deep(t, 2) = Op("iput", i) /\ Deep(t, 3) = NoOp
        /\ Deep(t, 4) = NoOp /\ Deep(t, 5) = NoOp /\ Deep(t, 6) = NoOp
    BY <2>1, <1>4, <1>5, ToNext1
  <2>5. RegsOK(t, h)
    BY <1>2, <1>3, <1>4, <1>5, <1>14, <1>5, <2>3, <2>4, Constants DEF RegsOK, Layers, Layer, Fits, NoOp, Op, Putting, End
  <2>6. /\ t # <<>> /\ InTransaction(s) /\ InTransaction(t) /\ ~Busy(t) /\ ~Closed(t, h)
        /\ Dying(s) = None /\ Dying(t) = None /\ Main(s, g) = i /\ Main(t, h) = None
        /\ NextCwd(t, h) = None /\ Fresh(t, h) = None /\ CwdOwn(t, c) = CwdOwn(s, c)
    BY <1>2, <1>3, <1>4, <1>5, <1>14, <1>5, <2>3, <2>4, Constants DEF Layers, Layer, Fits, NoOp, Op, Putting, End,
       InTransaction, Busy, Closed, Leaving, Main, Dying, NextCwd, Fresh, CwdOwn
  <2>7. Goes(p, s, g, t, h)
    BY <1>1, <1>2, <1>10, <2>2, <2>3, <2>5, <2>6 DEF Goes
  <2>8. Careful(p, s, g, t, h, c) /\ Known(t, h, c)
    BY <1>2, <1>3, <1>4, <1>5, <1>14, <1>5, <2>3, <2>4, <2>6, Constants DEF Careful, Known, IsDir, Type, CwdOwn, Op, End, NoOp
  <2>10. ASSUME NEW j \in Inum PROVE Total(t, h, c, j) = Total(s, g, c, j) + Is(None, j)
    BY <1>2, <1>3, <1>4, <1>5, <1>14, <1>5, <2>4, <2>6, Constants
    DEF Total, Is, OpOwn, IpOwn, OldOwn, DpOwn, CwdOwn, Owning, Layers, Layer, Fits, NoOp, Op, Putting, End
  <2>11. Unlocks(p, s, g, t, h, c, i)
    BY <1>1, <1>10, <1>13, <2>6, <2>7, <2>8, <2>10 DEF Unlocks
  <2>. QED BY <1>2, <2>11, UnlocksStep
<1>. QED BY <1>15

LEMMA UnlinkDoneStep == ASSUME FsInv, NEW p \in Proc, unlink_done(p) PROVE FsInv'
<1>1. PICK s, g, L, i, c, t, h : /\ s = k[p] /\ g = r[p] /\ L = Len(s) /\ i = Target(p) /\ c = cwd[p]
                                /\ t = k'[p] /\ h = r'[p]
  OBVIOUS
<1>2. /\ s # <<>> /\ Deep(s, L).op = "unlink_done" /\ Deep(s, L).ip = i /\ i \in Inum /\ Head(s).op = "unlink_done"
      /\ Fits("unlink_done", L, Deep(s, L - 1).op)
  <2>1. At(p, "unlink_done") /\ "unlink_done" \in Owning BY DEF unlink_done, Owning
  <2>. QED BY <2>1, <1>1, AtOp
<1>3. StackOK(s) /\ RegsOK(s, g) /\ Layers(s, L) /\ g \in Regs /\ Known(s, g, c) /\ c \in Inum
  BY <1>1, <1>2, Here
<1>4. L = 2 /\ Deep(s, 1).op = "end_op" /\ Deep(s, 2).op = "unlink_done" /\ Deep(s, 3) = NoOp
      /\ Deep(s, 4) = NoOp /\ Deep(s, 5) = NoOp /\ Deep(s, 6) = NoOp
  BY <1>2, <1>3 DEF Layers, Layer, Fits, Putting
<1>5. i # None /\ Type(i) # "none"
  <2>1. Main(s, g) = i BY <1>2, <1>4 DEF Main
  <2>. QED BY <2>1, <1>2, <1>3, Constants DEF Known
<1>10. /\ iunlock(i) /\ d' = [d EXCEPT !.ino[i].nlink = @ - 1] /\ UNCHANGED r /\ Within
       /\ Continue(p, <<Op("iput", i)>>)
  BY <1>1 DEF unlink_done
<1>14. h = g BY <1>1, <1>10
<1>11. Regular(p) BY <1>10 DEF Regular
<1>13. Linking
  <2>1. PICK x : x = d.ino[i].nlink - 1 OBVIOUS
  <2>2. x \in Int BY <2>1, <1>2, Parts, DiskParts DEF TypeOK, Inodes
  <2>3. d' = [d EXCEPT !.ino[i].nlink = x] BY <1>10, <2>1
  <2>. QED BY <2>2, <2>3, <1>2, <1>5, Parts, CountSet
<1>15. FsInv'
  <2>0. OpOK(Op("iput", i)) /\ Fits("iput", L, Deep(s, L - 1).op)
    BY <1>2, <1>4, GoodOps DEF Owning, Putting, Fits
  <2>1. Next1(p, s, t, L, "iput", i) BY <2>0, <1>1, <1>2, <1>10, <1>11 DEF Next1
  <2>2. Only(p) BY <2>1, ToNext1
  <2>3. StackOK(t) /\ Layers(t, L) BY <2>1, ToNext1
  <2>4. /\ Deep(t, 1) = Deep(s, 1) /\ Deep(t, 2) = Op("iput", i) /\ Deep(t, 3) = NoOp
        /\ Deep(t, 4) = NoOp /\ Deep(t, 5) = NoOp /\ Deep(t, 6) = NoOp
    BY <2>1, <1>4, <1>5, ToNext1
  <2>5. RegsOK(t, h)
    BY <1>2, <1>3, <1>4, <1>5, <1>14, <1>5, <2>3, <2>4, Constants DEF RegsOK, Layers, Layer, Fits, NoOp, Op, Putting, End
  <2>6. /\ t # <<>> /\ InTransaction(s) /\ InTransaction(t) /\ ~Busy(t) /\ ~Closed(t, h)
        /\ Dying(s) = None /\ Dying(t) = None /\ Main(s, g) = i /\ Main(t, h) = None
        /\ NextCwd(t, h) = None /\ Fresh(t, h) = None /\ CwdOwn(t, c) = CwdOwn(s, c)
    BY <1>2, <1>3, <1>4, <1>5, <1>14, <1>5, <2>3, <2>4, Constants DEF Layers, Layer, Fits, NoOp, Op, Putting, End,
       InTransaction, Busy, Closed, Leaving, Main, Dying, NextCwd, Fresh, CwdOwn
  <2>7. Goes(p, s, g, t, h)
    BY <1>1, <1>2, <1>10, <2>2, <2>3, <2>5, <2>6 DEF Goes
  <2>8. Careful(p, s, g, t, h, c) /\ Known(t, h, c)
    BY <1>2, <1>3, <1>4, <1>5, <1>14, <1>5, <2>3, <2>4, <2>6, Constants DEF Careful, Known, IsDir, Type, CwdOwn, Op, End, NoOp
  <2>10. ASSUME NEW j \in Inum PROVE Total(t, h, c, j) = Total(s, g, c, j) + Is(None, j)
    BY <1>2, <1>3, <1>4, <1>5, <1>14, <1>5, <2>4, <2>6, Constants
    DEF Total, Is, OpOwn, IpOwn, OldOwn, DpOwn, CwdOwn, Owning, Layers, Layer, Fits, NoOp, Op, Putting, End
  <2>11. Unlocks(p, s, g, t, h, c, i)
    BY <1>1, <1>10, <1>13, <2>6, <2>7, <2>8, <2>10 DEF Unlocks
  <2>. QED BY <1>2, <2>11, UnlocksStep
<1>. QED BY <1>15

LEMMA LinkExistsStep == ASSUME FsInv, NEW p \in Proc, unlock_put(p), At(p, "link_exists") PROVE FsInv'
<1>1. PICK s, g, L, i, c, t, h : /\ s = k[p] /\ g = r[p] /\ L = Len(s) /\ i = Target(p) /\ c = cwd[p]
                                /\ t = k'[p] /\ h = r'[p]
  OBVIOUS
<1>2. /\ s # <<>> /\ Deep(s, L).op = "link_exists" /\ Deep(s, L).ip = i /\ i \in Inum /\ Head(s).op = "link_exists"
      /\ Fits("link_exists", L, Deep(s, L - 1).op)
  <2>1. At(p, "link_exists") /\ "link_exists" \in Owning BY DEF Owning
  <2>. QED BY <2>1, <1>1, AtOp
<1>3. StackOK(s) /\ RegsOK(s, g) /\ Layers(s, L) /\ g \in Regs /\ Known(s, g, c) /\ c \in Inum
  BY <1>1, <1>2, Here
<1>4. L = 3 /\ Deep(s, 1).op = "end_op" /\ Deep(s, 2).op = "link_undo" /\ Deep(s, 3).op = "link_exists"
      /\ Deep(s, 4) = NoOp /\ Deep(s, 5) = NoOp /\ Deep(s, 6) = NoOp
  BY <1>2, <1>3 DEF Layers, Layer, Fits, Putting
<1>5. i # None BY <1>2, Constants
<1>10. /\ iunlock(i) /\ UNCHANGED <<d, r>> /\ Within /\ Continue(p, <<Op("iput", i)>>)
  BY <1>1 DEF unlock_put
<1>14. h = g BY <1>1, <1>10
<1>11. Regular(p) BY <1>10 DEF Regular
<1>13. Linking BY <1>10, Parts, NothingLinked
<1>15. FsInv'
  <2>0. OpOK(Op("iput", i)) /\ Fits("iput", L, Deep(s, L - 1).op)
    BY <1>2, <1>4, GoodOps DEF Owning, Putting, Fits
  <2>1. Next1(p, s, t, L, "iput", i) BY <2>0, <1>1, <1>2, <1>10, <1>11 DEF Next1
  <2>2. Only(p) BY <2>1, ToNext1
  <2>3. StackOK(t) /\ Layers(t, L) BY <2>1, ToNext1
  <2>4. /\ Deep(t, 1) = Deep(s, 1) /\ Deep(t, 2) = Deep(s, 2) /\ Deep(t, 3) = Op("iput", i)
        /\ Deep(t, 4) = NoOp /\ Deep(t, 5) = NoOp /\ Deep(t, 6) = NoOp
    BY <2>1, <1>4, <1>5, ToNext1
  <2>5. RegsOK(t, h)
    BY <1>2, <1>3, <1>4, <1>5, <1>14, <1>5, <2>3, <2>4, Constants DEF RegsOK, Layers, Layer, Fits, NoOp, Op, Putting, End
  <2>6. /\ t # <<>> /\ InTransaction(s) /\ InTransaction(t) /\ ~Busy(t) /\ ~Closed(t, h)
        /\ Dying(s) = None /\ Dying(t) = None /\ Main(s, g) = i /\ Main(t, h) = None
        /\ NextCwd(t, h) = None /\ Fresh(t, h) = None /\ CwdOwn(t, c) = CwdOwn(s, c)
    BY <1>2, <1>3, <1>4, <1>5, <1>14, <1>5, <2>3, <2>4, Constants DEF Layers, Layer, Fits, NoOp, Op, Putting, End,
       InTransaction, Busy, Closed, Leaving, Main, Dying, NextCwd, Fresh, CwdOwn
  <2>7. Goes(p, s, g, t, h)
    BY <1>1, <1>2, <1>10, <2>2, <2>3, <2>5, <2>6 DEF Goes
  <2>8. Careful(p, s, g, t, h, c) /\ Known(t, h, c)
    BY <1>2, <1>3, <1>4, <1>5, <1>14, <1>5, <2>3, <2>4, <2>6, Constants DEF Careful, Known, IsDir, Type, CwdOwn, Op, End, NoOp
  <2>10. ASSUME NEW j \in Inum PROVE Total(t, h, c, j) = Total(s, g, c, j) + Is(None, j)
    BY <1>2, <1>3, <1>4, <1>5, <1>14, <1>5, <2>4, <2>6, Constants
    DEF Total, Is, OpOwn, IpOwn, OldOwn, DpOwn, CwdOwn, Owning, Layers, Layer, Fits, NoOp, Op, Putting, End
  <2>11. Unlocks(p, s, g, t, h, c, i)
    BY <1>1, <1>10, <1>13, <2>6, <2>7, <2>8, <2>10 DEF Unlocks
  <2>. QED BY <1>2, <2>11, UnlocksStep
<1>. QED BY <1>15

LEMMA UnlinkBadStep == ASSUME FsInv, NEW p \in Proc, unlock_put(p), At(p, "unlink_bad") PROVE FsInv'
<1>1. PICK s, g, L, i, c, t, h : /\ s = k[p] /\ g = r[p] /\ L = Len(s) /\ i = Target(p) /\ c = cwd[p]
                                /\ t = k'[p] /\ h = r'[p]
  OBVIOUS
<1>2. /\ s # <<>> /\ Deep(s, L).op = "unlink_bad" /\ Deep(s, L).ip = i /\ i \in Inum /\ Head(s).op = "unlink_bad"
      /\ Fits("unlink_bad", L, Deep(s, L - 1).op)
  <2>1. At(p, "unlink_bad") /\ "unlink_bad" \in Owning BY DEF Owning
  <2>. QED BY <2>1, <1>1, AtOp
<1>3. StackOK(s) /\ RegsOK(s, g) /\ Layers(s, L) /\ g \in Regs /\ Known(s, g, c) /\ c \in Inum
  BY <1>1, <1>2, Here
<1>4. L = 2 /\ Deep(s, 1).op = "end_op" /\ Deep(s, 2).op = "unlink_bad" /\ Deep(s, 3) = NoOp
      /\ Deep(s, 4) = NoOp /\ Deep(s, 5) = NoOp /\ Deep(s, 6) = NoOp
  BY <1>2, <1>3 DEF Layers, Layer, Fits, Putting
<1>5. i # None BY <1>2, Constants
<1>10. /\ iunlock(i) /\ UNCHANGED <<d, r>> /\ Within /\ Continue(p, <<Op("iput", i)>>)
  BY <1>1 DEF unlock_put
<1>14. h = g BY <1>1, <1>10
<1>11. Regular(p) BY <1>10 DEF Regular
<1>13. Linking BY <1>10, Parts, NothingLinked
<1>15. FsInv'
  <2>0. OpOK(Op("iput", i)) /\ Fits("iput", L, Deep(s, L - 1).op)
    BY <1>2, <1>4, GoodOps DEF Owning, Putting, Fits
  <2>1. Next1(p, s, t, L, "iput", i) BY <2>0, <1>1, <1>2, <1>10, <1>11 DEF Next1
  <2>2. Only(p) BY <2>1, ToNext1
  <2>3. StackOK(t) /\ Layers(t, L) BY <2>1, ToNext1
  <2>4. /\ Deep(t, 1) = Deep(s, 1) /\ Deep(t, 2) = Op("iput", i) /\ Deep(t, 3) = NoOp
        /\ Deep(t, 4) = NoOp /\ Deep(t, 5) = NoOp /\ Deep(t, 6) = NoOp
    BY <2>1, <1>4, <1>5, ToNext1
  <2>5. RegsOK(t, h)
    BY <1>2, <1>3, <1>4, <1>5, <1>14, <1>5, <2>3, <2>4, Constants DEF RegsOK, Layers, Layer, Fits, NoOp, Op, Putting, End
  <2>6. /\ t # <<>> /\ InTransaction(s) /\ InTransaction(t) /\ ~Busy(t) /\ ~Closed(t, h)
        /\ Dying(s) = None /\ Dying(t) = None /\ Main(s, g) = i /\ Main(t, h) = None
        /\ NextCwd(t, h) = None /\ Fresh(t, h) = None /\ CwdOwn(t, c) = CwdOwn(s, c)
    BY <1>2, <1>3, <1>4, <1>5, <1>14, <1>5, <2>3, <2>4, Constants DEF Layers, Layer, Fits, NoOp, Op, Putting, End,
       InTransaction, Busy, Closed, Leaving, Main, Dying, NextCwd, Fresh, CwdOwn
  <2>7. Goes(p, s, g, t, h)
    BY <1>1, <1>2, <1>10, <2>2, <2>3, <2>5, <2>6 DEF Goes
  <2>8. Careful(p, s, g, t, h, c) /\ Known(t, h, c)
    BY <1>2, <1>3, <1>4, <1>5, <1>14, <1>5, <2>3, <2>4, <2>6, Constants DEF Careful, Known, IsDir, Type, CwdOwn, Op, End, NoOp
  <2>10. ASSUME NEW j \in Inum PROVE Total(t, h, c, j) = Total(s, g, c, j) + Is(None, j)
    BY <1>2, <1>3, <1>4, <1>5, <1>14, <1>5, <2>4, <2>6, Constants
    DEF Total, Is, OpOwn, IpOwn, OldOwn, DpOwn, CwdOwn, Owning, Layers, Layer, Fits, NoOp, Op, Putting, End
  <2>11. Unlocks(p, s, g, t, h, c, i)
    BY <1>1, <1>10, <1>13, <2>6, <2>7, <2>8, <2>10 DEF Unlocks
  <2>. QED BY <1>2, <2>11, UnlocksStep
<1>. QED BY <1>15

LEMMA OpenFailsStep == ASSUME FsInv, NEW p \in Proc, open_file(p), FreeFiles = {} \/ FreeFds(p) = {} PROVE FsInv'
<1>1. PICK s, g, L, i, c, t, h : /\ s = k[p] /\ g = r[p] /\ L = Len(s) /\ i = Target(p) /\ c = cwd[p]
                                /\ t = k'[p] /\ h = r'[p]
  OBVIOUS
<1>2. /\ s # <<>> /\ Deep(s, L).op = "open_file" /\ g.ip = i /\ i \in Inum /\ Head(s).op = "open_file"
      /\ Fits("open_file", L, Deep(s, L - 1).op)
  <2>1. At(p, "open_file") /\ Target(p) # None BY DEF open_file
  <2>2. "open_file" \notin Owning \cup Naming \cup {"fileclose"} BY DEF Owning, Naming, Putting
  <2>3. g.ip = i BY <2>1, <2>2, <1>1, AtOp
  <2>4. i \in Inum
    <3>1. r[p].ip \in Inum \cup {None} BY Here DEF Regs
    <3>. QED BY <1>1, <2>1, <2>3, <3>1
  <2>. QED BY <2>1, <2>3, <2>4, <1>1, AtOp
<1>3. StackOK(s) /\ RegsOK(s, g) /\ Layers(s, L) /\ g \in Regs /\ Known(s, g, c) /\ c \in Inum
  BY <1>1, <1>2, Here
<1>4. L = 2 /\ Deep(s, 1).op = "end_op" /\ Deep(s, 2).op = "open_file" /\ Deep(s, 3) = NoOp
      /\ Deep(s, 4) = NoOp /\ Deep(s, 5) = NoOp /\ Deep(s, 6) = NoOp
  BY <1>2, <1>3 DEF Layers, Layer, Fits, Putting
<1>5. i # None BY <1>2, Constants
<1>10. /\ iunlock(i) /\ UNCHANGED <<d, r>> /\ Within /\ Fail(p, <<Op("iput", i)>>)
  BY <1>1 DEF open_file, Within
<1>14. h = g BY <1>1, <1>10
<1>11. Regular(p) BY <1>10 DEF Regular
<1>13. Linking BY <1>10, Parts, NothingLinked
<1>15. FsInv'
  <2>0. OpOK(Op("iput", i)) /\ Fits("iput", 2, "end_op")
    BY <1>2, <1>4, GoodOps DEF Owning, Putting, Fits
  <2>1. Give1(p, t, "iput", i) BY <2>0, <1>1, <1>10, <1>11 DEF Give1
  <2>2. Only(p) BY <2>1, ToGive1
  <2>3. StackOK(t) /\ Layers(t, 2) BY <2>1, ToGive1
  <2>4. /\ Deep(t, 1) = End /\ Deep(t, 2) = Op("iput", i) /\ Deep(t, 3) = NoOp
        /\ Deep(t, 4) = NoOp /\ Deep(t, 5) = NoOp /\ Deep(t, 6) = NoOp
    BY <2>1, ToGive1 DEF Depths
  <2>5. RegsOK(t, h)
    BY <1>2, <1>3, <1>4, <1>5, <1>14, <1>5, <2>3, <2>4, Constants DEF RegsOK, Layers, Layer, Fits, NoOp, Op, Putting, End
  <2>6. /\ t # <<>> /\ InTransaction(s) /\ InTransaction(t) /\ ~Busy(t) /\ ~Closed(t, h)
        /\ Dying(s) = None /\ Dying(t) = None /\ Main(s, g) = i /\ Main(t, h) = None
        /\ NextCwd(t, h) = None /\ Fresh(t, h) = None /\ CwdOwn(t, c) = CwdOwn(s, c)
    BY <1>2, <1>3, <1>4, <1>5, <1>14, <1>5, <2>3, <2>4, Constants DEF Layers, Layer, Fits, NoOp, Op, Putting, End,
       InTransaction, Busy, Closed, Leaving, Main, Dying, NextCwd, Fresh, CwdOwn
  <2>7. Goes(p, s, g, t, h)
    BY <1>1, <1>2, <1>10, <2>2, <2>3, <2>5, <2>6 DEF Goes
  <2>8. Careful(p, s, g, t, h, c) /\ Known(t, h, c)
    BY <1>2, <1>3, <1>4, <1>5, <1>14, <1>5, <2>3, <2>4, <2>6, Constants DEF Careful, Known, IsDir, Type, CwdOwn, Op, End, NoOp
  <2>10. ASSUME NEW j \in Inum PROVE Total(t, h, c, j) = Total(s, g, c, j) + Is(None, j)
    BY <1>2, <1>3, <1>4, <1>5, <1>14, <1>5, <2>4, <2>6, Constants
    DEF Total, Is, OpOwn, IpOwn, OldOwn, DpOwn, CwdOwn, Owning, Layers, Layer, Fits, NoOp, Op, Putting, End
  <2>11. Unlocks(p, s, g, t, h, c, i)
    BY <1>1, <1>10, <1>13, <2>6, <2>7, <2>8, <2>10 DEF Unlocks
  <2>. QED BY <1>2, <2>11, UnlocksStep
<1>. QED BY <1>15

\* The link is counted, then the directory for it looked up.
LEMMA LinkCountStep == ASSUME FsInv, NEW p \in Proc, link_count(p) PROVE FsInv'
<1>1. PICK s, g, L, i, c, t, h : /\ s = k[p] /\ g = r[p] /\ L = Len(s) /\ i = Target(p) /\ c = cwd[p]
                                /\ t = k'[p] /\ h = r'[p]
  OBVIOUS
<1>2. /\ s # <<>> /\ Deep(s, L).op = "link_count" /\ g.ip = i /\ i \in Inum /\ Head(s).op = "link_count"
      /\ Type(i) # "none" /\ lock[i] = None /\ Fits("link_count", L, Deep(s, L - 1).op)
  <2>1. At(p, "link_count") /\ CanLock(p, "link_count") BY LockAt DEF link_count
  <2>2. Type(i) # "none" /\ lock[i] = None /\ i \in Inum BY <2>1, <1>1, LockAt
  <2>3. "link_count" \notin Owning \cup Naming \cup {"fileclose"} BY DEF Owning, Naming, Putting
  <2>. QED BY <2>1, <2>2, <2>3, <1>1, AtOp
<1>3. StackOK(s) /\ RegsOK(s, g) /\ Layers(s, L) /\ g \in Regs /\ Known(s, g, c) /\ c \in Inum
  BY <1>1, <1>2, Here
<1>4. L = 3 /\ Deep(s, 1).op = "end_op" /\ Deep(s, 2).op = "link_dir" /\ Deep(s, 3).op = "link_count"
      /\ Deep(s, 4) = NoOp /\ Deep(s, 5) = NoOp /\ Deep(s, 6) = NoOp
  BY <1>2, <1>3 DEF Layers, Layer, Fits, Putting
<1>5. i # None /\ g.old = None BY <1>2, <1>3, <1>4, Constants DEF RegsOK
<1>6. PICK w, st : w = g.new /\ st = Start(p, w) OBVIOUS
<1>7. st \in Inum /\ st # None /\ w.names \in Seq(Name)
  BY <1>1, <1>3, <1>6, Constants DEF Start, Regs
<1>10. /\ Within
       /\ IF IsDir(i) THEN ilock(p, i, FALSE, None) /\ Fail(p, <<Op("iput", i)>>) /\ UNCHANGED <<d, r>>
          ELSE /\ ilock(p, i, FALSE, st)
               /\ d' = [d EXCEPT !.ino[i].nlink = @ + 1]
               /\ r' = [r EXCEPT ![p] = namex_regs(p, w, [g EXCEPT !.old = i, !.parent = TRUE])]
               /\ Continue(p, namex_ops(p, w, [g EXCEPT !.old = i, !.parent = TRUE]))
  BY <1>1, <1>6 DEF link_count
<1>11. Regular(p) BY <1>10 DEF Regular
<1>15. CASE IsDir(i)
  <2>14. h = g /\ h.ip = i BY <1>1, <1>2, <1>10, <1>15
  <2>12. Linking BY <1>10, <1>15, Parts, NothingLinked
  <2>0. OpOK(Op("iput", i)) /\ Fits("iput", 2, "end_op")
    BY <1>2, GoodOps DEF Owning, Putting, Fits
  <2>1. Give1(p, t, "iput", i) BY <2>0, <1>1, <1>10, <1>11, <1>15 DEF Give1
  <2>2. Only(p) BY <2>1, ToGive1
  <2>3. StackOK(t) /\ Layers(t, 2) BY <2>1, ToGive1
  <2>4. /\ Deep(t, 1) = End /\ Deep(t, 2) = Op("iput", i) /\ Deep(t, 3) = NoOp
        /\ Deep(t, 4) = NoOp /\ Deep(t, 5) = NoOp /\ Deep(t, 6) = NoOp
    BY <2>1, ToGive1 DEF Depths
  <2>5. RegsOK(t, h)
    BY <1>2, <1>3, <1>4, <1>5, <2>14, <1>15, <2>3, <2>4, Constants DEF RegsOK, Layers, Layer, Fits, NoOp, Op, Putting, End
  <2>6. /\ t # <<>> /\ InTransaction(s) /\ InTransaction(t) /\ ~Busy(t) /\ ~Closed(t, h)
        /\ Dying(s) = None /\ Dying(t) = None /\ Main(s, g) = None /\ Main(t, h) = None
        /\ NextCwd(t, h) = None /\ Fresh(t, h) = None /\ CwdOwn(t, c) = CwdOwn(s, c)
    BY <1>2, <1>3, <1>4, <1>5, <2>14, <1>15, <2>3, <2>4, Constants DEF Layers, Layer, Fits, NoOp, Op, Putting, End,
       InTransaction, Busy, Closed, Leaving, Main, Dying, NextCwd, Fresh, CwdOwn
  <2>7. Goes(p, s, g, t, h)
    BY <1>1, <1>2, <1>10, <2>2, <2>3, <2>5, <2>6 DEF Goes
  <2>8. Careful(p, s, g, t, h, c) /\ Known(t, h, c)
    BY <1>2, <1>3, <1>4, <1>5, <2>14, <1>15, <2>3, <2>4, <2>6, Constants DEF Careful, Known, IsDir, Type, CwdOwn, Op, End, NoOp
  <2>10. ASSUME NEW j \in Inum PROVE Total(t, h, c, j) = Total(s, g, c, j) + Is(None, j)
    BY <1>2, <1>3, <1>4, <1>5, <2>14, <1>15, <2>4, <2>6, Constants
    DEF Total, Is, OpOwn, IpOwn, OldOwn, DpOwn, CwdOwn, Owning, Layers, Layer, Fits, NoOp, Op, Putting, End
  <2>11. Cached(p, i, FALSE, None) BY <1>2, <1>10, <1>15, Ilocked
  <2>13. Ilocks(p, s, g, t, h, c, i, FALSE, None)
    BY <1>1, <1>2, <2>6, <2>7, <2>8, <2>10, <2>11, <2>12 DEF Ilocks
  <2>. QED BY <1>2, <2>13, IlocksStep
<1>16. CASE ~IsDir(i)
  <2>12. Linking
    <3>1. PICK x : x = d.ino[i].nlink + 1 OBVIOUS
    <3>2. x \in Int BY <3>1, <1>2, Parts, DiskParts DEF TypeOK, Inodes
    <3>3. d' = [d EXCEPT !.ino[i].nlink = x] BY <1>10, <1>16, <3>1
    <3>. QED BY <3>2, <3>3, <1>2, Parts, CountSet
  <2>15. Cached(p, i, FALSE, st) BY <1>2, <1>7, <1>10, <1>16, Ilocked
  <2>14. h \in Regs /\ h.path = w.names /\ h.ip = (IF w.names = <<>> THEN None ELSE st) /\ h.old = i
         /\ h.dp = g.dp /\ h.type = g.type
    <3>1. PICK v : v = (IF w.names = <<>> THEN None ELSE st) OBVIOUS
    <3>2. v \in Inum \cup {None} BY <1>7, <3>1
    <3>3. h = namex_regs(p, w, [g EXCEPT !.old = i, !.parent = TRUE]) BY <1>1, <1>10, <1>16, Here
    <3>4. [g EXCEPT !.old = i, !.parent = TRUE].parent = TRUE BY <1>3 DEF Regs
    <3>5. h = [[g EXCEPT !.old = i, !.parent = TRUE] EXCEPT !.path = w.names, !.ip = v]
      BY <1>6, <3>1, <3>3, <3>4 DEF namex_regs
    <3>6. h = [g EXCEPT !.old = i, !.parent = TRUE, !.path = w.names, !.ip = v] BY <3>5
    <3>7. h \in Regs BY <1>2, <1>3, <1>7, <3>2, <3>6 DEF Regs
    <3>. QED BY <1>3, <3>1, <3>6, <3>7 DEF Regs
  <2>16. CASE w.names # <<>>
    <3>0. OpOK(Op("walk", st)) /\ Fits("walk", L, Deep(s, L - 1).op)
      BY <1>4, <1>7, GoodOps DEF Owning, Naming, Putting, Fits
    <3>9. Continue(p, <<Op("walk", st)>>)
      <4>1. [g EXCEPT !.old = i, !.parent = TRUE].parent = TRUE BY <1>3 DEF Regs
      <4>2. namex_ops(p, w, [g EXCEPT !.old = i, !.parent = TRUE]) = <<Op("walk", st)>>
        BY <1>6, <2>16, <4>1 DEF namex_ops
      <4>. QED BY <1>10, <1>16, <4>2
    <3>1. Next1(p, s, t, L, "walk", st) BY <3>0, <1>1, <1>2, <3>9, <1>11 DEF Next1
    <3>2. Only(p) BY <3>1, ToNext1
    <3>3. StackOK(t) /\ Layers(t, L) BY <3>1, ToNext1
    <3>4. /\ Deep(t, 1) = Deep(s, 1) /\ Deep(t, 2) = Deep(s, 2) /\ Deep(t, 3) = Op("walk", st)
          /\ Deep(t, 4) = NoOp /\ Deep(t, 5) = NoOp /\ Deep(t, 6) = NoOp
      BY <3>1, <1>4, <1>5, ToNext1
    <3>5. RegsOK(t, h)
      BY <1>2, <1>3, <1>4, <1>5, <2>14, <1>7, <2>16, <3>3, <3>4, Constants DEF RegsOK, Layers, Layer, Fits, NoOp, Op, Putting, End
    <3>6. /\ t # <<>> /\ InTransaction(s) /\ InTransaction(t) /\ ~Busy(t) /\ ~Closed(t, h)
          /\ Dying(s) = None /\ Dying(t) = None /\ Main(s, g) = None /\ Main(t, h) = None
          /\ NextCwd(t, h) = None /\ Fresh(t, h) = None /\ CwdOwn(t, c) = CwdOwn(s, c)
      BY <1>2, <1>3, <1>4, <1>5, <2>14, <1>7, <2>16, <3>3, <3>4, Constants DEF Layers, Layer, Fits, NoOp, Op, Putting, End,
         InTransaction, Busy, Closed, Leaving, Main, Dying, NextCwd, Fresh, CwdOwn
    <3>7. Goes(p, s, g, t, h)
      BY <1>1, <1>2, <1>10, <3>2, <3>3, <3>5, <3>6 DEF Goes
    <3>8. Careful(p, s, g, t, h, c) /\ Known(t, h, c)
      BY <1>2, <1>3, <1>4, <1>5, <2>14, <1>7, <2>16, <3>3, <3>4, <3>6, Constants DEF Careful, Known, IsDir, Type, CwdOwn, Op, End, NoOp
    <3>10. ASSUME NEW j \in Inum PROVE Total(t, h, c, j) = Total(s, g, c, j) + Is(st, j)
      BY <1>2, <1>3, <1>4, <1>5, <2>14, <1>7, <2>16, <3>4, <3>6, Constants
      DEF Total, Is, OpOwn, IpOwn, OldOwn, DpOwn, CwdOwn, Owning, Layers, Layer, Fits, NoOp, Op, Putting, End
    <3>11. Ilocks(p, s, g, t, h, c, i, FALSE, st)
      BY <1>1, <1>2, <2>12, <2>15, <3>6, <3>7, <3>8, <3>10 DEF Ilocks
    <3>. QED BY <1>2, <3>11, IlocksStep
  <2>17. CASE w.names = <<>>
    <3>0. OpOK(Op("iput", st)) /\ Fits("iput", L, Deep(s, L - 1).op)
      BY <1>4, <1>7, GoodOps DEF Owning, Naming, Putting, Fits
    <3>9. Continue(p, <<Op("iput", st)>>)
      <4>1. [g EXCEPT !.old = i, !.parent = TRUE].parent = TRUE BY <1>3 DEF Regs
      <4>2. namex_ops(p, w, [g EXCEPT !.old = i, !.parent = TRUE]) = <<Op("iput", st)>>
        BY <1>6, <2>17, <4>1 DEF namex_ops
      <4>. QED BY <1>10, <1>16, <4>2
    <3>1. Next1(p, s, t, L, "iput", st) BY <3>0, <1>1, <1>2, <3>9, <1>11 DEF Next1
    <3>2. Only(p) BY <3>1, ToNext1
    <3>3. StackOK(t) /\ Layers(t, L) BY <3>1, ToNext1
    <3>4. /\ Deep(t, 1) = Deep(s, 1) /\ Deep(t, 2) = Deep(s, 2) /\ Deep(t, 3) = Op("iput", st)
          /\ Deep(t, 4) = NoOp /\ Deep(t, 5) = NoOp /\ Deep(t, 6) = NoOp
      BY <3>1, <1>4, <1>5, ToNext1
    <3>5. RegsOK(t, h)
      BY <1>2, <1>3, <1>4, <1>5, <2>14, <1>7, <2>17, <3>3, <3>4, Constants DEF RegsOK, Layers, Layer, Fits, NoOp, Op, Putting, End
    <3>6. /\ t # <<>> /\ InTransaction(s) /\ InTransaction(t) /\ ~Busy(t) /\ ~Closed(t, h)
          /\ Dying(s) = None /\ Dying(t) = None /\ Main(s, g) = None /\ Main(t, h) = None
          /\ NextCwd(t, h) = None /\ Fresh(t, h) = None /\ CwdOwn(t, c) = CwdOwn(s, c)
      BY <1>2, <1>3, <1>4, <1>5, <2>14, <1>7, <2>17, <3>3, <3>4, Constants DEF Layers, Layer, Fits, NoOp, Op, Putting, End,
         InTransaction, Busy, Closed, Leaving, Main, Dying, NextCwd, Fresh, CwdOwn
    <3>7. Goes(p, s, g, t, h)
      BY <1>1, <1>2, <1>10, <3>2, <3>3, <3>5, <3>6 DEF Goes
    <3>8. Careful(p, s, g, t, h, c) /\ Known(t, h, c)
      BY <1>2, <1>3, <1>4, <1>5, <2>14, <1>7, <2>17, <3>3, <3>4, <3>6, Constants DEF Careful, Known, IsDir, Type, CwdOwn, Op, End, NoOp
    <3>10. ASSUME NEW j \in Inum PROVE Total(t, h, c, j) = Total(s, g, c, j) + Is(st, j)
      BY <1>2, <1>3, <1>4, <1>5, <2>14, <1>7, <2>17, <3>4, <3>6, Constants
      DEF Total, Is, OpOwn, IpOwn, OldOwn, DpOwn, CwdOwn, Owning, Layers, Layer, Fits, NoOp, Op, Putting, End
    <3>11. Ilocks(p, s, g, t, h, c, i, FALSE, st)
      BY <1>1, <1>2, <2>12, <2>15, <3>6, <3>7, <3>8, <3>10 DEF Ilocks
    <3>. QED BY <1>2, <3>11, IlocksStep
  <2>. QED BY <2>16, <2>17
<1>. QED BY <1>15, <1>16

\* A name is removed with its directory locked, unless it leads to a directory in use.
LEMMA UnlinkInodeStep == ASSUME FsInv, NEW p \in Proc, unlink_inode(p) PROVE FsInv'
<1>1. PICK s, g, L, i, c, t, h : /\ s = k[p] /\ g = r[p] /\ L = Len(s) /\ i = Target(p) /\ c = cwd[p]
                                /\ t = k'[p] /\ h = r'[p]
  OBVIOUS
<1>2. /\ s # <<>> /\ Deep(s, L).op = "unlink_inode" /\ Deep(s, L).ip = i /\ i \in Inum /\ Head(s).op = "unlink_inode"
      /\ Type(i) # "none" /\ lock[i] = None /\ Fits("unlink_inode", L, Deep(s, L - 1).op)
  <2>1. At(p, "unlink_inode") /\ CanLock(p, "unlink_inode") BY LockAt DEF unlink_inode
  <2>2. Type(i) # "none" /\ lock[i] = None /\ i \in Inum BY <2>1, <1>1, LockAt
  <2>3. "unlink_inode" \in Owning
    BY DEF Owning, Naming
  <2>. QED BY <2>1, <2>2, <2>3, <1>1, AtOp
<1>3. StackOK(s) /\ RegsOK(s, g) /\ Layers(s, L) /\ g \in Regs /\ Known(s, g, c) /\ c \in Inum
  BY <1>1, <1>2, Here
<1>4. L = 2 /\ Deep(s, 1).op = "end_op" /\ Deep(s, 2).op = "unlink_inode" /\ Deep(s, 3) = NoOp
      /\ Deep(s, 4) = NoOp /\ Deep(s, 5) = NoOp /\ Deep(s, 6) = NoOp
  BY <1>2, <1>3 DEF Layers, Layer, Fits, Putting
<1>6. PICK dp : dp = g.dp OBVIOUS
<1>7. dp \in Inum /\ dp # None /\ g.name \in Name
  <2>1. g.dp # None BY <1>3, <1>4 DEF RegsOK
  <2>. QED BY <2>1, <1>3, <1>6, Constants DEF Regs
<1>8. Main(s, g) = dp /\ Type(dp) # "none" /\ Deep(s, 2).ip = i
  <2>1. Main(s, g) = dp BY <1>4, <1>6 DEF Main
  <2>. QED BY <2>1, <1>2, <1>3, <1>4, <1>7 DEF Known
<1>5. i # None /\ lock[dp] = p /\ i # dp
  <2>1. lock[dp] = p BY <1>1, <1>7, <1>8, Parts DEF Locks
  <2>. QED BY <2>1, <1>2, Constants
<1>10. /\ UNCHANGED r /\ Within
       /\ IF IsDir(i) /\ ~isdirempty(i)
          THEN ilock(p, i, FALSE, None) /\ Fail(p, <<Op("iput", i), Op("unlink_bad", dp)>>) /\ UNCHANGED d
          ELSE /\ d' = IF IsDir(i) THEN [[d EXCEPT !.ent[dp][g.name] = None] EXCEPT !.ino[dp].nlink = @ - 1]
                       ELSE [d EXCEPT !.ent[dp][g.name] = None]
               /\ ilock_iunlock(p, i, dp)
               /\ Continue(p, <<Op("iput", dp), Op("unlink_done", i)>>)
  BY <1>1, <1>6 DEF unlink_inode
<1>14. h = g BY <1>1, <1>10
<1>11. Regular(p) BY <1>10 DEF Regular
<1>15. CASE IsDir(i) /\ ~isdirempty(i)
  <2>12. Linking BY <1>10, <1>15, Parts, NothingLinked
  <2>0. /\ OpOK(Op("iput", i)) /\ OpOK(Op("unlink_bad", dp))
        /\ Fits("unlink_bad", 2, "end_op") /\ Fits("iput", 3, "unlink_bad")
    BY <1>2, <1>7, GoodOps DEF Owning, Putting, Fits
  <2>1. Give2(p, t, "iput", i, "unlink_bad", dp) BY <2>0, <1>1, <1>10, <1>11, <1>15 DEF Give2
  <2>2. Only(p) BY <2>1, ToGive2
  <2>3. StackOK(t) /\ Layers(t, 3) BY <2>1, ToGive2
  <2>4. /\ Deep(t, 1) = End /\ Deep(t, 2) = Op("unlink_bad", dp) /\ Deep(t, 3) = Op("iput", i)
        /\ Deep(t, 4) = NoOp /\ Deep(t, 5) = NoOp /\ Deep(t, 6) = NoOp
    BY <2>1, ToGive2 DEF Depths
  <2>5. RegsOK(t, h)
    BY <1>2, <1>3, <1>4, <1>5, <1>14, <1>6, <1>7, <1>8, <1>15, <2>3, <2>4, Constants DEF RegsOK, Layers, Layer, Fits, NoOp, Op, Putting, End
  <2>6. /\ t # <<>> /\ InTransaction(s) /\ InTransaction(t) /\ ~Busy(t) /\ ~Closed(t, h)
        /\ Dying(s) = None /\ Dying(t) = None /\ Main(s, g) = dp /\ Main(t, h) = dp
        /\ NextCwd(t, h) = None /\ Fresh(t, h) = None /\ CwdOwn(t, c) = CwdOwn(s, c)
    BY <1>2, <1>3, <1>4, <1>5, <1>14, <1>6, <1>7, <1>8, <1>15, <2>3, <2>4, Constants DEF Layers, Layer, Fits, NoOp, Op, Putting, End,
       InTransaction, Busy, Closed, Leaving, Main, Dying, NextCwd, Fresh, CwdOwn
  <2>7. Goes(p, s, g, t, h)
    BY <1>1, <1>2, <1>10, <2>2, <2>3, <2>5, <2>6 DEF Goes
  <2>8. Careful(p, s, g, t, h, c) /\ Known(t, h, c)
    BY <1>2, <1>3, <1>4, <1>5, <1>14, <1>6, <1>7, <1>8, <1>15, <2>3, <2>4, <2>6, Constants DEF Careful, Known, IsDir, Type, CwdOwn, Op, End, NoOp
  <2>10. ASSUME NEW j \in Inum PROVE Total(t, h, c, j) = Total(s, g, c, j) + Is(None, j)
    BY <1>2, <1>3, <1>4, <1>5, <1>14, <1>6, <1>7, <1>8, <1>15, <2>4, <2>6, Constants
    DEF Total, Is, OpOwn, IpOwn, OldOwn, DpOwn, CwdOwn, Owning, Layers, Layer, Fits, NoOp, Op, Putting, End
  <2>11. Cached(p, i, FALSE, None) BY <1>2, <1>10, <1>15, Ilocked
  <2>13. Ilocks(p, s, g, t, h, c, i, FALSE, None)
    BY <1>1, <1>2, <2>6, <2>7, <2>8, <2>10, <2>11, <2>12 DEF Ilocks
  <2>. QED BY <1>2, <2>13, IlocksStep
<1>16. CASE ~(IsDir(i) /\ ~isdirempty(i))
  <2>12. Linking
    <3>1. CASE IsDir(i)
      <4>1. PICK x : x = d.ino[dp].nlink - 1 OBVIOUS
      <4>2. x \in Int BY <4>1, <1>7, Parts, DiskParts DEF TypeOK, Inodes
      <4>3. d' = [d EXCEPT !.ent[dp][g.name] = None, !.ino[dp].nlink = x]
        <5>1. d' = [[d EXCEPT !.ent[dp][g.name] = None] EXCEPT !.ino[dp].nlink = @ - 1] BY <1>10, <1>16, <3>1
        <5>2. d \in Disks BY Parts DEF TypeOK
        <5>. QED BY <4>1, <5>1, <5>2, DiskParts
      <4>4. None \in Inum \cup {None} OBVIOUS
      <4>. QED BY <4>2, <4>3, <4>4, <1>7, <1>8, Parts, EntrySet
    <3>2. CASE ~IsDir(i)
      <4>1. d' = [d EXCEPT !.ent[dp][g.name] = None] BY <1>10, <3>2
      <4>2. None \in Inum \cup {None} OBVIOUS
      <4>. QED BY <4>1, <4>2, <1>7, <1>8, Parts, EntryOnly
    <3>. QED BY <3>1, <3>2
  <2>0. /\ OpOK(Op("iput", dp)) /\ OpOK(Op("unlink_done", i)) /\ L < 6
        /\ Fits("unlink_done", L, Deep(s, L - 1).op) /\ Fits("iput", L + 1, "unlink_done")
    BY <1>2, <1>4, <1>7, GoodOps DEF Owning, Putting, Fits
  <2>1. Next2(p, s, t, L, "iput", dp, "unlink_done", i) BY <2>0, <1>1, <1>2, <1>10, <1>11, <1>16 DEF Next2
  <2>2. Only(p) BY <2>1, ToNext2
  <2>3. StackOK(t) /\ Layers(t, L + 1) BY <2>1, ToNext2
  <2>4. /\ Deep(t, 1) = Deep(s, 1) /\ Deep(t, 2) = Op("unlink_done", i) /\ Deep(t, 3) = Op("iput", dp)
        /\ Deep(t, 4) = NoOp /\ Deep(t, 5) = NoOp /\ Deep(t, 6) = NoOp
    BY <2>1, <1>4, <1>5, ToNext2
  <2>5. RegsOK(t, h)
    BY <1>2, <1>3, <1>4, <1>5, <1>14, <1>6, <1>7, <1>8, <1>16, <2>3, <2>4, Constants DEF RegsOK, Layers, Layer, Fits, NoOp, Op, Putting, End
  <2>6. /\ t # <<>> /\ InTransaction(s) /\ InTransaction(t) /\ ~Busy(t) /\ ~Closed(t, h)
        /\ Dying(s) = None /\ Dying(t) = None /\ Main(s, g) = dp /\ Main(t, h) = i
        /\ NextCwd(t, h) = None /\ Fresh(t, h) = None /\ CwdOwn(t, c) = CwdOwn(s, c)
    BY <1>2, <1>3, <1>4, <1>5, <1>14, <1>6, <1>7, <1>8, <1>16, <2>3, <2>4, Constants DEF Layers, Layer, Fits, NoOp, Op, Putting, End,
       InTransaction, Busy, Closed, Leaving, Main, Dying, NextCwd, Fresh, CwdOwn
  <2>7. Goes(p, s, g, t, h)
    BY <1>1, <1>2, <1>10, <2>2, <2>3, <2>5, <2>6 DEF Goes
  <2>8. Careful(p, s, g, t, h, c) /\ Known(t, h, c)
    BY <1>2, <1>3, <1>4, <1>5, <1>14, <1>6, <1>7, <1>8, <1>16, <2>3, <2>4, <2>6, Constants DEF Careful, Known, IsDir, Type, CwdOwn, Op, End, NoOp
  <2>10. ASSUME NEW j \in Inum PROVE Total(t, h, c, j) = Total(s, g, c, j) + Is(None, j)
    BY <1>2, <1>3, <1>4, <1>5, <1>14, <1>6, <1>7, <1>8, <1>16, <2>4, <2>6, Constants
    DEF Total, Is, OpOwn, IpOwn, OldOwn, DpOwn, CwdOwn, Owning, Layers, Layer, Fits, NoOp, Op, Putting, End
  <2>11. lock' = [lock EXCEPT ![dp] = None, ![i] = p] /\ valid' = [valid EXCEPT ![i] = TRUE] /\ UNCHANGED ref
    BY <1>10, <1>16 DEF ilock_iunlock
  <2>13. /\ lock \in [Inum -> Proc \cup {None}] /\ valid \in [Inum -> BOOLEAN] /\ ref \in [Inum -> Nat]
         /\ \A j \in Inum : valid[j] => Type(j) # "none"
    BY Parts DEF TypeOK, InUse
  <2>14. Relocks(p, Main(t, h), None)
    BY <1>1, <1>2, <1>5, <1>7, <2>6, <2>11, <2>13, Constants DEF Relocks
  <2>15. /\ valid' \in [Inum -> BOOLEAN] /\ \A j \in Inum : valid'[j] => Type(j) # "none"
         /\ ref' \in [Inum -> Nat] /\ \A j \in Inum : ref'[j] = ref[j] + Is(None, j)
    BY <1>2, <2>11, <2>13, Constants DEF Is
  <2>16. Relinks(p, s, g, t, h, c, None)
    BY <1>1, <2>7, <2>8, <2>10, <2>12, <2>14, <2>15 DEF Relinks
  <2>. QED BY <2>16, RelinksStep
<1>. QED BY <1>15, <1>16

\* create() of a name that is there.
LEMMA CreateOldStep == ASSUME FsInv, NEW p \in Proc, create(p), Found(Target(p), r[p].name) # None PROVE FsInv'
<1>1. PICK s, g, L, i, c, t, h : /\ s = k[p] /\ g = r[p] /\ L = Len(s) /\ i = Target(p) /\ c = cwd[p]
                                /\ t = k'[p] /\ h = r'[p]
  OBVIOUS
<1>2. /\ s # <<>> /\ Deep(s, L).op = "create" /\ g.ip = i /\ i \in Inum /\ Head(s).op = "create"
      /\ Type(i) # "none" /\ lock[i] = None /\ Fits("create", L, Deep(s, L - 1).op)
  <2>1. At(p, "create") /\ CanLock(p, "create") BY LockAt DEF create
  <2>2. Type(i) # "none" /\ lock[i] = None /\ i \in Inum BY <2>1, <1>1, LockAt
  <2>3. "create" \notin Owning \cup Naming \cup {"fileclose"} BY DEF Owning, Naming, Putting
  <2>. QED BY <2>1, <2>2, <2>3, <1>1, AtOp
<1>3. StackOK(s) /\ RegsOK(s, g) /\ Layers(s, L) /\ g \in Regs /\ Known(s, g, c) /\ c \in Inum
  BY <1>1, <1>2, Here
<1>4. L = 3 /\ Deep(s, 2).op \in {"open_file", "put_new"} BY <1>2 DEF Fits, Putting
<1>6. PICK e : e = Found(i, g.name) OBVIOUS
<1>7. e \in Inum /\ e # None
  <2>1. Found(i, g.name) \in Inum \cup {None} BY <1>2, <1>3, Lookup, Parts DEF Regs
  <2>. QED BY <2>1, <1>1, <1>6, Constants
<1>5. i # None /\ Deep(s, 1).op = "end_op" /\ Deep(s, 3).op = "create"
      /\ Deep(s, 4) = NoOp /\ Deep(s, 5) = NoOp /\ Deep(s, 6) = NoOp
  BY <1>2, <1>3, <1>4, Constants DEF Layers, Layer, Fits, Putting
<1>10. /\ ilock(p, i, FALSE, e) /\ UNCHANGED d /\ Within /\ r' = [r EXCEPT ![p].ip = e]
       /\ Continue(p, <<Op("iput", i), Op("create_found", e)>>)
  BY <1>1, <1>6 DEF create
<1>11. Regular(p) /\ h = [g EXCEPT !.ip = e]
  BY <1>1, <1>10, Here DEF Regular
<1>12. Cached(p, i, FALSE, e) BY <1>2, <1>7, <1>10, Ilocked
<1>13. Linking BY <1>10, Parts, NothingLinked
<1>14. h \in Regs /\ h.ip = e /\ h.old = g.old /\ h.dp = g.dp /\ h.type = g.type
  BY <1>3, <1>7, <1>11 DEF Regs
<1>15. FsInv'
  <2>0. /\ OpOK(Op("iput", i)) /\ OpOK(Op("create_found", e)) /\ L < 6
        /\ Fits("create_found", L, Deep(s, L - 1).op) /\ Fits("iput", L + 1, "create_found")
    BY <1>2, <1>4, <1>7, GoodOps DEF Owning, Naming, Putting, Fits
  <2>1. Next2(p, s, t, L, "iput", i, "create_found", e) BY <2>0, <1>1, <1>2, <1>10, <1>11 DEF Next2
  <2>2. Only(p) BY <2>1, ToNext2
  <2>3. StackOK(t) /\ Layers(t, L + 1) BY <2>1, ToNext2
  <2>4. /\ Deep(t, 1) = Deep(s, 1) /\ Deep(t, 2) = Deep(s, 2) /\ Deep(t, 3) = Op("create_found", e)
        /\ Deep(t, 4) = Op("iput", i) /\ Deep(t, 5) = NoOp /\ Deep(t, 6) = NoOp
    BY <2>1, <1>4, <1>5, ToNext2
  <2>5. RegsOK(t, h)
    BY <1>2, <1>3, <1>4, <1>5, <1>14, <1>7, <2>3, <2>4, Constants DEF RegsOK, Layers, Layer, Fits, NoOp, Op, Putting, End
  <2>6. /\ t # <<>> /\ InTransaction(s) /\ InTransaction(t) /\ ~Busy(t) /\ ~Closed(t, h)
        /\ Dying(s) = None /\ Dying(t) = None /\ Main(s, g) = None /\ Main(t, h) = None
        /\ NextCwd(t, h) = None /\ Fresh(t, h) = None /\ CwdOwn(t, c) = CwdOwn(s, c)
    BY <1>2, <1>3, <1>4, <1>5, <1>14, <1>7, <2>3, <2>4, Constants DEF Layers, Layer, Fits, NoOp, Op, Putting, End,
       InTransaction, Busy, Closed, Leaving, Main, Dying, NextCwd, Fresh, CwdOwn
  <2>7. Goes(p, s, g, t, h)
    BY <1>1, <1>2, <1>10, <2>2, <2>3, <2>5, <2>6 DEF Goes
  <2>8. Careful(p, s, g, t, h, c) /\ Known(t, h, c)
    BY <1>2, <1>3, <1>4, <1>5, <1>14, <1>7, <2>3, <2>4, <2>6, Constants DEF Careful, Known, IsDir, Type, CwdOwn, Op, End, NoOp
  <2>10. ASSUME NEW j \in Inum PROVE Total(t, h, c, j) = Total(s, g, c, j) + Is(e, j)
    BY <1>2, <1>3, <1>4, <1>5, <1>14, <1>7, <2>4, <2>6, Constants
    DEF Total, Is, OpOwn, IpOwn, OldOwn, DpOwn, CwdOwn, Owning, Layers, Layer, Fits, NoOp, Op, Putting, End
  <2>11. Ilocks(p, s, g, t, h, c, i, FALSE, e)
    BY <1>1, <1>2, <1>12, <1>13, <2>6, <2>7, <2>8, <2>10 DEF Ilocks
  <2>. QED BY <1>2, <2>11, IlocksStep
<1>. QED BY <1>15

\* A call whose path leads nowhere.
LEMMA NoInodeStep == ASSUME FsInv, NEW p \in Proc, no_inode(p) PROVE FsInv'
<1>1. PICK s, g, L, c, t, h, l : /\ s = k[p] /\ g = r[p] /\ L = Len(s) /\ c = cwd[p]
                                /\ t = k'[p] /\ h = r'[p] /\ l = Head(k[p]).op
  OBVIOUS
<1>2. /\ s # <<>> /\ Deep(s, L).op = l /\ g.ip = None /\ Head(s).op = l
      /\ Fits(l, L, Deep(s, L - 1).op)
      /\ l \in {"create", "open_lock", "open_file", "put_new", "link_count", "link_dir", "unlink", "chdir"}
  <2>1. At(p, l) /\ Target(p) = None
        /\ l \in {"create", "open_lock", "open_file", "put_new", "link_count", "link_dir", "unlink", "chdir"}
    BY <1>1 DEF no_inode, At
  <2>2. l \notin Owning \cup Naming \cup {"fileclose"} BY <2>1 DEF Owning, Naming, Putting
  <2>. QED BY <2>1, <2>2, <1>1, AtOp
<1>3. StackOK(s) /\ RegsOK(s, g) /\ Layers(s, L) /\ g \in Regs /\ Known(s, g, c) /\ c \in Inum
  BY <1>1, <1>2, Here
<1>4. L \in {2, 3} /\ (L = 2 => Deep(s, 2).op = l /\ Deep(s, 3) = NoOp) /\ (L = 3 => Deep(s, 3).op = l)
      /\ Deep(s, 4) = NoOp /\ Deep(s, 5) = NoOp /\ Deep(s, 6) = NoOp
  BY <1>2, <1>3 DEF Layers, Layer, Fits, Putting
<1>5. Deep(s, 1).op = "end_op" \/ (Deep(s, 1).op = "set_cwd" /\ Deep(s, 3).op = "chdir")
  BY <1>2, <1>3, <1>4 DEF Layers, Layer, Fits, Putting
<1>10. /\ UNCHANGED <<d, ref, valid, lock, r>> /\ Within
       /\ Fail(p, IF l = "link_dir" THEN <<Op("link_undo", g.old)>> ELSE <<>>)
  BY <1>1 DEF no_inode
<1>14. h = g BY <1>1, <1>10
<1>11. Regular(p) BY <1>10 DEF Regular
<1>13. Linking BY <1>10, Parts, NothingLinked
<1>12. /\ lock \in [Inum -> Proc \cup {None}] /\ valid' \in [Inum -> BOOLEAN] /\ ref' \in [Inum -> Nat]
       /\ \A j \in Inum : valid'[j] => Type(j) # "none"
       /\ \A j \in Inum : ref'[j] = ref[j] + Is(None, j)
  BY <1>10, Parts, Constants DEF TypeOK, InUse, Is
<1>15. CASE l = "link_dir"
  <2>14. L = 2 /\ g.old \in Inum /\ g.old # None
    <3>1. L = 2 BY <1>2, <1>15 DEF Fits, Putting
    <3>2. Deep(s, 2).op = "link_dir" /\ Deep(s, 3).op # "link_count" BY <3>1, <1>4, <1>15 DEF NoOp, Op
    <3>. QED BY <3>1, <3>2, <1>3 DEF RegsOK, Regs
  <2>0. OpOK(Op("link_undo", g.old)) /\ Fits("link_undo", 2, "end_op")
    BY <2>14, GoodOps DEF Owning, Putting, Fits
  <2>1. Give1(p, t, "link_undo", g.old) BY <2>0, <1>1, <1>10, <1>11, <1>15 DEF Give1
  <2>2. Only(p) BY <2>1, ToGive1
  <2>3. StackOK(t) /\ Layers(t, 2) BY <2>1, ToGive1
  <2>4. /\ Deep(t, 1) = End /\ Deep(t, 2) = Op("link_undo", g.old) /\ Deep(t, 3) = NoOp
        /\ Deep(t, 4) = NoOp /\ Deep(t, 5) = NoOp /\ Deep(t, 6) = NoOp
    BY <2>1, ToGive1 DEF Depths
  <2>5. RegsOK(t, h)
    BY <1>2, <1>3, <1>4, <1>5, <1>14, <1>15, <2>14, <2>3, <2>4, Constants DEF RegsOK, Layers, Layer, Fits, NoOp, Op, Putting, End
  <2>6. /\ t # <<>> /\ InTransaction(s) /\ InTransaction(t) /\ ~Busy(t) /\ ~Closed(t, h)
        /\ Dying(s) = None /\ Dying(t) = None /\ Main(s, g) = None /\ Main(t, h) = None
        /\ NextCwd(t, h) = None /\ Fresh(t, h) = None /\ CwdOwn(t, c) = CwdOwn(s, c)
    BY <1>2, <1>3, <1>4, <1>5, <1>14, <1>15, <2>14, <2>3, <2>4, Constants DEF Layers, Layer, Fits, NoOp, Op, Putting, End,
       InTransaction, Busy, Closed, Leaving, Main, Dying, NextCwd, Fresh, CwdOwn
  <2>7. Goes(p, s, g, t, h)
    BY <1>1, <1>2, <1>10, <2>2, <2>3, <2>5, <2>6 DEF Goes
  <2>8. Careful(p, s, g, t, h, c) /\ Known(t, h, c)
    BY <1>2, <1>3, <1>4, <1>5, <1>14, <1>15, <2>14, <2>3, <2>4, <2>6, Constants DEF Careful, Known, IsDir, Type, CwdOwn, Op, End, NoOp
  <2>10. ASSUME NEW j \in Inum PROVE Total(t, h, c, j) = Total(s, g, c, j) + Is(None, j)
    BY <1>2, <1>3, <1>4, <1>5, <1>14, <1>15, <2>14, <2>4, <2>6, Constants
    DEF Total, Is, OpOwn, IpOwn, OldOwn, DpOwn, CwdOwn, Owning, Layers, Layer, Fits, NoOp, Op, Putting, End
  <2>11. Relocks(p, Main(t, h), None)
    BY <1>1, <1>10, <1>12, <2>6, Parts, Constants DEF Relocks, Locks
  <2>12. Relinks(p, s, g, t, h, c, None)
    BY <1>1, <1>12, <1>13, <2>7, <2>8, <2>10, <2>11 DEF Relinks
  <2>. QED BY <2>12, RelinksStep
<1>16. CASE l # "link_dir"
  <2>1. Give0(p, t) BY <1>1, <1>10, <1>11, <1>16 DEF Give0
  <2>2. Only(p) BY <2>1, ToGive0
  <2>3. StackOK(t) /\ Layers(t, 1) BY <2>1, ToGive0
  <2>4. /\ Deep(t, 1) = End /\ Deep(t, 2) = NoOp /\ Deep(t, 3) = NoOp
        /\ Deep(t, 4) = NoOp /\ Deep(t, 5) = NoOp /\ Deep(t, 6) = NoOp
    BY <2>1, ToGive0 DEF Depths
  <2>5. RegsOK(t, h)
    BY <1>2, <1>3, <1>4, <1>5, <1>14, <1>16, <2>3, <2>4, Constants DEF RegsOK, Layers, Layer, Fits, NoOp, Op, Putting, End
  <2>6. /\ t # <<>> /\ InTransaction(s) /\ InTransaction(t) /\ ~Busy(t) /\ ~Closed(t, h)
        /\ Dying(s) = None /\ Dying(t) = None /\ Main(s, g) = None /\ Main(t, h) = None
        /\ NextCwd(t, h) = None /\ Fresh(t, h) = None /\ CwdOwn(t, c) = CwdOwn(s, c)
    BY <1>2, <1>3, <1>4, <1>5, <1>14, <1>16, <2>3, <2>4, Constants DEF Layers, Layer, Fits, NoOp, Op, Putting, End,
       InTransaction, Busy, Closed, Leaving, Main, Dying, NextCwd, Fresh, CwdOwn
  <2>7. Goes(p, s, g, t, h)
    BY <1>1, <1>2, <1>10, <2>2, <2>3, <2>5, <2>6 DEF Goes
  <2>8. Careful(p, s, g, t, h, c) /\ Known(t, h, c)
    BY <1>2, <1>3, <1>4, <1>5, <1>14, <1>16, <2>3, <2>4, <2>6, Constants DEF Careful, Known, IsDir, Type, CwdOwn, Op, End, NoOp
  <2>9. /\ OpOwn(s, 1) = None /\ OpOwn(s, 2) = None /\ OpOwn(s, 3) = None
        /\ OpOwn(s, 4) = None /\ OpOwn(s, 5) = None /\ OpOwn(s, 6) = None
    <3>1. CASE L = 2
      BY <1>2, <1>4, <1>5, <3>1 DEF OpOwn, Owning, Putting, NoOp, Op
    <3>2. CASE L = 3
      <4>1. Deep(s, 2).op \in {"open_file", "put_new", "link_dir", "end_op"}
        BY <1>2, <1>3, <1>4, <1>5, <3>2 DEF Layers, Layer, Fits, Putting
      <4>. QED BY <1>2, <1>4, <1>5, <3>2, <4>1 DEF OpOwn, Owning, Putting, NoOp, Op
    <3>. QED BY <1>4, <3>1, <3>2
  <2>13. IpOwn(s, g) = None BY <1>2 DEF IpOwn
  <2>14. OldOwn(s, g) = None
    <3>1. CASE L = 2 BY <1>2, <1>4, <1>16, <3>1 DEF OldOwn
    <3>2. CASE L = 3
      <4>1. Deep(s, 2).op = "link_dir" => Deep(s, 3).op = "link_count"
        BY <1>2, <1>3, <1>4, <3>2 DEF Layers, Layer, Fits, Putting
      <4>. QED BY <4>1, <1>3 DEF OldOwn, RegsOK
    <3>. QED BY <1>4, <3>1, <3>2
  <2>15. DpOwn(s, g) = None
    <3>1. Deep(s, 3).op # "create_new" BY <1>2, <1>4 DEF NoOp, Op
    <3>2. Deep(s, 2).op # "unlink_inode"
      BY <1>2, <1>3, <1>4 DEF Layers, Layer, Fits, Putting
    <3>. QED BY <3>1, <3>2 DEF DpOwn
  <2>16. /\ OpOwn(t, 1) = None /\ OpOwn(t, 2) = None /\ OpOwn(t, 3) = None
         /\ OpOwn(t, 4) = None /\ OpOwn(t, 5) = None /\ OpOwn(t, 6) = None
         /\ IpOwn(t, h) = None /\ OldOwn(t, h) = None /\ DpOwn(t, h) = None
    BY <2>4 DEF OpOwn, IpOwn, OldOwn, DpOwn, Owning, Putting, NoOp, Op, End
  <2>10. ASSUME NEW j \in Inum PROVE Total(t, h, c, j) = Total(s, g, c, j) + Is(None, j)
    <3>1. None # j BY Constants
    <3>2. Is(None, j) = 0 /\ Is(CwdOwn(s, c), j) \in Nat BY <3>1 DEF Is
    <3>. QED BY <2>6, <2>9, <2>13, <2>14, <2>15, <2>16, <3>2 DEF Total
  <2>11. Relocks(p, Main(t, h), None)
    BY <1>1, <1>10, <1>12, <2>6, Parts, Constants DEF Relocks, Locks
  <2>12. Relinks(p, s, g, t, h, c, None)
    BY <1>1, <1>12, <1>13, <2>7, <2>8, <2>10, <2>11 DEF Relinks
  <2>. QED BY <2>12, RelinksStep
<1>. QED BY <1>15, <1>16

\* Blocks are where they were.
LEMMA SameBlocks ==
    ASSUME BlocksOwned, d'.used = d.used, \A i \in Inum : d'.ino[i].addrs = d.ino[i].addrs
    PROVE  BlocksOwned'
<1>1. UNION {ToSet(d'.ino[i].addrs) : i \in Inum} = UNION {ToSet(d.ino[i].addrs) : i \in Inum}
  OBVIOUS
<1>2. d'.used = UNION {ToSet(d'.ino[i].addrs) : i \in Inum}
  BY <1>1 DEF BlocksOwned
<1>3. \A i, j \in Inum : i # j =>
          ToSet(d'.ino[i].addrs) \cap ToSet(d'.ino[j].addrs) = {}
  BY DEF BlocksOwned
<1>4. \A i \in Inum : IsInjective(d'.ino[i].addrs)
  BY DEF BlocksOwned
<1>. QED BY <1>2, <1>3, <1>4 DEF BlocksOwned

\* ialloc() of inode n, which was free.
LEMMA Allocated ==
    ASSUME TypeOK, InUse, BlocksOwned, NEW n \in Inum, Type(n) = "none",
           NEW y \in {"file", "dir", "dev"}, d' = [d EXCEPT !.ino[n] = [FreeInode EXCEPT !.type = y]]
    PROVE  /\ d' \in Disks /\ BlocksOwned'
           /\ d'.ino[n].type = y /\ d'.ino[n].addrs = <<>>
           /\ \A j \in Inum : j # n => d'.ino[j] = d.ino[j] /\ d'.ent[j] = d.ent[j]
<1>1. d \in Disks /\ d.ino \in [Inum -> Inodes] /\ d.ent \in [Inum -> [Name -> Inum \cup {None}]]
      /\ d.used \subseteq Block
  BY DiskParts DEF TypeOK
<1>2. PICK f : f = [FreeInode EXCEPT !.type = y] OBVIOUS
<1>3. f \in Inodes /\ f.type = y /\ f.addrs = <<>>
  <2>1. FreeInode \in Inodes /\ FreeInode.addrs = <<>> BY DiskParts DEF FreeInode
  <2>. QED BY <1>2, <2>1 DEF Inodes
<1>4. d'.ino = [d.ino EXCEPT ![n] = f] /\ d'.ent = d.ent /\ d'.used = d.used
  BY <1>1, <1>2, DiskParts
<1>5. d'.ino \in [Inum -> Inodes] BY <1>1, <1>3, <1>4
<1>6. d' \in Disks
  <2>1. d' = [ino |-> d'.ino, ent |-> d'.ent, used |-> d'.used] BY <1>1, DiskParts
  <2>. QED BY <1>1, <1>4, <1>5, <2>1, DiskParts
<1>7. d'.ino[n] = f /\ \A j \in Inum : j # n => d'.ino[j] = d.ino[j] /\ d'.ent[j] = d.ent[j]
  BY <1>1, <1>4
<1>8. d.ino[n].addrs = <<>> BY DEF InUse, FreeInode
<1>9. \A j \in Inum : d'.ino[j].addrs = d.ino[j].addrs BY <1>3, <1>7, <1>8
<1>. QED BY <1>3, <1>4, <1>6, <1>7, <1>9, SameBlocks

\* create() links a file or a device.
LEMMA LinkedFile ==
    ASSUME TypeOK, NEW i \in Inum, NEW dp \in Inum, Type(i) # "none", Type(dp) # "none", NEW n \in Name,
           d' = [d EXCEPT !.ino[i].nlink = 1, !.ent[dp][n] = i]
    PROVE  Linking
<1>1. d \in Disks /\ d.ino \in [Inum -> Inodes] /\ d.ent \in [Inum -> [Name -> Inum \cup {None}]]
      /\ d.used \subseteq Block
  BY DiskParts DEF TypeOK
<1>2. /\ d'.ino = [d.ino EXCEPT ![i].nlink = 1] /\ d'.ent = [d.ent EXCEPT ![dp][n] = i]
      /\ d'.used = d.used
  BY <1>1, DiskParts
<1>3. [d.ino[i] EXCEPT !.nlink = 1] \in Inodes
  <2>1. d.ino[i] \in Inodes BY <1>1
  <2>. QED BY <2>1 DEF Inodes
<1>4. d'.ino \in [Inum -> Inodes] /\ d'.ent \in [Inum -> [Name -> Inum \cup {None}]]
  BY <1>1, <1>2, <1>3
<1>5. d' \in Disks
  <2>1. d' = [ino |-> d'.ino, ent |-> d'.ent, used |-> d'.used] BY <1>1, DiskParts
  <2>. QED BY <1>1, <1>2, <1>4, <2>1, DiskParts
<1>6. \A j \in Inum : d'.ino[j].type = d.ino[j].type /\ d'.ino[j].addrs = d.ino[j].addrs
  BY <1>1, <1>2 DEF Inodes
<1>7. \A j \in Inum : d.ino[j].type = "none" => d'.ino[j] = d.ino[j] /\ d'.ent[j] = d.ent[j]
  BY <1>1, <1>2 DEF Type
<1>. QED BY <1>2, <1>5, <1>6, <1>7 DEF Linking

\* create() fills in a directory, with its first block, and links it.
Furnished(i, dp, n) ==
    d' = [[d EXCEPT !.ino[i].nlink = 1, !.ent[dp][n] = i] EXCEPT
            !.ino[i].addrs = <<NewBlock>>, !.used = @ \cup {NewBlock},
            !.ino[dp].nlink = @ + 1, !.ent[i]["."] = i, !.ent[i][".."] = dp]

LEMMA LinkedDirectory ==
    ASSUME TypeOK, BlocksOwned, NEW i \in Inum, NEW dp \in Inum, i # dp, Type(i) # "none",
           Type(dp) # "none", NEW n \in Name, d.ino[i].addrs = <<>>, Block \ d.used # {},
           Furnished(i, dp, n)
    PROVE  /\ d' \in Disks /\ BlocksOwned'
           /\ \A j \in Inum : /\ d'.ino[j].type = d.ino[j].type
                              /\ j # i => d'.ino[j].addrs = d.ino[j].addrs
                              /\ j \notin {i, dp} => d'.ino[j] = d.ino[j] /\ d'.ent[j] = d.ent[j]
<1>1. d \in Disks /\ d.ino \in [Inum -> Inodes] /\ d.ent \in [Inum -> [Name -> Inum \cup {None}]]
      /\ d.used \subseteq Block
  BY DiskParts DEF TypeOK
<1>2. PICK b, x : b = NewBlock /\ x = d.ino[dp].nlink + 1 OBVIOUS
<1>3. b \in Block \ d.used
  <2>1. Block \ d.used \in SUBSET Nat BY Constants
  <2>. QED BY <1>2, <2>1, MinIn DEF NewBlock
<1>4. x \in Int BY <1>1, <1>2 DEF Inodes
<1>5. PICK m : m = [d EXCEPT !.ino[i].nlink = 1, !.ent[dp][n] = i] OBVIOUS
<1>6. /\ m = [ino |-> m.ino, ent |-> m.ent, used |-> m.used]
      /\ m.ino = [d.ino EXCEPT ![i].nlink = 1] /\ m.ent = [d.ent EXCEPT ![dp][n] = i] /\ m.used = d.used
  BY <1>1, <1>5, DiskParts
<1>7. d.ino[i] \in Inodes /\ d.ino[dp] \in Inodes BY <1>1
<1>8. m.ino[i] = [d.ino[i] EXCEPT !.nlink = 1] /\ m.ino[dp] = d.ino[dp]
      /\ \A j \in Inum : j # i => m.ino[j] = d.ino[j]
  BY <1>1, <1>6
<1>9. /\ d' = [ino |-> d'.ino, ent |-> d'.ent, used |-> d'.used]
      /\ d'.ino = [m.ino EXCEPT ![i].addrs = <<b>>, ![dp].nlink = @ + 1]
      /\ d'.ent = [m.ent EXCEPT ![i]["."] = i, ![i][".."] = dp] /\ d'.used = d.used \cup {b}
  <2>1. d' = [m EXCEPT !.ino[i].addrs = <<b>>, !.used = @ \cup {b},
                       !.ino[dp].nlink = @ + 1, !.ent[i]["."] = i, !.ent[i][".."] = dp]
    BY <1>2, <1>5, Zenon DEF Furnished
  <2>. QED BY <2>1, <1>6
<1>10. m.ino \in [Inum -> Inodes] /\ m.ent \in [Inum -> [Name -> Inum \cup {None}]]
  <2>1. [d.ino[i] EXCEPT !.nlink = 1] \in Inodes BY <1>7 DEF Inodes
  <2>. QED BY <2>1, <1>1, <1>6
<1>11. /\ d'.ino[i] = [m.ino[i] EXCEPT !.addrs = <<b>>]
       /\ d'.ino[dp] = [d.ino[dp] EXCEPT !.nlink = x]
       /\ \A j \in Inum : j \notin {i, dp} => d'.ino[j] = d.ino[j]
       /\ DOMAIN d'.ino = Inum /\ d'.ino = [j \in Inum |-> d'.ino[j]]
  BY <1>1, <1>2, <1>8, <1>9, <1>10
<1>12. d'.ino[i] \in Inodes /\ d'.ino[i].addrs = <<b>> /\ d'.ino[i].type = d.ino[i].type
  <2>1. <<b>> \in Addrs BY <1>3, DiskParts
  <2>2. m.ino[i] \in Inodes /\ m.ino[i].type = d.ino[i].type BY <1>7, <1>8, <1>10 DEF Inodes
  <2>. QED BY <1>11, <2>1, <2>2 DEF Inodes
<1>13. d'.ino[dp] \in Inodes /\ d'.ino[dp].addrs = d.ino[dp].addrs /\ d'.ino[dp].type = d.ino[dp].type
  BY <1>4, <1>7, <1>11 DEF Inodes
<1>14. d'.ino \in [Inum -> Inodes]
  <2>1. \A j \in Inum : d'.ino[j] \in Inodes BY <1>1, <1>11, <1>12, <1>13
  <2>. QED BY <1>11, <2>1
<1>15. d'.ent \in [Inum -> [Name -> Inum \cup {None}]]
       /\ \A j \in Inum : j \notin {i, dp} => d'.ent[j] = d.ent[j]
  <2>1. \A e \in [Name -> Inum \cup {None}] : [e EXCEPT !["."] = i, ![".."] = dp] \in [Name -> Inum \cup {None}]
    OBVIOUS
  <2>2. d'.ent = [m.ent EXCEPT ![i] = [m.ent[i] EXCEPT !["."] = i, ![".."] = dp]]
    BY <1>9, <1>10
  <2>3. m.ent[i] \in [Name -> Inum \cup {None}] BY <1>10
  <2>4. PICK e : e = [m.ent[i] EXCEPT !["."] = i, ![".."] = dp] OBVIOUS
  <2>5. e \in [Name -> Inum \cup {None}] BY <2>1, <2>3, <2>4
  <2>6. d'.ent = [m.ent EXCEPT ![i] = e] BY <2>2, <2>4
  <2>7. d'.ent \in [Inum -> [Name -> Inum \cup {None}]] BY <1>10, <2>5, <2>6
  <2>8. ASSUME NEW j \in Inum, j \notin {i, dp} PROVE d'.ent[j] = d.ent[j]
    <3>1. d'.ent[j] = m.ent[j] BY <1>10, <2>6, <2>8
    <3>2. m.ent[j] = d.ent[j] BY <1>1, <1>6, <2>8
    <3>. QED BY <3>1, <3>2
  <2>. QED BY <2>7, <2>8
<1>16. d' \in Disks
  <2>1. d'.used \subseteq Block BY <1>1, <1>3, <1>9
  <2>. QED BY <1>9, <1>14, <1>15, <2>1, DiskParts
<1>17. \A j \in Inum : j # i => d'.ino[j].addrs = d.ino[j].addrs
  BY <1>11, <1>13
<1>18. \A j \in Inum : d'.ino[j].type = d.ino[j].type
  BY <1>11, <1>12, <1>13
<1>19. BlocksOwned' BY <1>3, <1>9, <1>12, <1>16, <1>17, FirstBlock
<1>. QED BY <1>11, <1>15, <1>16, <1>17, <1>18, <1>19

\* A step inside a call that allocates an inode, or fills one in.
Makes(p, s, g, t, h) ==
    /\ Goes(p, s, g, t, h) /\ Balanced(p, s, g, t, h) /\ Relocks(p, Main(t, h), None)
    /\ Changing(p) /\ Using(p) /\ valid' \in [Inum -> BOOLEAN] /\ BlocksOwned'

LEMMA MakesStep ==
    ASSUME FsInv, NEW p \in Proc, NEW s, NEW g, NEW t, NEW h, Makes(p, s, g, t, h)
    PROVE  FsInv'
<1>1. Inside(p) BY GoesInside DEF Makes
<1>2. Referring BY Parts, BalancedRefs DEF Makes
<1>3. Locked(p) BY Relocked DEF Makes
<1>. QED BY <1>1, <1>2, <1>3, InsideStep DEF Makes

\* References taken, and those that a call owns.
Takes(s, g, t, h, c, got) ==
    /\ ref' \in [Inum -> Nat]
    /\ \A j \in Inum : ref'[j] = ref[j] + Is(got, j)
    /\ \A j \in Inum : Total(t, h, c, j) = Total(s, g, c, j) + Is(got, j)

LEMMA Balances ==
    ASSUME FsInv, NEW p \in Proc, NEW s, NEW g, NEW t, NEW h, NEW c, NEW got, c = cwd[p],
           Goes(p, s, g, t, h), Takes(s, g, t, h, c, got)
    PROVE  Balanced(p, s, g, t, h)
<1>1. /\ s = k[p] /\ g = r[p] /\ t = k'[p] /\ h = r'[p] /\ Only(p) /\ Within BY DEF Goes
<1>2. ASSUME NEW j \in Inum
      PROVE  ref'[j] + Total(s, g, c, j) = ref[j] + Total(t, h, c, j)
  <2>1. Total(s, g, c, j) \in Nat BY TotalType
  <2>2. ref[j] \in Nat /\ Is(got, j) \in Nat BY Parts DEF TypeOK, Is
  <2>3. ref'[j] = ref[j] + Is(got, j) BY DEF Takes
  <2>4. Total(t, h, c, j) = Total(s, g, c, j) + Is(got, j) BY DEF Takes
  <2>. QED BY <2>1, <2>2, <2>3, <2>4
<1>. QED BY <1>1, <1>2 DEF Balanced, Within, Takes

LEMMA Six == 1 .. 6 = {1, 2, 3, 4, 5, 6}
OBVIOUS

\* create() of a name that is not there: the new inode.
LEMMA CreateNodeStep == ASSUME FsInv, NEW p \in Proc, create(p), Found(Target(p), r[p].name) = None PROVE FsInv'
<1>1. PICK s, g, L, i, c, t, h, n : /\ s = k[p] /\ g = r[p] /\ L = Len(s) /\ i = Target(p) /\ c = cwd[p]
                                   /\ t = k'[p] /\ h = r'[p] /\ n = Min(FreeInodes)
  OBVIOUS
<1>2. /\ s # <<>> /\ Deep(s, L).op = "create" /\ g.ip = i /\ i \in Inum /\ Head(s).op = "create"
      /\ Type(i) # "none" /\ lock[i] = None /\ Fits("create", L, Deep(s, L - 1).op)
      /\ Why(p) = "no"
  <2>1. At(p, "create") /\ CanLock(p, "create") BY LockAt DEF create
  <2>2. Type(i) # "none" /\ lock[i] = None /\ i \in Inum BY <2>1, <1>1, LockAt
  <2>3. "create" \notin Owning \cup Naming \cup {"fileclose"} BY DEF Owning, Naming, Putting
  <2>4. Why(p) = "no" BY <2>1 DEF CanLock
  <2>. QED BY <2>1, <2>2, <2>3, <2>4, <1>1, AtOp
<1>3. StackOK(s) /\ RegsOK(s, g) /\ Layers(s, L) /\ g \in Regs /\ Known(s, g, c) /\ c \in Inum
  BY <1>1, <1>2, Here
<1>4. L = 3 /\ Deep(s, 2).op \in {"open_file", "put_new"} BY <1>2 DEF Fits, Putting
<1>5. i # None /\ Deep(s, 1).op = "end_op" /\ Deep(s, 3).op = "create"
      /\ Deep(s, 4) = NoOp /\ Deep(s, 5) = NoOp /\ Deep(s, 6) = NoOp
  BY <1>2, <1>3, <1>4, Constants DEF Layers, Layer, Fits, Putting
<1>6. n \in Inum /\ n # None /\ n # i /\ Type(n) = "none"
  <2>1. FreeInodes # {}
    <3>1. d.ent[i][g.name] = None BY <1>1 DEF Found
    <3>. QED BY <3>1, <1>1, <1>2 DEF Why
  <2>2. FreeInodes \in SUBSET Nat /\ FreeInodes \subseteq Inum BY Constants DEF FreeInodes
  <2>3. n \in FreeInodes BY <1>1, <2>1, <2>2, MinIn
  <2>. QED BY <2>3, <1>2, Constants DEF FreeInodes, Type
<1>7. g.type \in {"file", "dir", "dev"} /\ (Deep(s, 2).op = "open_file" => g.type = "file")
  BY <1>3, <1>5 DEF RegsOK, Regs
<1>10. /\ ilock(p, i, TRUE, n) /\ Within /\ r' = [r EXCEPT ![p].ip = n, ![p].dp = i]
       /\ d' = [d EXCEPT !.ino[n] = [FreeInode EXCEPT !.type = g.type]]
       /\ Continue(p, <<Op("create_new", n)>>)
  BY <1>1 DEF create
<1>11. Regular(p) /\ h = [g EXCEPT !.ip = n, !.dp = i]
  <2>1. r' = [r EXCEPT ![p] = [g EXCEPT !.ip = n, !.dp = i]] BY <1>1, <1>10, Here
  <2>. QED BY <2>1, <1>1, Here DEF Regular
<1>14. h \in Regs /\ h.ip = n /\ h.old = g.old /\ h.dp = i /\ h.type = g.type
  BY <1>2, <1>3, <1>6, <1>11 DEF Regs
<1>8. /\ d' \in Disks /\ BlocksOwned'
      /\ d'.ino[n].type = g.type /\ d'.ino[n].addrs = <<>>
      /\ \A j \in Inum : j # n => d'.ino[j] = d.ino[j] /\ d'.ent[j] = d.ent[j]
  BY <1>6, <1>7, <1>10, Parts, Allocated
<1>12. Cached(p, i, TRUE, n) BY <1>2, <1>6, <1>10, Ilocked
<1>13. /\ ref' \in [Inum -> Nat] /\ \A j \in Inum : ref'[j] = ref[j] + Is(n, j)
       /\ valid' \in [Inum -> BOOLEAN] /\ \A j \in Inum : valid'[j] => Type(j) # "none"
       /\ lock' \in [Inum -> Proc \cup {None}]
       /\ \A j \in Inum : lock'[j] = IF j # i THEN lock[j] ELSE p
  BY <1>12 DEF Cached
<1>20. OpOK(Op("create_new", n)) /\ Fits("create_new", L, Deep(s, L - 1).op)
  BY <1>4, <1>6, GoodOps DEF Naming, Fits
<1>21. Next1(p, s, t, L, "create_new", n) BY <1>20, <1>1, <1>2, <1>10, <1>11 DEF Next1
<1>22. Only(p) BY <1>21, ToNext1
<1>23. StackOK(t) /\ Layers(t, L) BY <1>21, ToNext1
<1>24. /\ Deep(t, 1) = Deep(s, 1) /\ Deep(t, 2) = Deep(s, 2) /\ Deep(t, 3) = Op("create_new", n)
       /\ Deep(t, 4) = NoOp /\ Deep(t, 5) = NoOp /\ Deep(t, 6) = NoOp
  BY <1>21, <1>4, <1>5, ToNext1
<1>25. RegsOK(t, h)
  BY <1>2, <1>3, <1>4, <1>5, <1>6, <1>7, <1>14, <1>23, <1>24, Constants DEF RegsOK, Layers, Layer, Fits, NoOp, Op, Putting, End
<1>26. /\ t # <<>> /\ InTransaction(s) /\ InTransaction(t) /\ ~Busy(t) /\ ~Closed(t, h)
       /\ Dying(s) = None /\ Dying(t) = None /\ Main(s, g) = None /\ Main(t, h) = i
       /\ NextCwd(t, h) = None /\ Fresh(t, h) = n /\ CwdOwn(t, c) = CwdOwn(s, c)
  BY <1>2, <1>3, <1>4, <1>5, <1>14, <1>23, <1>24, Constants DEF Layers, Layer, Fits, NoOp, Op, Putting, End,
     InTransaction, Busy, Closed, Leaving, Main, Dying, NextCwd, Fresh, CwdOwn
<1>27. Goes(p, s, g, t, h)
  BY <1>1, <1>2, <1>10, <1>22, <1>23, <1>25, <1>26 DEF Goes
<1>28. ASSUME NEW j \in Inum PROVE Total(t, h, c, j) = Total(s, g, c, j) + Is(n, j)
  <2>1. \A m \in 1 .. 6 : OpOwn(s, m) = None /\ OpOwn(t, m) = None
    BY <1>4, <1>5, <1>24, Six DEF OpOwn, Owning, Putting, NoOp, Op
  <2>2. IpOwn(s, g) = i /\ IpOwn(t, h) = n BY <1>2, <1>4, <1>14, <1>24 DEF IpOwn
  <2>3. OldOwn(s, g) = None /\ OldOwn(t, h) = None BY <1>4, <1>24 DEF OldOwn
  <2>4. DpOwn(s, g) = None /\ DpOwn(t, h) = i BY <1>4, <1>5, <1>14, <1>24 DEF DpOwn, Op
  <2>5. PICK x : x = CwdOwn(s, c) /\ x = CwdOwn(t, c) BY <1>26
  <2>6. j # None BY Constants
  <2>7. /\ OpOwn(s, 1) = None /\ OpOwn(s, 2) = None /\ OpOwn(s, 3) = None
        /\ OpOwn(s, 4) = None /\ OpOwn(s, 5) = None /\ OpOwn(s, 6) = None
        /\ OpOwn(t, 1) = None /\ OpOwn(t, 2) = None /\ OpOwn(t, 3) = None
        /\ OpOwn(t, 4) = None /\ OpOwn(t, 5) = None /\ OpOwn(t, 6) = None
    BY <2>1, Six
  <2>8. Is(None, j) = 0 BY <2>6 DEF Is
  <2>9. /\ Total(s, g, c, j) = Is(None, j) + Is(None, j) + Is(None, j) + Is(None, j)
                               + Is(None, j) + Is(None, j) + Is(i, j) + Is(None, j) + Is(None, j) + Is(x, j)
        /\ Total(t, h, c, j) = Is(None, j) + Is(None, j) + Is(None, j) + Is(None, j)
                               + Is(None, j) + Is(None, j) + Is(n, j) + Is(None, j) + Is(i, j) + Is(x, j)
    BY <2>2, <2>3, <2>4, <2>5, <2>7 DEF Total
  <2>10. Is(n, j) \in Nat /\ Is(i, j) \in Nat /\ Is(x, j) \in Nat BY DEF Is
  <2>. QED BY <2>8, <2>9, <2>10
<1>29. Balanced(p, s, g, t, h)
  <2>1. Takes(s, g, t, h, c, n) BY <1>13, <1>28 DEF Takes
  <2>. QED BY <1>1, <1>27, <2>1, Balances
<1>30. Relocks(p, Main(t, h), None)
  BY <1>1, <1>2, <1>5, <1>13, <1>26, Constants DEF Relocks
<1>31. ASSUME NEW q \in Proc \ {p}
       PROVE  /\ Fresh(k[q], r[q]) # None => Fresh(k[q], r[q]) \in Inum /\ Fresh(k[q], r[q]) # n
              /\ Dying(k[q]) # None => Dying(k[q]) # n
              /\ Dying(k[q]) # None => Dying(k[q]) # CwdOwn(s, c)
  <2>1. RegsOK(k[q], r[q]) /\ StackOK(k[q]) /\ r[q] \in Regs /\ Known(k[q], r[q], cwd[q]) 
        /\ cwd[q] \in Inum \cup {None}
    BY Here
  <2>2. Fresh(k[q], r[q]) # None => Deep(k[q], 3).op = "create_new" BY DEF Fresh
  <2>3. Fresh(k[q], r[q]) # None => Type(Fresh(k[q], r[q])) # "none"
    BY <2>1, <2>2 DEF RegsOK, Known
  <2>4. Fresh(k[q], r[q]) \in Inum \cup {None} BY <2>1, RolesTyped
  <2>5. Dying(k[q]) # None => Type(Dying(k[q])) # "none" BY Parts DEF InUse, Forgotten
  <2>6. Dying(k[q]) # None => Dying(k[q]) # CwdOwn(s, c) BY <1>1, NobodysDying
  <2>. QED BY <1>6, <2>3, <2>4, <2>5, <2>6
<1>32. \A j \in Inum : Type(j) # "none" => j # n BY <1>6
<1>33. Changing(p)
  <2>1. \A j \in Inum : valid'[j] => d'.ino[j].type # "none" BY <1>8, <1>13, <1>32 DEF Type
  <2>2. \A j \in Inum : d'.ino[j].type = "none" => d'.ino[j] = FreeInode /\ d'.ent[j] = NoEntries
    BY <1>7, <1>8, Parts DEF InUse, Type
  <2>3. \A j \in Inum : d.ino[j].type # "none" => d'.ino[j].type = d.ino[j].type
    BY <1>8, <1>32 DEF Type
  <2>4. \A q \in Proc \ {p} : Fresh(k[q], r[q]) # None =>
           d'.ino[Fresh(k[q], r[q])].addrs = d.ino[Fresh(k[q], r[q])].addrs
    BY <1>8, <1>31
  <2>. QED BY <1>8, <2>1, <2>2, <2>3, <2>4 DEF Changing
<1>34. Known(t, h, c)'
  <2>1. CwdOwn(s, c) # None => CwdOwn(s, c) \in Inum /\ Type(CwdOwn(s, c)) = "dir"
    <3>1. CwdOwn(s, c) \in Inum \cup {None} BY <1>3 DEF CwdOwn
    <3>. QED BY <3>1, <1>3 DEF Known
  <2>2. CwdOwn(s, c) # None => d'.ino[CwdOwn(s, c)].type = "dir"
    BY <2>1, <1>8, <1>32 DEF Type
  <2>3. d'.ino[i].type # "none" BY <1>2, <1>6, <1>8 DEF Type
  <2>. QED BY <2>2, <2>3, <1>6, <1>8, <1>14, <1>26 DEF Known, Type, IsDir
<1>35. Using(p)
  <2>1. cwd'[p] = c /\ k'[p] = t /\ r'[p] = h BY <1>1, <1>10 DEF Within
  <2>2. Known(k[p], r[p], cwd[p])' BY <2>1, <1>34
  <2>3. Fresh(k'[p], r'[p]) = n /\ NextCwd(k'[p], r'[p]) = None /\ Dying(k'[p]) = None
        /\ CwdOwn(k'[p], cwd'[p]) = CwdOwn(s, c)
    BY <2>1, <1>26
  <2>. QED BY <2>2, <2>3, <1>6, <1>31 DEF Using
<1>. QED BY <1>8, <1>13, <1>27, <1>29, <1>30, <1>33, <1>35, MakesStep DEF Makes

\* The new inode is filled in and linked.
LEMMA CreateLinkStep == ASSUME FsInv, NEW p \in Proc, create_new(p) PROVE FsInv'
<1>1. PICK s, g, L, i, c, t, h, dp : /\ s = k[p] /\ g = r[p] /\ L = Len(s) /\ i = Target(p) /\ c = cwd[p]
                                    /\ t = k'[p] /\ h = r'[p] /\ dp = g.dp
  OBVIOUS
<1>2. /\ s # <<>> /\ Deep(s, L).op = "create_new" /\ Deep(s, L).ip = i /\ i \in Inum
      /\ Head(s).op = "create_new" /\ Type(i) # "none" /\ lock[i] = None
      /\ Fits("create_new", L, Deep(s, L - 1).op) /\ Why(p) = "no"
  <2>1. At(p, "create_new") /\ CanLock(p, "create_new") BY LockAt DEF create_new
  <2>2. Type(i) # "none" /\ lock[i] = None /\ i \in Inum BY <2>1, <1>1, LockAt
  <2>3. "create_new" \in Naming BY DEF Naming
  <2>4. Why(p) = "no" BY <2>1 DEF CanLock
  <2>. QED BY <2>1, <2>2, <2>3, <2>4, <1>1, AtOp
<1>3. StackOK(s) /\ RegsOK(s, g) /\ Layers(s, L) /\ g \in Regs /\ Known(s, g, c) /\ c \in Inum
  BY <1>1, <1>2, Here
<1>4. L = 3 /\ Deep(s, 2).op \in {"open_file", "put_new"} BY <1>2 DEF Fits, Putting
<1>5. i # None /\ Deep(s, 1).op = "end_op" /\ Deep(s, 3).op = "create_new"
      /\ Deep(s, 4) = NoOp /\ Deep(s, 5) = NoOp /\ Deep(s, 6) = NoOp
  BY <1>2, <1>3, <1>4, Constants DEF Layers, Layer, Fits, Putting
<1>6. g.ip = i /\ dp # None /\ dp \in Inum /\ g.name \in Name /\ (Deep(s, 2).op = "open_file" => g.type = "file")
  BY <1>1, <1>2, <1>3, <1>4, <1>5 DEF RegsOK, Regs
<1>7. Main(s, g) = dp /\ Type(dp) # "none" /\ Fresh(s, g) = i /\ Type(i) = g.type
      /\ (IsDir(i) => d.ino[i].addrs = <<>>)
  <2>1. Main(s, g) = dp /\ Fresh(s, g) = i BY <1>1, <1>4, <1>5, <1>6 DEF Main, Fresh
  <2>. QED BY <2>1, <1>3, <1>5, <1>6 DEF Known
<1>8. i # dp /\ lock[dp] = p
  <2>1. lock[dp] = p BY <1>1, <1>6, <1>7, Parts DEF Locks
  <2>. QED BY <2>1, <1>2, Constants
<1>10. /\ ilock_iunlock(p, i, dp) /\ Within /\ UNCHANGED r /\ Continue(p, <<Op("iput", dp)>>)
       /\ d' = IF IsDir(i)
               THEN [[d EXCEPT !.ino[i].nlink = 1, !.ent[dp][g.name] = i] EXCEPT
                        !.ino[i].addrs = <<NewBlock>>, !.used = @ \cup {NewBlock},
                        !.ino[dp].nlink = @ + 1, !.ent[i]["."] = i, !.ent[i][".."] = dp]
               ELSE [d EXCEPT !.ino[i].nlink = 1, !.ent[dp][g.name] = i]
  BY <1>1 DEF create_new
<1>11. h = g /\ Regular(p) BY <1>1, <1>10 DEF Regular
<1>12. /\ d' \in Disks /\ BlocksOwned'
       /\ \A j \in Inum : /\ d'.ino[j].type = d.ino[j].type
                          /\ j # i => d'.ino[j].addrs = d.ino[j].addrs
                          /\ d.ino[j].type = "none" => d'.ino[j] = d.ino[j] /\ d'.ent[j] = d.ent[j]
  <2>1. CASE IsDir(i)
    <3>1. Block \ d.used # {} BY <1>1, <1>2, <2>1 DEF Why
    <3>2. /\ d' \in Disks /\ BlocksOwned'
          /\ \A j \in Inum : /\ d'.ino[j].type = d.ino[j].type
                             /\ j # i => d'.ino[j].addrs = d.ino[j].addrs
                             /\ j \notin {i, dp} => d'.ino[j] = d.ino[j] /\ d'.ent[j] = d.ent[j]
      <4>1. Furnished(i, dp, g.name) BY <1>10, <2>1, Zenon DEF Furnished
      <4>. QED BY <1>2, <1>6, <1>7, <1>8, <2>1, <3>1, <4>1, Parts, LinkedDirectory
    <3>. QED BY <3>2, <1>2, <1>7 DEF Type
  <2>2. CASE ~IsDir(i)
    <3>1. Linking BY <1>2, <1>6, <1>7, <1>10, <2>2, Parts, LinkedFile
    <3>2. BlocksOwned' BY <3>1, Parts, LinkingBlocks
    <3>. QED BY <3>1, <3>2 DEF Linking
  <2>. QED BY <2>1, <2>2
<1>13. /\ ref' \in [Inum -> Nat] /\ \A j \in Inum : ref'[j] = ref[j] + Is(None, j)
       /\ valid' \in [Inum -> BOOLEAN] /\ \A j \in Inum : valid'[j] => Type(j) # "none"
       /\ lock' \in [Inum -> Proc \cup {None}]
       /\ lock' = [lock EXCEPT ![dp] = None, ![i] = p]
       /\ lock \in [Inum -> Proc \cup {None}]
  <2>1. /\ lock \in [Inum -> Proc \cup {None}] /\ valid \in [Inum -> BOOLEAN] /\ ref \in [Inum -> Nat]
        /\ \A j \in Inum : valid[j] => Type(j) # "none"
    BY Parts DEF TypeOK, InUse
  <2>2. /\ lock' = [lock EXCEPT ![dp] = None, ![i] = p] /\ valid' = [valid EXCEPT ![i] = TRUE] /\ ref' = ref
    BY <1>10 DEF ilock_iunlock
  <2>3. \A j \in Inum : ref'[j] = ref[j] + Is(None, j)
    <3>1. \A j \in Inum : Is(None, j) = 0 BY Constants DEF Is
    <3>. QED BY <2>1, <2>2, <3>1
  <2>4. valid' \in [Inum -> BOOLEAN] /\ \A j \in Inum : valid'[j] => Type(j) # "none"
    BY <2>1, <2>2, <1>2
  <2>5. lock' \in [Inum -> Proc \cup {None}] BY <2>1, <2>2
  <2>. QED BY <2>1, <2>2, <2>3, <2>4, <2>5
<1>20. OpOK(Op("iput", dp)) /\ Fits("iput", L, Deep(s, L - 1).op)
  BY <1>4, <1>6, GoodOps DEF Owning, Putting, Fits
<1>21. Next1(p, s, t, L, "iput", dp) BY <1>20, <1>1, <1>2, <1>10, <1>11 DEF Next1
<1>22. Only(p) BY <1>21, ToNext1
<1>23. StackOK(t) /\ Layers(t, L) BY <1>21, ToNext1
<1>24. /\ Deep(t, 1) = Deep(s, 1) /\ Deep(t, 2) = Deep(s, 2) /\ Deep(t, 3) = Op("iput", dp)
       /\ Deep(t, 4) = NoOp /\ Deep(t, 5) = NoOp /\ Deep(t, 6) = NoOp
  BY <1>21, <1>4, <1>5, ToNext1
<1>25. RegsOK(t, h)
  BY <1>2, <1>3, <1>4, <1>5, <1>6, <1>11, <1>23, <1>24, Constants DEF RegsOK, Layers, Layer, Fits, NoOp, Op, Putting, End
<1>26. /\ t # <<>> /\ InTransaction(s) /\ InTransaction(t) /\ ~Busy(t) /\ ~Closed(t, h)
       /\ Dying(s) = None /\ Dying(t) = None /\ Main(t, h) = i
       /\ NextCwd(t, h) = None /\ Fresh(t, h) = None /\ CwdOwn(t, c) = CwdOwn(s, c)
  BY <1>2, <1>3, <1>4, <1>5, <1>6, <1>11, <1>23, <1>24, Constants DEF Layers, Layer, Fits, NoOp, Op, Putting, End,
     InTransaction, Busy, Closed, Leaving, Main, Dying, NextCwd, Fresh, CwdOwn
<1>27. Goes(p, s, g, t, h)
  BY <1>1, <1>2, <1>10, <1>22, <1>23, <1>25, <1>26 DEF Goes
<1>28. ASSUME NEW j \in Inum PROVE Total(t, h, c, j) = Total(s, g, c, j) + Is(None, j)
  <2>1. /\ \A m \in 1 .. 6 : OpOwn(s, m) = None
        /\ \A m \in 1 .. 6 : OpOwn(t, m) = IF m = 3 THEN dp ELSE None
    BY <1>4, <1>5, <1>24, Six DEF OpOwn, Owning, Putting, NoOp, Op
  <2>2. IpOwn(s, g) = i /\ IpOwn(t, h) = i BY <1>4, <1>6, <1>11, <1>24 DEF IpOwn
  <2>3. OldOwn(s, g) = None /\ OldOwn(t, h) = None BY <1>4, <1>24 DEF OldOwn
  <2>4. DpOwn(s, g) = dp /\ DpOwn(t, h) = None BY <1>1, <1>4, <1>5, <1>24 DEF DpOwn, Op
  <2>5. PICK x : x = CwdOwn(s, c) /\ x = CwdOwn(t, c) BY <1>26
  <2>6. j # None BY Constants
  <2>7. /\ OpOwn(s, 1) = None /\ OpOwn(s, 2) = None /\ OpOwn(s, 3) = None
        /\ OpOwn(s, 4) = None /\ OpOwn(s, 5) = None /\ OpOwn(s, 6) = None
        /\ OpOwn(t, 1) = None /\ OpOwn(t, 2) = None /\ OpOwn(t, 3) = dp
        /\ OpOwn(t, 4) = None /\ OpOwn(t, 5) = None /\ OpOwn(t, 6) = None
    BY <2>1, Six
  <2>8. Is(None, j) = 0 BY <2>6 DEF Is
  <2>9. /\ Total(s, g, c, j) = Is(None, j) + Is(None, j) + Is(None, j) + Is(None, j)
                               + Is(None, j) + Is(None, j) + Is(i, j) + Is(None, j) + Is(dp, j) + Is(x, j)
        /\ Total(t, h, c, j) = Is(None, j) + Is(None, j) + Is(dp, j) + Is(None, j) + Is(None, j) + Is(None, j)
                               + Is(i, j) + Is(None, j) + Is(None, j) + Is(x, j)
    BY <2>2, <2>3, <2>4, <2>5, <2>7 DEF Total
  <2>10. Is(dp, j) \in Nat /\ Is(i, j) \in Nat /\ Is(x, j) \in Nat BY DEF Is
  <2>. QED BY <2>8, <2>9, <2>10
<1>29. Balanced(p, s, g, t, h)
  <2>1. Takes(s, g, t, h, c, None) BY <1>13, <1>28 DEF Takes
  <2>. QED BY <1>1, <1>27, <2>1, Balances
<1>30. Relocks(p, Main(t, h), None)
  <2>1. /\ Main(k[p], r[p]) = dp /\ Dying(k[p]) = None
        /\ Main(k'[p], r'[p]) = i /\ Dying(k'[p]) = None
    BY <1>1, <1>7, <1>26
  <2>2. /\ lock'[i] = p /\ lock'[dp] = None /\ \A j \in Inum \ {i, dp} : lock'[j] = lock[j]
    BY <1>2, <1>6, <1>8, <1>13
  <2>3. \A j \in Inum : lock'[j] = IF j = i THEN p ELSE IF j = dp THEN None ELSE lock[j]
    BY <1>8, <2>2
  <2>. QED BY <2>1, <2>3, <1>2, <1>5, <1>6, <1>8, <1>13, <1>26, Constants DEF Relocks
<1>31. ASSUME NEW q \in Proc \ {p}, Fresh(k[q], r[q]) # None
       PROVE  Fresh(k[q], r[q]) \in Inum /\ Fresh(k[q], r[q]) # i
  <2>1. StackOK(k[q]) /\ r[q] \in Regs /\ cwd[q] \in Inum \cup {None} BY Here
  <2>2. Fresh(k[q], r[q]) \in Inum \cup {None} BY <2>1, RolesTyped
  <2>3. Fresh(k[q], r[q]) # Fresh(k[p], r[p]) BY <1>31, Parts DEF InUse
  <2>. QED BY <2>2, <2>3, <1>1, <1>7, <1>31
<1>33. Changing(p)
  <2>1. \A j \in Inum : valid'[j] => d'.ino[j].type # "none" BY <1>12, <1>13 DEF Type
  <2>2. \A j \in Inum : d'.ino[j].type = "none" => d'.ino[j] = FreeInode /\ d'.ent[j] = NoEntries
    BY <1>12, Parts DEF InUse, Type
  <2>4. \A q \in Proc \ {p} : Fresh(k[q], r[q]) # None =>
           d'.ino[Fresh(k[q], r[q])].addrs = d.ino[Fresh(k[q], r[q])].addrs
    BY <1>12, <1>31
  <2>. QED BY <1>12, <2>1, <2>2, <2>4 DEF Changing
<1>34. Known(t, h, c)'
  <2>1. CwdOwn(s, c) # None => CwdOwn(s, c) \in Inum /\ Type(CwdOwn(s, c)) = "dir"
    <3>1. CwdOwn(s, c) \in Inum \cup {None} BY <1>3 DEF CwdOwn
    <3>. QED BY <3>1, <1>3 DEF Known
  <2>2. CwdOwn(s, c) # None => d'.ino[CwdOwn(s, c)].type = "dir"
    BY <2>1, <1>12 DEF Type
  <2>3. d'.ino[i].type # "none" /\ (Deep(s, 2).op = "open_file" => d'.ino[i].type # "dir")
    BY <1>2, <1>6, <1>7, <1>12 DEF Type
  <2>4. Deep(t, 2).op = Deep(s, 2).op /\ h.ip = i BY <1>24, <1>6, <1>11
  <2>. QED BY <2>2, <2>3, <2>4, <1>26 DEF Known, Type, IsDir
<1>35. Careful(p, s, g, t, h, c) BY <1>3, <1>26, Constants DEF Careful, CwdOwn
<1>36. Using(p)
  <2>1. cwd'[p] = c /\ k'[p] = t /\ r'[p] = h BY <1>1, <1>10 DEF Within
  <2>2. Known(k[p], r[p], cwd[p])' BY <2>1, <1>34
  <2>. QED BY <2>2, <1>1, <1>27, <1>35, CarefulUsing
<1>. QED BY <1>12, <1>13, <1>27, <1>29, <1>30, <1>33, <1>36, MakesStep DEF Makes
=============================================================================
