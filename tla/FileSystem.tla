----------------------------- MODULE FileSystem -----------------------------
(***************************************************************************)
(* Inodes, directories, path names, open files and the system calls on     *)
(* them (fs.c, file.c, sysfile.c of Part_B).                               *)
(*                                                                         *)
(* A process in a call has a stack of the operations still to come, the    *)
(* next one first.  A step goes from one place where the code may sleep    *)
(* for an inode's lock to the next: what it does in between it does with   *)
(* the locks it holds.  The inode cache writes through, so one record per  *)
(* inode stands for the cached and the disk copy.  The log makes what is   *)
(* done between two moments without a transaction durable as a whole       *)
(* (module Log), so that what a crash leaves is `d' as it was at such a    *)
(* moment.                                                                 *)
(***************************************************************************)
EXTENDS Integers, Sequences, FiniteSets, FiniteSetsExt, SequencesExt

CONSTANTS
    NPROC,    \* slots of the process table
    NINODES,  \* inodes on disk: sb.ninodes - 1
    NBLOCKS,  \* data blocks on disk
    NFILE,    \* entries of ftable
    NOFILE,   \* open files of a process
    MAXFILE,  \* blocks of a file
    Elements, \* the names that paths are made of
    Programs  \* what the processes run: the calls of each, with their path
              \* names [abs, names], pairs of names to link and ways to open
              \* [writable, create], and which processes there are at the start

Proc  == 1 .. NPROC
Inum  == 1 .. NINODES
Block == 1 .. NBLOCKS
File  == 1 .. NFILE
Fd    == 0 .. NOFILE - 1
None  == 0
ROOTINO == 1

Name == {".", ".."} \cup Elements

Path(w) == w \in [abs : BOOLEAN, names : Seq(Name)]

ASSUME FileSystemAssumption ==
    /\ NPROC \in Nat /\ NINODES \in Nat \ {0} /\ NBLOCKS \in Nat \ {0}
    /\ NFILE \in Nat /\ NOFILE \in Nat /\ MAXFILE \in Nat \ {0}
    /\ \A run \in Programs : \A p \in Proc :
          /\ \A w \in run[p].paths : Path(w)
          /\ \A w \in run[p].links : Path(w[1]) /\ Path(w[2])
          /\ \A m \in run[p].modes : m.writable \in BOOLEAN /\ m.create \in BOOLEAN
          /\ run[p].boot \in BOOLEAN

VARIABLES
    d,        \* inodes, directory entries and bitmap, as the calls see them
    outstanding,       \* transactions in progress
    ref, valid, lock,  \* the inode cache
    file,     \* ftable
    ofile, cwd,        \* of each process; a process without cwd is unused
    k,        \* the operations each process has still to do in its call
    r,        \* the local variables of its call
    panicked, \* the argument of panic()
    program   \* what the processes run; it never changes

vars == <<d, outstanding, ref, valid, lock, file, ofile, cwd, k, r,
          panicked, program>>

FreeInode == [type |-> "none", nlink |-> 0, addrs |-> <<>>]
NoEntries == [n \in Name |-> None]
NoFile    == [ref |-> 0, ip |-> None, off |-> 0, writable |-> FALSE]
NoRegs    == [ip |-> None, dp |-> None, old |-> None, name |-> ".",
              path |-> <<>>, parent |-> FALSE,
              new |-> [abs |-> FALSE, names |-> <<>>], type |-> "none",
              file |-> None, writable |-> FALSE]

\* The disk that mkfs makes, with an empty root directory.
Mkfs == [ino |-> [i \in Inum |-> IF i = ROOTINO
                   THEN [type |-> "dir", nlink |-> 1, addrs |-> <<1>>]
                   ELSE FreeInode],
         ent |-> [i \in Inum |-> [n \in Name |->
                   IF i = ROOTINO /\ n \in {".", ".."} THEN ROOTINO ELSE None]],
         used |-> {1}]

Init ==
    /\ d = Mkfs /\ outstanding = 0
    /\ program \in Programs
    /\ cwd = [p \in Proc |-> IF program[p].boot THEN ROOTINO ELSE None]
    /\ ref = [i \in Inum |-> IF i = ROOTINO
                             THEN Cardinality({p \in Proc : program[p].boot}) ELSE 0]
    /\ valid = [i \in Inum |-> FALSE]
    /\ lock = [i \in Inum |-> None]
    /\ file = [f \in File |-> NoFile]
    /\ ofile = [p \in Proc |-> [fd \in Fd |-> None]]
    /\ k = [p \in Proc |-> <<>>]
    /\ r = [p \in Proc |-> NoRegs]
    /\ panicked = "no"

-----------------------------------------------------------------------------
(* Operations to come.  Op(l, i) is operation l on inode i; with i = None  *)
(* it is on the inode that namex() or create() has returned.               *)

Op(l, i) == [op |-> l, ip |-> i]
Ops(ls)  == [n \in DOMAIN ls |-> Op(ls[n], None)]

InKernel(p) == panicked = "no" /\ k[p] # <<>>
Target(p)   == IF Head(k[p]).ip = None THEN r[p].ip ELSE Head(k[p]).ip
At(p, l)    == InKernel(p) /\ Head(k[p]).op = l

Idle(p)     == panicked = "no" /\ k[p] = <<>> /\ cwd[p] # None

Continue(p, ops) == k' = [k EXCEPT ![p] = ops \o Tail(@)]
\* The rest of the call is given up, but for end_op().
Fail(p, ops) == k' = [k EXCEPT ![p] = ops \o Ops(<<"end_op">>)]

\* What every step within a call leaves alone.
Within == UNCHANGED <<outstanding, file, ofile, cwd, panicked, program>>

\* The operations that begin with the lock of their inode, and may wait for it.
Locking == {"walk", "iput", "create", "create_found", "create_new",
            "open_lock", "link_count", "link_dir", "link_undo", "unlink",
            "unlink_inode", "chdir", "read", "write"}

\* ilock() reads an inode that is not valid from the disk, where it must be.
NoType(i) == ~valid[i] /\ d.ino[i].type = "none"

\* The step of p locks inode i and keeps it locked (or not); it takes a
\* reference to inode `got' with iget().
ilock(p, i, keep, got) ==
    /\ lock' = [lock EXCEPT ![i] = IF keep THEN p ELSE None]
    /\ ref' = IF got = None THEN ref ELSE [ref EXCEPT ![got] = @ + 1]
    /\ valid' = [valid EXCEPT ![i] = TRUE]

iget(i) == ref' = [ref EXCEPT ![i] = @ + 1]

\* The step of p locks inode i, which it keeps, and unlocks inode j.
ilock_iunlock(p, i, j) ==
    /\ lock' = [lock EXCEPT ![j] = None, ![i] = p]
    /\ valid' = [valid EXCEPT ![i] = TRUE]
    /\ UNCHANGED ref

iunlock(i) == lock' = [lock EXCEPT ![i] = None] /\ UNCHANGED <<ref, valid>>

-----------------------------------------------------------------------------
(* Blocks and inodes on disk.                                              *)

\* balloc(): the first block that the bitmap has free.
NewBlock == Min(Block \ d.used)

IsDir(i) == d.ino[i].type = "dir"

\* ialloc(): the first inode of type 0.
FreeInodes == {i \in Inum : d.ino[i].type = "none"}

\* readi() and writei() of a file, not a device: bmap() has to find a block
\* for what is written at the end.
AtEnd(p)  == file[r[p].file].off = Len(d.ino[Target(p)].addrs)
OnDisk(p) == d.ino[Target(p)].type # "dev"
Grows(p)  == OnDisk(p) /\ AtEnd(p) /\ file[r[p].file].off < MAXFILE

\* What the next operation of p, with its inode's lock free, panics on.
Why(p) ==
    LET op == Head(k[p]).op
        i  == Target(p)
        full == Block \ d.used = {}
    IN
    IF op # "iput" /\ NoType(i) THEN "ilock: no type"
    ELSE IF op = "create" /\ FreeInodes = {} /\ d.ent[i][r[p].name] = None
         THEN "ialloc: no inodes"
    ELSE IF full /\ ((op = "create_new" /\ IsDir(i)) \/ (op = "write" /\ Grows(p)))
         THEN "balloc: out of blocks"
    ELSE IF op = "unlink_inode" /\ d.ino[i].nlink = 0 THEN "unlink: nlink < 1"
    ELSE "no"

GetsLock(p) ==
    /\ InKernel(p) /\ Head(k[p]).op \in Locking
    /\ Target(p) # None /\ lock[Target(p)] = None

CanLock(p, l) == At(p, l) /\ GetsLock(p) /\ Why(p) = "no"

panic(p) ==
    /\ GetsLock(p) /\ Why(p) # "no"
    /\ panicked' = Why(p)
    /\ UNCHANGED <<d, outstanding, ref, valid, lock, file, ofile, cwd, k, r,
                   program>>

\* Mutant: the inode is freed and its blocks are not.
Freed_inode(s, i) ==
    [s EXCEPT !.ino[i] = FreeInode, !.ent[i] = NoEntries]

\* itrunc(), the type 0 and iupdate() of iput().
Freed(s, i) ==
    [ino  |-> [s.ino EXCEPT ![i] = FreeInode],
     ent  |-> [s.ent EXCEPT ![i] = NoEntries],
     used |-> s.used \ ToSet(s.ino[i].addrs)]

\* writei() of one block at the end of the file: bmap() allocates it.
Appended(i) ==
    [d EXCEPT !.ino[i].addrs = Append(@, NewBlock), !.used = @ \cup {NewBlock}]

-----------------------------------------------------------------------------
(* Path names.                                                             *)

\* namex() begins at the root or at the current directory, and walks if there
\* is a name to look up: the local variables and operations it starts with.
Start(p, w)       == IF w.abs THEN ROOTINO ELSE cwd[p]
namex_regs(p, w, regs) ==
    [regs EXCEPT !.path = w.names,
                 !.ip = IF w.names = <<>> /\ regs.parent THEN None ELSE Start(p, w)]
namex_ops(p, w, regs) ==
    IF w.names # <<>> THEN <<Op("walk", Start(p, w))>>
    ELSE IF regs.parent THEN <<Op("iput", Start(p, w))>>
    ELSE <<>>

\* dirlookup() in a locked directory.
Found(dp, name) == d.ent[dp][name]

\* One element of the path: the directory is unlocked before the next inode
\* is locked, and put.
walk(p) ==
    /\ CanLock(p, "walk")
    /\ LET t    == Target(p)
           path == r[p].path
           last == Len(path) = 1
           stop == IsDir(t) /\ r[p].parent /\ last
           next == IF IsDir(t) /\ ~stop THEN Found(t, Head(path)) ELSE None
       IN
       /\ ilock(p, t, FALSE, next)
       /\ r' = [r EXCEPT ![p].path = Tail(path), ![p].name = Head(path),
                         ![p].ip = IF stop THEN t ELSE next]
       /\ Continue(p, IF stop THEN <<>>
                      ELSE <<Op("iput", t)>> \o
                           (IF next = None \/ last THEN <<>>
                            ELSE <<Op("walk", next)>>))
    /\ UNCHANGED d /\ Within

\* The operation after namex() or create() finds no inode.
no_inode(p) ==
    /\ InKernel(p) /\ Target(p) = None
    /\ Head(k[p]).op \in {"create", "open_lock", "open_file", "put_new",
                          "link_count", "link_dir", "unlink", "chdir"}
    /\ Fail(p, IF Head(k[p]).op = "link_dir" THEN <<Op("link_undo", r[p].old)>>
               ELSE <<>>)
    /\ UNCHANGED <<d, ref, valid, lock, r>> /\ Within

-----------------------------------------------------------------------------
(* Dropping a reference: the lock is held to decide and to free, but no    *)
(* longer when the count goes down.                                        *)

\* Mutant: the references of others are not looked at.
LastRef_any(i) == valid[i] /\ d.ino[i].nlink = 0

LastRef(i) == valid[i] /\ d.ino[i].nlink = 0 /\ ref[i] = 1

iput(p) ==
    /\ At(p, "iput") /\ lock[Target(p)] = None
    /\ LET i == Target(p) IN
       IF LastRef(i)
       THEN lock' = [lock EXCEPT ![i] = p] /\ Continue(p, <<Op("itrunc", i)>>)
       ELSE UNCHANGED lock /\ Continue(p, <<Op("unref", i)>>)
    /\ UNCHANGED <<d, ref, valid, r>> /\ Within

itrunc(p) ==
    /\ At(p, "itrunc")
    /\ LET i == Target(p) IN
       /\ d' = Freed(d, i)
       /\ valid' = [valid EXCEPT ![i] = FALSE]
       /\ lock' = [lock EXCEPT ![i] = None]
       /\ Continue(p, <<Op("unref", i)>>)
    /\ UNCHANGED <<ref, r>> /\ Within

\* An entry that nobody refers to is filled anew by the next iget().
unref(p) ==
    /\ At(p, "unref")
    /\ ref' = [ref EXCEPT ![Target(p)] = @ - 1]
    /\ valid' = [valid EXCEPT ![Target(p)] = @ /\ ref[Target(p)] > 1]
    /\ Continue(p, <<>>)
    /\ UNCHANGED <<d, lock, r>> /\ Within

-----------------------------------------------------------------------------
(* create(): the parent is locked until the new inode is linked to it.     *)

create(p) ==
    /\ CanLock(p, "create")
    /\ LET dp == Target(p)
           e  == Found(dp, r[p].name)
       IN
       IF e # None
       THEN /\ ilock(p, dp, FALSE, e)
            /\ r' = [r EXCEPT ![p].ip = e]
            /\ Continue(p, <<Op("iput", dp), Op("create_found", e)>>)
            /\ UNCHANGED d /\ Within
       ELSE /\ LET i == Min(FreeInodes) IN
               /\ d' = [d EXCEPT !.ino[i] = [FreeInode EXCEPT !.type = r[p].type]]
               /\ ilock(p, dp, TRUE, i)
               /\ r' = [r EXCEPT ![p].ip = i, ![p].dp = dp]
               /\ Continue(p, <<Op("create_new", i)>>)
            /\ Within

\* open() with O_CREATE of a file that is there.
create_found(p) ==
    /\ CanLock(p, "create_found")
    /\ LET i  == Target(p)
           ok == r[p].type = "file" /\ d.ino[i].type = "file"
       IN /\ ilock(p, i, ok, None)
          /\ r' = [r EXCEPT ![p].ip = IF ok THEN i ELSE None]
          /\ Continue(p, IF ok THEN <<>> ELSE <<Op("iput", i)>>)
    /\ UNCHANGED d /\ Within

\* The new inode is filled in, given "." and ".." and linked to its parent.
create_new(p) ==
    /\ CanLock(p, "create_new")
    /\ LET i   == Target(p)
           dp  == r[p].dp
           new == [d EXCEPT !.ino[i].nlink = 1, !.ent[dp][r[p].name] = i]
       IN
       /\ IF IsDir(i)
          THEN d' = [new EXCEPT !.ino[i].addrs = <<NewBlock>>,
                                   !.used = @ \cup {NewBlock},
                                   !.ino[dp].nlink = @ + 1,
                                   !.ent[i]["."] = i, !.ent[i][".."] = dp]
          ELSE d' = new
       /\ ilock_iunlock(p, i, dp)
       /\ Continue(p, <<Op("iput", dp)>>)
    /\ UNCHANGED r /\ Within


\* The end of mkdir() and mknod().
put_new(p) ==
    /\ At(p, "put_new") /\ Target(p) # None
    /\ iunlock(Target(p))
    /\ Continue(p, <<Op("iput", Target(p))>>)
    /\ UNCHANGED <<d, r>> /\ Within

-----------------------------------------------------------------------------
(* open(), close() and the file table.                                     *)

open_lock(p) ==
    /\ CanLock(p, "open_lock")
    /\ LET i   == Target(p)
           bad == IsDir(i) /\ r[p].writable
       IN /\ ilock(p, i, ~bad, None)
          /\ IF bad THEN Fail(p, <<Op("iput", i)>>) ELSE Continue(p, <<>>)
    /\ UNCHANGED <<d, r>> /\ Within

FreeFiles  == {f \in File : file[f].ref = 0}
FreeFds(p) == {fd \in Fd : ofile[p][fd] = None}

\* filealloc() and fdalloc(); nobody but p sees the file before open() is done.
open_file(p) ==
    /\ At(p, "open_file") /\ Target(p) # None
    /\ LET i == Target(p) IN
       /\ iunlock(i)
       /\ IF FreeFiles = {} \/ FreeFds(p) = {}
          THEN Fail(p, <<Op("iput", i)>>) /\ UNCHANGED <<file, ofile>>
          ELSE LET f == Min(FreeFiles) IN
               /\ file' = [file EXCEPT ![f] =
                     [ref |-> 1, ip |-> i, off |-> 0, writable |-> r[p].writable]]
               /\ ofile' = [ofile EXCEPT ![p][Min(FreeFds(p))] = f]
               /\ Continue(p, <<>>)
    /\ UNCHANGED <<d, outstanding, cwd, r, panicked, program>>

\* fileclose() under ftable.lock; a file's number takes the place of an inode's
\* here.  From there on the process has its own copy of the struct file.
fileclose(p) ==
    /\ At(p, "fileclose")
    /\ LET f == Head(k[p]).ip IN
       IF file[f].ref > 1
       THEN file' = [file EXCEPT ![f].ref = @ - 1] /\ Continue(p, <<>>)
       ELSE /\ file' = [file EXCEPT ![f] = NoFile]
            /\ Continue(p, <<Op("close_begin", file[f].ip)>>)
    /\ UNCHANGED <<d, outstanding, ref, valid, lock, ofile, cwd, r, panicked, program>>

\* begin_op() for the inode of the copy, after the release of ftable.lock.
close_begin(p) ==
    /\ At(p, "close_begin")
    /\ outstanding' = outstanding + 1
    /\ Continue(p, <<Op("iput", Head(k[p]).ip), Op("end_op", None)>>)
    /\ UNCHANGED <<d, ref, valid, lock, file, ofile, cwd, r, panicked, program>>

write(p) ==
    /\ CanLock(p, "write")
    /\ LET i == Target(p)
           f == r[p].file
       IN
       /\ IF OnDisk(p) /\ file[f].off < MAXFILE
          THEN file' = [file EXCEPT ![f].off = @ + 1] ELSE UNCHANGED file
       /\ d' = IF Grows(p) THEN Appended(i) ELSE d
       /\ ilock(p, i, FALSE, None)
    /\ Continue(p, <<>>)
    /\ UNCHANGED <<outstanding, ofile, cwd, r, panicked, program>>

read(p) ==
    /\ CanLock(p, "read")
    /\ file' = [file EXCEPT ![r[p].file].off = 
                               IF AtEnd(p) \/ ~OnDisk(p) THEN @ ELSE @ + 1]
    /\ ilock(p, Target(p), FALSE, None)
    /\ Continue(p, <<>>)
    /\ r' = [r EXCEPT ![p] = NoRegs]
    /\ UNCHANGED <<d, outstanding, ofile, cwd, panicked, program>>

-----------------------------------------------------------------------------
(* link().                                                                 *)

\* The link is counted before it is made.
link_count(p) ==
    /\ CanLock(p, "link_count")
    /\ LET i    == Target(p)
           new  == r[p].new
           regs == [r[p] EXCEPT !.old = i, !.parent = TRUE]
       IN
       IF IsDir(i)
       THEN /\ ilock(p, i, FALSE, None)
            /\ Fail(p, <<Op("iput", i)>>) /\ UNCHANGED <<d, r>>
       ELSE /\ ilock(p, i, FALSE, Start(p, new))
            /\ d' = [d EXCEPT !.ino[i].nlink = @ + 1]
            /\ r' = [r EXCEPT ![p] = namex_regs(p, new, regs)]
            /\ Continue(p, namex_ops(p, new, regs))
    /\ Within

\* dirlink(): a name that is there is put while the directory is locked.
link_dir(p) ==
    /\ CanLock(p, "link_dir")
    /\ LET dp == Target(p)
           e  == Found(dp, r[p].name)
       IN
       /\ ilock(p, dp, e # None, e)
       /\ r' = [r EXCEPT ![p].dp = dp]
       /\ IF e # None
          THEN /\ Fail(p, <<Op("iput", e), Op("link_exists", dp),
                            Op("link_undo", r[p].old)>>)
               /\ UNCHANGED d
          ELSE /\ d' = [d EXCEPT !.ent[dp][r[p].name] = r[p].old]
               /\ Continue(p, <<Op("iput", dp), Op("iput", r[p].old)>>)
    /\ Within

\* Mutant: unlocked, but not put.
unlock_put_not(p) ==
    /\ At(p, "link_exists") \/ At(p, "unlink_bad")
    /\ iunlock(Target(p))
    /\ Continue(p, <<>>)
    /\ UNCHANGED <<d, r>> /\ Within

\* iunlockput(dp) after a dirlink() that failed, or on the way out of unlink().
unlock_put(p) ==
    /\ At(p, "link_exists") \/ At(p, "unlink_bad")
    /\ iunlock(Target(p))
    /\ Continue(p, <<Op("iput", Target(p))>>)
    /\ UNCHANGED <<d, r>> /\ Within

\* Mutant: the link that could not be made stays counted.
link_undo_kept(p) ==
    /\ CanLock(p, "link_undo")
    /\ ilock(p, Target(p), FALSE, None)
    /\ Continue(p, <<Op("iput", Target(p))>>)
    /\ UNCHANGED <<d, r>> /\ Within

link_undo(p) ==
    /\ CanLock(p, "link_undo")
    /\ d' = [d EXCEPT !.ino[Target(p)].nlink = @ - 1]
    /\ ilock(p, Target(p), FALSE, None)
    /\ Continue(p, <<Op("iput", Target(p))>>)
    /\ UNCHANGED r /\ Within

-----------------------------------------------------------------------------
(* unlink(): the directory stays locked while the inode is locked.         *)

isdirempty(i) == \A n \in Name \ {".", ".."} : Found(i, n) = None

unlink(p) ==
    /\ CanLock(p, "unlink")
    /\ LET dp == Target(p)
           e  == IF r[p].name \in {".", ".."} THEN None ELSE Found(dp, r[p].name)
       IN
       /\ ilock(p, dp, e # None, e)
       /\ r' = [r EXCEPT ![p].dp = dp]
       /\ IF e = None THEN Fail(p, <<Op("iput", dp)>>)
          ELSE Continue(p, <<Op("unlink_inode", e)>>)
    /\ UNCHANGED d /\ Within

unlink_inode(p) ==
    /\ CanLock(p, "unlink_inode")
    /\ LET i  == Target(p)
           dp == r[p].dp
           gone == [d EXCEPT !.ent[dp][r[p].name] = None]
       IN
       IF IsDir(i) /\ ~isdirempty(i)
       THEN /\ ilock(p, i, FALSE, None)
            /\ Fail(p, <<Op("iput", i), Op("unlink_bad", dp)>>)
            /\ UNCHANGED d
       ELSE /\ d' = IF IsDir(i) THEN [gone EXCEPT !.ino[dp].nlink = @ - 1] ELSE gone
            /\ ilock_iunlock(p, i, dp)
            /\ Continue(p, <<Op("iput", dp), Op("unlink_done", i)>>)
    /\ UNCHANGED r /\ Within

unlink_done(p) ==
    /\ At(p, "unlink_done")
    /\ d' = [d EXCEPT !.ino[Target(p)].nlink = @ - 1]
    /\ iunlock(Target(p))
    /\ Continue(p, <<Op("iput", Target(p))>>)
    /\ UNCHANGED r /\ Within

-----------------------------------------------------------------------------
chdir(p) ==
    /\ CanLock(p, "chdir")
    /\ LET i == Target(p) IN
       /\ ilock(p, i, FALSE, None)
       /\ IF IsDir(i) THEN Continue(p, <<Op("iput", cwd[p])>>)
          ELSE Fail(p, <<Op("iput", i)>>)
    /\ UNCHANGED <<d, r>> /\ Within

\* The assignments to cwd that follow end_op(), in chdir() and in exit().
set_cwd(p) ==
    /\ At(p, "set_cwd")
    /\ cwd' = [cwd EXCEPT ![p] = r[p].ip]
    /\ r' = [r EXCEPT ![p] = NoRegs]
    /\ Continue(p, <<>>)
    /\ UNCHANGED <<d, outstanding, ref, valid, lock, file, ofile, panicked, program>>

\* The loop of exit() over its descriptors, and begin_op() after it.  Nobody
\* else looks at the descriptors.
exit_files(p) ==
    /\ At(p, "exit_files")
    /\ LET open == Fd \ FreeFds(p) IN
       IF open = {}
       THEN outstanding' = outstanding + 1 /\ Continue(p, <<>>) /\ UNCHANGED ofile
       ELSE /\ ofile' = [ofile EXCEPT ![p][Min(open)] = None]
            /\ Continue(p, <<Op("fileclose", ofile[p][Min(open)]), Op("exit_files", None)>>)
            /\ UNCHANGED outstanding
    /\ UNCHANGED <<d, ref, valid, lock, file, cwd, r, panicked, program>>

\* end_op(): the last transaction commits.
end_op(p) ==
    /\ At(p, "end_op")
    /\ outstanding' = outstanding - 1
    /\ Continue(p, <<>>)
    /\ r' = IF Len(k[p]) = 1 THEN [r EXCEPT ![p] = NoRegs] ELSE r
    /\ UNCHANGED <<d, ref, valid, lock, file, ofile, cwd, panicked, program>>

-----------------------------------------------------------------------------
(* The system calls.                                                       *)

\* A call that begins a transaction with a path name.
Begin(p, call, w, regs, ops) ==
    /\ Idle(p) /\ call \in program[p].calls
    /\ r' = [r EXCEPT ![p] = namex_regs(p, w, regs)]
    /\ k' = [k EXCEPT ![p] = namex_ops(p, w, regs) \o Ops(ops)]
    /\ iget(Start(p, w))
    /\ outstanding' = outstanding + 1
    /\ UNCHANGED <<d, valid, lock, file, ofile, cwd, panicked, program>>

\* The parent is wanted, to make an inode of type t.
Making(t) == [NoRegs EXCEPT !.parent = TRUE, !.type = t]

sys_open(p, w, writable, ocreate) ==
    IF ocreate
    THEN Begin(p, "open", w, [Making("file") EXCEPT !.writable = writable],
               <<"create", "open_file", "end_op">>)
    ELSE Begin(p, "open", w, [NoRegs EXCEPT !.writable = writable],
               <<"open_lock", "open_file", "end_op">>)

sys_mkdir(p, w) ==
    Begin(p, "mkdir", w, Making("dir"), <<"create", "put_new", "end_op">>)

sys_mknod(p, w) ==
    Begin(p, "mknod", w, Making("dev"), <<"create", "put_new", "end_op">>)

sys_link(p, w, new) ==
    Begin(p, "link", w, [NoRegs EXCEPT !.new = new],
          <<"link_count", "link_dir", "end_op">>)

sys_unlink(p, w) ==
    Begin(p, "unlink", w, [NoRegs EXCEPT !.parent = TRUE],
          <<"unlink", "end_op">>)

sys_chdir(p, w) ==
    Begin(p, "chdir", w, NoRegs, <<"chdir", "end_op", "set_cwd">>)

\* A call on an open file.
OnFile(p, call, fd, ops) ==
    /\ Idle(p) /\ call \in program[p].calls /\ ofile[p][fd] # None
    /\ k' = [k EXCEPT ![p] = ops]
    /\ r' = [r EXCEPT ![p].file = IF call = "close" THEN None ELSE ofile[p][fd]]
    /\ UNCHANGED <<d, ref, valid, lock, cwd, panicked, program>>

sys_close(p, fd) ==
    /\ OnFile(p, "close", fd, <<Op("fileclose", ofile[p][fd])>>)
    /\ ofile' = [ofile EXCEPT ![p][fd] = None]
    /\ UNCHANGED <<outstanding, file>>

sys_dup(p, fd) ==
    /\ Idle(p) /\ "dup" \in program[p].calls /\ ofile[p][fd] # None /\ FreeFds(p) # {}
    /\ ofile' = [ofile EXCEPT ![p][Min(FreeFds(p))] = ofile[p][fd]]
    /\ file' = [file EXCEPT ![ofile[p][fd]].ref = @ + 1]
    /\ UNCHANGED <<d, outstanding, ref, valid, lock, cwd, k, r, panicked, program>>

sys_write(p, fd) ==
    /\ OnFile(p, "write", fd,
              <<Op("write", file[ofile[p][fd]].ip), Op("end_op", None)>>)
    /\ file[ofile[p][fd]].writable
    /\ outstanding' = outstanding + 1
    /\ UNCHANGED <<file, ofile>>

sys_read(p, fd) ==
    /\ OnFile(p, "read", fd, <<Op("read", file[ofile[p][fd]].ip)>>)
    /\ UNCHANGED <<outstanding, file, ofile>>

\* fork(): the files and the directory that the child shares.
fork(p, q) ==
    /\ Idle(p) /\ "fork" \in program[p].calls /\ cwd[q] = None /\ k[q] = <<>>
    /\ ofile' = [ofile EXCEPT ![q] = ofile[p]]
    /\ file' = [f \in File |-> [file[f] EXCEPT
                  !.ref = @ + Cardinality({fd \in Fd : ofile[p][fd] = f})]]
    /\ cwd' = [cwd EXCEPT ![q] = cwd[p]]
    /\ ref' = [ref EXCEPT ![cwd[p]] = @ + 1]
    /\ UNCHANGED <<d, outstanding, valid, lock, k, r, panicked, program>>

\* exit(): every file is closed, then the directory is put.
exit(p) ==
    /\ Idle(p) /\ "exit" \in program[p].calls
    /\ k' = [k EXCEPT ![p] = <<Op("exit_files", None), Op("iput", cwd[p]),
                               Op("end_op", None), Op("set_cwd", None)>>]
    /\ UNCHANGED <<d, outstanding, ref, valid, lock, file, ofile, cwd, r, panicked, program>>

-----------------------------------------------------------------------------
Call(p) ==
    \/ \E w \in program[p].paths :
          \/ \E m \in program[p].modes : sys_open(p, w, m.writable, m.create)
          \/ sys_mkdir(p, w) \/ sys_mknod(p, w) \/ sys_unlink(p, w) \/ sys_chdir(p, w)
    \/ \E w \in program[p].links : sys_link(p, w[1], w[2])
    \/ \E fd \in Fd :
          sys_close(p, fd) \/ sys_dup(p, fd) \/ sys_write(p, fd) \/ sys_read(p, fd)
    \/ \E q \in Proc : fork(p, q)
    \/ exit(p)

Step(p) ==
    \/ walk(p) \/ no_inode(p)
    \/ iput(p) \/ itrunc(p) \/ unref(p)
    \/ create(p) \/ create_found(p) \/ create_new(p) \/ put_new(p)
    \/ open_lock(p) \/ open_file(p) \/ fileclose(p) \/ close_begin(p) \/ write(p) \/ read(p)
    \/ link_count(p) \/ link_dir(p) \/ link_undo(p) \/ unlock_put(p)
    \/ unlink(p) \/ unlink_inode(p) \/ unlink_done(p)
    \/ chdir(p) \/ set_cwd(p) \/ exit_files(p) \/ end_op(p)
    \/ panic(p)

Next == \E p \in Proc : Call(p) \/ Step(p)

Spec == Init /\ [][Next]_vars

-----------------------------------------------------------------------------
Operations == Locking \cup {"open_file", "put_new", "fileclose", "close_begin",
                      "itrunc", "unref", "unlink_done", "link_exists", "unlink_bad",
                      "set_cwd", "exit_files", "end_op"}

\* nlink is a short.
Disks == [ino : [Inum -> [type : {"none", "file", "dir", "dev"}, nlink : Int,
                          addrs : UNION {[1 .. n -> Block] : n \in 0 .. MAXFILE + 1}]],
          ent : [Inum -> [Name -> Inum \cup {None}]],
          used : SUBSET Block]

TypeOK ==
    /\ d \in Disks
    /\ outstanding \in 0 .. NPROC
    /\ ref \in [Inum -> Nat] /\ valid \in [Inum -> BOOLEAN]
    /\ lock \in [Inum -> Proc \cup {None}]
    /\ file \in [File -> [ref : Nat, ip : Inum \cup {None}, off : 0 .. MAXFILE,
                          writable : BOOLEAN]]
    /\ ofile \in [Proc -> [Fd -> File \cup {None}]]
    /\ cwd \in [Proc -> Inum \cup {None}]
    /\ \A p \in Proc : \A n \in DOMAIN k[p] : k[p][n].op \in Operations

\* The directories that a path from the root reaches on disk s.
Reached(s) ==
    LET within[n \in 0 .. NINODES] ==
          IF n = 0 THEN {ROOTINO}
          ELSE within[n - 1] \cup
               ({s.ent[i][name] : i \in within[n - 1], name \in Name \ {".."}}
                  \ {None})
    IN {i \in within[NINODES] : s.ino[i].type = "dir"}

\* The entries that name inode i, "." of the directory itself aside.
Names(s, i) ==
    Cardinality({x \in Reached(s) \X (Name \ {"."}) : s.ent[x[1]][x[2]] = i})

\* Whenever the log commits (and the power may fail): every name leads to an
\* allocated inode, and every inode that is named counts exactly its names,
\* however the transactions that are committed together have interleaved.
CommitConsistent ==
    outstanding = 0 => \A i \in Inum : Names(d, i) > 0 =>
       d.ino[i].type # "none" /\ d.ino[i].nlink = Names(d, i)

\* What is open, or a current directory between two calls, is allocated.
Attached ==
    /\ \A f \in File : file[f].ref > 0 => d.ino[file[f].ip].type # "none"
    /\ \A p \in Proc : cwd[p] # None /\ k[p] = <<>> => d.ino[cwd[p]].type # "none"

\* No inode is freed while somebody can get at it: at every step of every call
\* what is named, open or a current directory is allocated, and there are at
\* least as many links counted as names.
NoDangling ==
    /\ \A i \in Inum : Names(d, i) > 0 =>
          d.ino[i].type # "none" /\ d.ino[i].nlink >= Names(d, i)
    /\ Attached

\* A block belongs to one inode or is free, and none is lost: what the bitmap
\* says is what the inodes hold, through every allocation and truncation.
BlocksOwned ==
    /\ d.used = UNION {ToSet(d.ino[i].addrs) : i \in Inum}
    /\ \A i, j \in Inum : i # j =>
          ToSet(d.ino[i].addrs) \cap ToSet(d.ino[j].addrs) = {}
    /\ \A i \in Inum : IsInjective(d.ino[i].addrs)

\* No call takes a reference that it does not give back or drops one it has
\* not taken, on whichever of its paths it returns: between calls the counts
\* are those of the open files, the descriptors and the current directories.
RefsCounted ==
    /\ TypeOK
    /\ (\A p \in Proc : k[p] = <<>>) /\ panicked = "no" =>
       /\ \A i \in Inum :
             /\ lock[i] = None
             /\ ref[i] = Cardinality({f \in File : file[f].ip = i})
                           + Cardinality({p \in Proc : cwd[p] = i})
       /\ \A f \in File :
             file[f].ref = Cardinality({x \in Proc \X Fd : ofile[x[1]][x[2]] = f})

\* An inode that has neither links nor references is free (fs.c:372-373).
LastRefFrees ==
    \A i \in Inum : ref[i] = 0 /\ d.ino[i].type # "none" => d.ino[i].nlink > 0

\* What a path leads to is allocated when ilock() reads it (fs.c:354-355).
LockedHasType == panicked # "ilock: no type"

\* The process whose lock p waits for.
WaitsFor(p) ==
    IF InKernel(p) /\ Head(k[p]).op \in Locking /\ Target(p) # None
    THEN lock[Target(p)] ELSE None

\* No two processes wait for each other's inodes, and none for itself: locks
\* separate from references avoid deadlock (fs.c:191-196).
NoDeadlock ==
    \A p \in Proc : WaitsFor(p) # None =>
       WaitsFor(p) # p /\ WaitsFor(WaitsFor(p)) # p
=============================================================================
