------------------------------ MODULE SysCalls ------------------------------
(***************************************************************************)
(* The system calls on files as a program sees them when each of them      *)
(* happens at one moment: sysfile.c of Assignment 1, with the file system, *)
(* the pipes and the processes below it.  r is what a call returns.  An    *)
(* inode without links that is neither open nor a directory that a process *)
(* is in is free.                                                          *)
(***************************************************************************)
EXTENDS Integers, Sequences, FiniteSets, FiniteSetsExt, SequencesExt, TLC

CONSTANTS
    Proc, NINODES, NFILE, NOFILE, MAXFILE, PIPESIZE,
    Cut   \* longer names, and their first DIRSIZ characters

None == 0
ROOT == 1
Inum == 1 .. NINODES
File == 1 .. NFILE
Fd   == 0 .. NOFILE - 1

VARIABLES
    inode,   \* type, links, contents and directory entries
    file,    \* ftable
    pipe,    \* bytes in the pipe with each file's number
    proc     \* state, parent, cwd, open files, killed

sysvars == <<inode, file, pipe, proc>>

NoInode == [type |-> "none", nlink |-> 0, data |-> <<>>, names |-> <<>>]
Dir(i, parent) == [NoInode EXCEPT !.type = "dir", !.nlink = 1,
                                  !.names = ("." :> i) @@ (".." :> parent)]
NoFile  == [ref |-> 0, ip |-> None, off |-> 0, read |-> FALSE, write |-> FALSE, pipe |-> None]
NoProc  == [state |-> "unused", parent |-> None, cwd |-> None, killed |-> FALSE,
            ofile |-> [fd \in Fd |-> None]]

\* One process, and the files that are there.
SysInit(first, names) ==
    LET ino == SetToSeq(names) IN
    /\ inode = [i \in Inum |->
          IF i = ROOT
          THEN [Dir(ROOT, ROOT) EXCEPT !.names = @ @@ [n \in names |-> 1 + CHOOSE k \in DOMAIN ino : ino[k] = n]]
          ELSE IF i <= 1 + Len(ino) THEN [NoInode EXCEPT !.type = "file", !.nlink = 1]
          ELSE NoInode]
    /\ file = [f \in File |-> NoFile] /\ pipe = [f \in File |-> <<>>]
    /\ proc = [p \in Proc |-> IF p = first THEN [NoProc EXCEPT !.state = "runs", !.cwd = ROOT]
                              ELSE NoProc]

Alive == {p \in Proc : proc[p].state = "runs"}
Fails(r) == r = -1 /\ UNCHANGED sysvars

-----------------------------------------------------------------------------
(* Names.                                                                  *)

Name(n) == IF n \in DOMAIN Cut THEN Cut[n] ELSE n
Elements(path) == IF path # <<>> /\ Head(path) = "/" THEN Tail(path) ELSE path

IsDir(i) == i # None /\ inode[i].type = "dir"
Entry(i, n) == IF IsDir(i) /\ Name(n) \in DOMAIN inode[i].names
               THEN inode[i].names[Name(n)] ELSE None

Walk(p, path, names) ==
    FoldLeft(Entry, IF path # names THEN ROOT ELSE proc[p].cwd, names)
namei(p, path) == Walk(p, path, Elements(path))

\* The directory that the last name of the path is or would be in.
nameiparent(p, path) ==
    IF Elements(path) = <<>> THEN None
    ELSE LET names == Elements(path)
             i == FoldLeft(Entry, IF path # names THEN ROOT ELSE proc[p].cwd, Front(names))
         IN IF IsDir(i) THEN i ELSE None
Base(path) == Name(Last(path))

InUse(i) == \/ inode[i].nlink > 0 \/ \E f \in File : file[f].ref > 0 /\ file[f].ip = i
            \/ \E p \in Proc : proc[p].cwd = i

\* create(): the inode and what the disk holds then; None if the name is taken
\* by anything but a file that a file is wanted for.
create(p, path, type) ==
    LET dp  == nameiparent(p, path)
        old == Entry(dp, Last(path))
        new == Min({i \in Inum : ~InUse(i)})
        ip  == IF type = "dir" THEN Dir(new, dp)
               ELSE [NoInode EXCEPT !.type = type, !.nlink = 1]
    IN IF dp = None THEN [ip |-> None, inode |-> inode]
       ELSE IF old # None
       THEN [ip |-> IF type = "file" /\ inode[old].type = "file" THEN old ELSE None, inode |-> inode]
       ELSE [ip |-> new,
             inode |-> [inode EXCEPT ![new] = ip, ![dp].names = @ @@ (Base(path) :> new),
                                     ![dp].nlink = IF type = "dir" THEN @ + 1 ELSE @]]

-----------------------------------------------------------------------------
(* Open files.                                                             *)

FreeFile == {f \in File : file[f].ref = 0}
FreeFd(p) == {fd \in Fd : proc[p].ofile[fd] = None}
argfd(p, fd) == IF fd \in Fd THEN proc[p].ofile[fd] ELSE None

\* filealloc() and fdalloc(), and what is put in the file.
OpenAs(p, f, r) ==
    IF FreeFile = {} \/ FreeFd(p) = {} THEN r = -1 /\ UNCHANGED <<file, proc>>
    ELSE /\ r = Min(FreeFd(p))
         /\ file' = [file EXCEPT ![Min(FreeFile)] = f]
         /\ proc' = [proc EXCEPT ![p].ofile[r] = Min(FreeFile)]

\* The file is made even if there is no room to open it.
sys_open(p, path, mode, r) ==
    LET c == IF "create" \in mode THEN create(p, path, "file")
             ELSE [ip |-> namei(p, path), inode |-> inode]
    IN IF c.ip = None \/ ("create" \notin mode /\ IsDir(c.ip) /\ mode # {})
       THEN Fails(r)
       ELSE /\ inode' = c.inode
            /\ OpenAs(p, [NoFile EXCEPT !.ref = 1, !.ip = c.ip, !.read = "wronly" \notin mode,
                                        !.write = mode \cap {"wronly", "rdwr"} # {}], r)
            /\ UNCHANGED pipe

sys_dup(p, fd, r) ==
    LET f == argfd(p, fd) IN
    IF f = None \/ FreeFd(p) = {} THEN Fails(r)
    ELSE /\ r = Min(FreeFd(p))
         /\ proc' = [proc EXCEPT ![p].ofile[r] = f]
         /\ file' = [file EXCEPT ![f].ref = @ + 1]
         /\ UNCHANGED <<inode, pipe>>

sys_close(p, fd, r) ==
    LET f == argfd(p, fd) IN
    IF f = None THEN Fails(r)
    ELSE /\ r = 0
         /\ proc' = [proc EXCEPT ![p].ofile[fd] = None]
         /\ file' = [file EXCEPT ![f].ref = @ - 1]
         /\ UNCHANGED <<inode, pipe>>

\* The other end of f's pipe is open.
Peer(f) == \E g \in File : file[g].ref > 0 /\ file[g].pipe = file[f].pipe /\ file[g].read # file[f].read

\* What a read of n bytes finds.
Bytes(f, n) ==
    LET s == IF file[f].pipe # None THEN pipe[file[f].pipe]
             ELSE SubSeq(inode[file[f].ip].data, file[f].off + 1, Len(inode[file[f].ip].data))
    IN SubSeq(s, 1, Min({n, Len(s)}))

\* A pipe is waited for until there is data or no writer.
sys_read(p, fd, n, r) ==
    LET f == argfd(p, fd) IN
    IF f = None \/ n < 0 \/ ~file[f].read THEN Fails(r)
    ELSE /\ file[f].pipe # None => Bytes(f, n) # <<>> \/ ~Peer(f)
         /\ r = Len(Bytes(f, n))
         /\ IF file[f].pipe # None
            THEN /\ pipe' = [pipe EXCEPT ![file[f].pipe] = SubSeq(@, r + 1, Len(@))]
                 /\ UNCHANGED file
            ELSE file' = [file EXCEPT ![f].off = @ + r] /\ UNCHANGED pipe
         /\ UNCHANGED <<inode, proc>>

\* Mutant: an open file's offset stays where it is.
Advanced_not(f, n) == file[f].off

\* The offset after n bytes; all processes that share the open file share it.
Advanced(f, n) == file[f].off + n

sys_write(p, fd, s, r) ==
    LET f   == argfd(p, fd)
        off == file[f].off
        i   == file[f].ip
        room == PIPESIZE - Len(pipe[file[f].pipe])
        fits == Len(s) <= room
    IN
    IF f = None \/ ~file[f].write THEN Fails(r)
    ELSE IF file[f].pipe # None    \* it looks for readers only when the pipe is full
    THEN /\ fits \/ ~Peer(f)
         /\ r = IF fits THEN Len(s) ELSE -1
         /\ pipe' = [pipe EXCEPT ![file[f].pipe] = @ \o IF fits THEN s ELSE SubSeq(s, 1, room)]
         /\ UNCHANGED <<inode, file, proc>>
    ELSE IF off + Len(s) > MAXFILE THEN Fails(r)
    ELSE /\ r = Len(s)
         /\ inode' = [inode EXCEPT ![i].data =
                        SubSeq(@, 1, off) \o s \o SubSeq(@, off + r + 1, Len(@))]
         /\ file' = [file EXCEPT ![f].off = Advanced(f, r)]
         /\ UNCHANGED <<pipe, proc>>

-----------------------------------------------------------------------------
(* Links and directories.                                                  *)

sys_link(p, old, new, r) ==
    LET i  == namei(p, old)
        dp == nameiparent(p, new)
    IN IF i = None \/ IsDir(i) \/ dp = None \/ Entry(dp, Last(new)) # None
       THEN Fails(r)
       ELSE /\ r = 0
            /\ inode' = [inode EXCEPT ![i].nlink = @ + 1, ![dp].names = @ @@ (Base(new) :> i)]
            /\ UNCHANGED <<file, pipe, proc>>

isdirempty(i) == DOMAIN inode[i].names = {".", ".."}

sys_unlink(p, path, r) ==
    LET dp == nameiparent(p, path)
        i  == Entry(dp, Last(path))
    IN IF dp = None \/ i = None \/ Base(path) \in {".", ".."} \/ (IsDir(i) /\ ~isdirempty(i))
       THEN Fails(r)
       ELSE /\ r = 0
            /\ inode' = [inode EXCEPT
                  ![i].nlink = @ - 1,
                  ![dp].nlink = IF IsDir(i) THEN @ - 1 ELSE @,
                  ![dp].names = [n \in DOMAIN @ \ {Base(path)} |-> @[n]]]
            /\ UNCHANGED <<file, pipe, proc>>

\* mkdir() and mknod().
sys_make(p, path, type, r) ==
    LET c == create(p, path, type) IN
    IF c.ip = None THEN Fails(r)
    ELSE r = 0 /\ inode' = c.inode /\ UNCHANGED <<file, pipe, proc>>

sys_chdir(p, path, r) ==
    IF ~IsDir(namei(p, path)) THEN Fails(r)
    ELSE /\ r = 0 /\ proc' = [proc EXCEPT ![p].cwd = namei(p, path)]
         /\ UNCHANGED <<inode, file, pipe>>

sys_pipe(p, r) ==
    LET a == Min(FreeFile)     b == Min(FreeFile \ {a})
        x == Min(FreeFd(p))    y == Min(FreeFd(p) \ {x})
        end(w) == [NoFile EXCEPT !.ref = 1, !.pipe = a, !.read = ~w, !.write = w]
    IN IF ~(\E f, g \in FreeFile : f # g) \/ ~(\E u, v \in FreeFd(p) : u # v) THEN Fails(r)
       ELSE /\ r = 0
            /\ file' = [file EXCEPT ![a] = end(FALSE), ![b] = end(TRUE)]
            /\ pipe' = [pipe EXCEPT ![a] = <<>>]
            /\ proc' = [proc EXCEPT ![p].ofile[x] = a, ![p].ofile[y] = b]
            /\ UNCHANGED inode

\* sys_wolfie(): the size of the picture if it fits in the n bytes of the
\* buffer and there is an open file to read it with, which is closed again.
sys_wolfie(p, n, size, r) ==
    LET i == namei(p, <<"wolfie">>) IN
    /\ r = IF n < size \/ i = None \/ FreeFile = {} \/ FreeFd(p) = {} THEN -1
           ELSE Min({n, Len(inode[i].data)})
    /\ UNCHANGED sysvars

-----------------------------------------------------------------------------
(* Processes.                                                              *)

\* Mutant: the child's descriptors are not counted.
Inherited_none(p, f) == 0

\* The references to file f that a child of process p takes.
Inherited(p, f) == Cardinality({fd \in Fd : proc[p].ofile[fd] = f})

fork(p, r) ==
    LET free == {q \in Proc : proc[q].state = "unused"} IN
    IF free = {} THEN Fails(r)
    ELSE /\ r = Min(free)
         /\ proc' = [proc EXCEPT ![r] = [proc[p] EXCEPT !.parent = p, !.killed = FALSE]]
         /\ file' = [f \in File |-> [file[f] EXCEPT !.ref = @ + Inherited(p, f)]]
         /\ UNCHANGED <<inode, pipe>>

exit(p) ==
    /\ proc' = [q \in Proc |->
          IF q = p THEN [NoProc EXCEPT !.state = "zombie", !.parent = proc[p].parent]
          ELSE [proc[q] EXCEPT !.parent = IF @ = p THEN None ELSE @]]
    /\ file' = [f \in File |-> [file[f] EXCEPT !.ref =
                  @ - Cardinality({fd \in Fd : proc[p].ofile[fd] = f})]]
    /\ UNCHANGED <<inode, pipe>>

wait(p, r) ==
    LET kids == {q \in Proc : proc[q].parent = p /\ proc[q].state # "unused"}
    IN IF kids = {} THEN Fails(r)
       ELSE /\ r \in kids /\ proc[r].state = "zombie"
            /\ proc' = [proc EXCEPT ![r] = NoProc]
            /\ UNCHANGED <<inode, file, pipe>>

kill(p, q, r) ==
    IF proc[q].state = "unused" THEN Fails(r)
    ELSE r = 0 /\ proc' = [proc EXCEPT ![q].killed = TRUE] /\ UNCHANGED <<inode, file, pipe>>
=============================================================================
