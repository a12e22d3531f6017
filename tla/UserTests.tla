----------------------------- MODULE UserTests -----------------------------
(***************************************************************************)
(* usertests.c, the kernel's own tests, on the system calls of SysCalls.   *)
(* A test is the sequence of calls that its process makes, each with the   *)
(* results that it accepts; fork() has the calls of the child.  Processes  *)
(* take turns between any two calls.  The tests' loops go round as often   *)
(* as the constants below say.                                             *)
(***************************************************************************)
EXTENDS SysCalls

CONSTANTS
    ROUNDS,   \* of a loop of calls that are all alike
    KIDS,     \* children of fourfiles() and createdelete()
    N         \* files of each child of createdelete()

VARIABLES
    script,   \* the calls that each process still has to make
    got,      \* what it has read in its loop so far
    failed    \* a test has printed what went wrong

vars == <<sysvars, script, got, failed>>
main == 1

\* The results a test accepts, from the least to the greatest.
Most       == 9
Ok         == <<0, Most>>
Fail       == <<-1, -1>>
Either     == <<-1, Most>>
Exactly(n) == <<n, n>>

Times(n, call(_)) == FlattenSeq([i \in 1 .. n |-> call(i - 1)])

Open(path, mode, want)  == [call |-> "open", path |-> path, mode |-> mode, want |-> want]
Close(fd)               == [call |-> "close", fd |-> fd, want |-> Either]
Write(fd, s)            == [call |-> "write", fd |-> fd, data |-> s, want |-> Exactly(Len(s))]
Read(fd, n, s)          == [call |-> "read", fd |-> fd, n |-> n, data |-> s, want |-> Exactly(Len(s))]
ReadAll(fd, n, all)     == [call |-> "readall", fd |-> fd, n |-> n, all |-> all]
Link(old, new, want)    == [call |-> "link", old |-> old, new |-> new, want |-> want]
Unlink(path, want)      == [call |-> "unlink", path |-> path, want |-> want]
Mkdir(path, want)       == [call |-> "mkdir", path |-> path, want |-> want]
Chdir(path, want)       == [call |-> "chdir", path |-> path, want |-> want]
Listing(fd, names, all) == [call |-> "listing", fd |-> fd, names |-> names, all |-> all]
Pipe                    == [call |-> "pipe", want |-> Exactly(0)]
Fork(child)             == [call |-> "fork", child |-> child, want |-> Ok]
NoFork                  == [call |-> "fork", child |-> <<>>, want |-> Fail]
Wait(want)              == [call |-> "wait", want |-> want]
Kill(q)                 == [call |-> "kill", pid |-> q, want |-> Either]
OneOf(calls)            == [call |-> "one of", of |-> calls]
Spin                    == [call |-> "spin"]
Wolfie(n, size, want)   == [call |-> "wolfie", n |-> n, size |-> size, want |-> want]

rdonly == {}
rdwr   == {"rdwr"}
wronly == {"wronly"}
creat  == {"create"}
creatrw == {"create", "rdwr"}

-----------------------------------------------------------------------------
(* Calls that every process may make while others run.                     *)

argptest == <<Open(<<"init">>, rdonly, Ok), [Read(0, -1, <<>>) EXCEPT !.want = Either], Close(0)>>

createdelete ==
    LET name(pi, i) == <<ToString(<<pi, i>>)>>
        kid(pi) == Times(N, LAMBDA i :
            <<Open(name(pi, i), creatrw, Ok), Close(0)>>
            \o (IF i > 0 /\ i % 2 = 0 THEN <<Unlink(name(pi, i \div 2), Ok)>> ELSE <<>>))
        there(i) == IF i = 0 \/ i >= N \div 2 THEN Ok ELSE Fail
    IN Times(KIDS, LAMBDA pi : <<Fork(kid(pi))>>) \o Times(KIDS, LAMBDA pi : <<Wait(Either)>>)
       \o Times(N, LAMBDA i : Times(KIDS, LAMBDA pi : <<Open(name(pi, i), rdonly, there(i)), Close(0)>>))
       \o Times(N, LAMBDA i : Times(KIDS, LAMBDA pi : <<Unlink(name(i, i), Either)>>))

\* Which of the three calls comes next is the choice of a random number.
linkunlink ==
    LET calls == Times(ROUNDS, LAMBDA i :
            <<OneOf({<<Open(<<"x">>, creatrw, Either), Close(0)>>,
                     <<Link(<<"cat">>, <<"x">>, Either)>>, <<Unlink(<<"x">>, Either)>>})>>)
    IN <<Unlink(<<"x">>, Either), Fork(calls)>> \o calls \o <<Wait(Either)>>

\* Of the forty files, one for each way of making and removing it.
concreate ==
    LET files == <<0, 1, 4, 6>>
        name(k) == <<"C" \o ToString(files[k + 1])>>
        make(k, linked) == IF linked THEN <<Link(<<"C0">>, name(k), Either)>>
                           ELSE <<Open(name(k), creatrw, Ok), Close(0)>>
        drop(k, opened) == Times(ROUNDS, LAMBDA i :
            IF opened THEN <<Open(name(k), rdonly, Either), Close(0)>> ELSE <<Unlink(name(k), Either)>>)
    IN Times(Len(files), LAMBDA k :
            <<Unlink(name(k), Either), Fork(make(k, files[k + 1] % 5 = 1))>>
            \o make(k, files[k + 1] % 3 = 1) \o <<Wait(Either)>>)
       \o <<Open(<<".">>, rdonly, Ok), Listing(0, {"C0", "C1", "C4", "C6"}, {"C0", "C1", "C4", "C6"}), Close(0)>>
       \o Times(Len(files), LAMBDA k :
            <<Fork(drop(k, files[k + 1] % 3 = 0))>> \o drop(k, files[k + 1] % 3 = 1) \o <<Wait(Either)>>)

fourfiles ==
    LET name(pi) == <<"f" \o ToString(pi)>>
        kid(pi) == <<Open(name(pi), creatrw, Ok)>> \o Times(ROUNDS, LAMBDA i : <<Write(0, <<pi>>)>>)
    IN Times(KIDS, LAMBDA pi : <<Unlink(name(pi), Either), Fork(kid(pi))>>)
       \o Times(KIDS, LAMBDA pi : <<Wait(Either)>>)
       \o Times(2, LAMBDA i : <<Open(name(i), rdonly, Ok), ReadAll(0, 2, {[k \in 1 .. ROUNDS |-> i]}),
                                Close(0), Unlink(name(i), Either)>>)

\* Two processes that write with one offset write next to each other.
sharedfd ==
    LET writes(c) == Times(ROUNDS, LAMBDA i : <<Write(0, <<c>>)>>)
        mixed == {s \in [1 .. 2 * ROUNDS -> {"c", "p"}] :
                     Cardinality({k \in DOMAIN s : s[k] = "c"}) = ROUNDS}
    IN <<Unlink(<<"sharedfd">>, Either), Open(<<"sharedfd">>, creatrw, Ok), Fork(writes("c"))>>
       \o writes("p")
       \o <<Wait(Either), Close(0), Open(<<"sharedfd">>, rdonly, Ok), ReadAll(0, 1, mixed),
            Close(0), Unlink(<<"sharedfd">>, Either)>>

\* The arguments are too long for exec(), which returns.
bigargtest ==
    <<Unlink(<<"bigarg-ok">>, Either), Fork(<<Open(<<"bigarg-ok">>, creat, Either), Close(0)>>),
      Wait(Either), Open(<<"bigarg-ok">>, rdonly, Ok), Close(0), Unlink(<<"bigarg-ok">>, Either)>>

\* The parent unlinks the directory while the child tries to open it for writing.
openiputtest ==
    <<Mkdir(<<"oidir">>, Ok), Fork(<<Open(<<"oidir">>, rdwr, Fail)>>),
      Unlink(<<"oidir">>, Exactly(0)), Wait(Either)>>

iputdir == <<Mkdir(<<"iputdir">>, Ok), Chdir(<<"iputdir">>, Ok), Unlink(<<"..", "iputdir">>, Ok)>>
exitiputtest == <<Fork(iputdir), Wait(Either)>>
iputtest == iputdir \o <<Chdir(<<"/">>, Ok)>>

\* A write puts its bytes into the pipe one by one.
pipe1 ==
    LET bytes == 2 * PIPESIZE + 1
    IN <<Pipe, Fork(<<Close(0)>> \o Times(bytes, LAMBDA i : <<Write(1, <<i>>)>>)), Close(1),
         ReadAll(0, 2, {[i \in 1 .. bytes |-> i - 1]}), Close(0), Wait(Either)>>

preempt ==
    <<Fork(<<Spin>>), Fork(<<Spin>>), Pipe, Fork(<<Close(0), Write(1, <<"x">>), Close(1), Spin>>),
      Close(1), Read(0, 2, <<"x">>), Close(0), Kill(2), Kill(3), Kill(4),
      Wait(Either), Wait(Either), Wait(Either)>>

exitwait == Times(ROUNDS, LAMBDA i : <<Fork(<<>>), Wait(Exactly(2))>>)

forktest ==
    LET n == Cardinality(Proc) - 1
    IN Times(n, LAMBDA i : <<Fork(<<>>)>>) \o <<NoFork>>
       \o Times(n, LAMBDA i : <<Wait(Ok)>>) \o <<Wait(Fail)>>

-----------------------------------------------------------------------------
(* Files.                                                                  *)

opentest == <<Open(<<"echo">>, rdonly, Ok), Close(0), Open(<<"doesnotexist">>, rdonly, Fail)>>

writetest ==
    <<Open(<<"small">>, creatrw, Ok)>>
    \o Times(ROUNDS, LAMBDA i : <<Write(0, <<"a">>), Write(0, <<"b">>)>>)
    \o <<Close(0), Open(<<"small">>, rdonly, Ok),
         Read(0, 2 * ROUNDS, [k \in 1 .. 2 * ROUNDS |-> IF k % 2 = 1 THEN "a" ELSE "b"]),
         Close(0), Unlink(<<"small">>, Ok)>>

writetest1 ==
    <<Open(<<"big">>, creatrw, Ok)>> \o Times(MAXFILE, LAMBDA i : <<Write(0, <<i>>)>>)
    \o <<Close(0), Open(<<"big">>, rdonly, Ok), ReadAll(0, 1, {[i \in 1 .. MAXFILE |-> i - 1]}),
         Close(0), Unlink(<<"big">>, Ok)>>

createtest ==
    Times(ROUNDS, LAMBDA i : <<Open(<<ToString(i)>>, creatrw, Either), Close(0)>>)
    \o Times(ROUNDS, LAMBDA i : <<Unlink(<<ToString(i)>>, Either)>>)

bigwrite ==
    <<Unlink(<<"bigwrite">>, Either)>>
    \o Times(MAXFILE \div 2, LAMBDA i :
          LET buf == [k \in 1 .. i + 1 |-> k]
          IN <<Open(<<"bigwrite">>, creatrw, Ok), Write(0, buf), Write(0, buf), Close(0),
               Unlink(<<"bigwrite">>, Either)>>)

bigfile ==
    <<Unlink(<<"bigfile">>, Either), Open(<<"bigfile">>, creatrw, Ok)>>
    \o Times(MAXFILE \div 2, LAMBDA i : <<Write(0, <<i, i>>)>>)
    \o <<Close(0), Open(<<"bigfile">>, rdonly, Ok),
         ReadAll(0, 1, {[k \in 1 .. 2 * (MAXFILE \div 2) |-> (k - 1) \div 2]}),
         Close(0), Unlink(<<"bigfile">>, Either)>>

\* A file without a name is read, and written, while another has its name.
unlinkread ==
    <<Open(<<"unlinkread">>, creatrw, Ok), Write(0, <<"h", "e">>), Close(0),
      Open(<<"unlinkread">>, rdwr, Ok), Unlink(<<"unlinkread">>, Exactly(0)),
      Open(<<"unlinkread">>, creatrw, Ok), Write(1, <<"y">>), Close(1),
      Read(0, MAXFILE, <<"h", "e">>), Write(0, <<"h", "e">>), Close(0), Unlink(<<"unlinkread">>, Either)>>

linktest ==
    <<Unlink(<<"lf1">>, Either), Unlink(<<"lf2">>, Either), Open(<<"lf1">>, creatrw, Ok),
      Write(0, <<"h", "e">>), Close(0), Link(<<"lf1">>, <<"lf2">>, Ok), Unlink(<<"lf1">>, Either),
      Open(<<"lf1">>, rdonly, Fail), Open(<<"lf2">>, rdonly, Ok), Read(0, MAXFILE, <<"h", "e">>), Close(0),
      Link(<<"lf2">>, <<"lf2">>, Fail), Unlink(<<"lf2">>, Either), Link(<<"lf2">>, <<"lf1">>, Fail),
      Link(<<".">>, <<"lf1">>, Fail)>>

\* The picture is read whole: the buffer is as large as it is.
wolfietest == <<Wolfie(2, 2, Ok)>>

-----------------------------------------------------------------------------
(* Directories.                                                            *)

dirtest == <<Mkdir(<<"dir0">>, Ok), Chdir(<<"dir0">>, Ok), Chdir(<<"..">>, Ok), Unlink(<<"dir0">>, Ok)>>

bigdir ==
    LET name(i) == <<"x" \o ToString(i)>> IN
    <<Unlink(<<"bd">>, Either), Open(<<"bd">>, creat, Ok), Close(0)>>
    \o Times(ROUNDS, LAMBDA i : <<Link(<<"bd">>, name(i), Exactly(0))>>)
    \o <<Unlink(<<"bd">>, Either)>> \o Times(ROUNDS, LAMBDA i : <<Unlink(name(i), Exactly(0))>>)

subdir_make ==
    <<Unlink(<<"ff">>, Either), Mkdir(<<"dd">>, Exactly(0)), Open(<<"dd", "ff">>, creatrw, Ok), Write(0, <<"f">>), Close(0),
      Unlink(<<"dd">>, Fail), Mkdir(<<"/", "dd", "dd">>, Exactly(0)),
      Open(<<"dd", "dd", "ff">>, creatrw, Ok), Write(0, <<"F">>), Close(0),
      Open(<<"dd", "dd", "..", "ff">>, rdonly, Ok), Read(0, MAXFILE, <<"f">>), Close(0),
      Link(<<"dd", "dd", "ff">>, <<"dd", "dd", "ffff">>, Exactly(0)), Unlink(<<"dd", "dd", "ff">>, Exactly(0)),
      Open(<<"dd", "dd", "ff">>, rdonly, Fail)>>

subdir_chdir ==
    <<Chdir(<<"dd">>, Exactly(0)), Chdir(<<"dd", "..", "..", "dd">>, Exactly(0)),
      Chdir(<<"dd", "..", "..", "..", "dd">>, Exactly(0)), Chdir(<<".", "..">>, Exactly(0)),
      Open(<<"dd", "dd", "ffff">>, rdonly, Ok), Read(0, MAXFILE, <<"F">>), Close(0),
      Open(<<"dd", "dd", "ff">>, rdonly, Fail)>>

subdir_refused ==
    LET inFile == <<"dd", "ff", "ff">>   nowhere == <<"dd", "xx", "ff">>   xx == <<"dd", "dd", "xx">> IN
    <<Open(inFile, creatrw, Fail), Open(nowhere, creatrw, Fail), Open(<<"dd">>, creat, Fail),
      Open(<<"dd">>, rdwr, Fail), Open(<<"dd">>, wronly, Fail),
      Link(inFile, xx, Fail), Link(nowhere, xx, Fail), Link(<<"dd", "ff">>, <<"dd", "dd", "ffff">>, Fail),
      Mkdir(inFile, Fail), Mkdir(nowhere, Fail), Mkdir(<<"dd", "dd", "ffff">>, Fail),
      Unlink(nowhere, Fail), Unlink(inFile, Fail), Chdir(<<"dd", "ff">>, Fail), Chdir(<<"dd", "xx">>, Fail)>>

subdir_remove ==
    <<Unlink(<<"dd", "dd", "ffff">>, Exactly(0)), Unlink(<<"dd", "ff">>, Exactly(0)), Unlink(<<"dd">>, Fail),
      Unlink(<<"dd", "dd">>, Ok), Unlink(<<"dd">>, Ok)>>

subdir == subdir_make \o subdir_chdir \o subdir_refused \o subdir_remove

\* Only the first fourteen characters of a name count.
fourteen ==
    LET n14 == "12345678901234"   n15 == "123456789012345" IN
    <<Mkdir(<<n14>>, Exactly(0)), Mkdir(<<n14, n15>>, Exactly(0)), Open(<<n15, n15, n15>>, creat, Ok), Close(0),
      Open(<<n14, n14, n14>>, rdonly, Ok), Close(0), Mkdir(<<n14, n14>>, Fail), Mkdir(<<n15, n14>>, Fail)>>

rmdot ==
    <<Mkdir(<<"dots">>, Exactly(0)), Chdir(<<"dots">>, Exactly(0)), Unlink(<<".">>, Fail), Unlink(<<"..">>, Fail),
      Chdir(<<"/">>, Exactly(0)), Unlink(<<"dots", ".">>, Fail), Unlink(<<"dots", "..">>, Fail),
      Unlink(<<"dots">>, Exactly(0))>>

dirfile ==
    LET in == <<"dirfile", "xx">> IN
    <<Open(<<"dirfile">>, creat, Ok), Close(0), Chdir(<<"dirfile">>, Fail), Open(in, rdonly, Fail),
      Open(in, creat, Fail), Mkdir(in, Fail), Unlink(in, Fail), Link(<<"README">>, in, Fail),
      Unlink(<<"dirfile">>, Exactly(0)), Open(<<".">>, rdwr, Fail), Open(<<".">>, rdonly, Ok),
      [Write(0, <<"x">>) EXCEPT !.want = Fail], Close(0)>>

iref ==
    Times(ROUNDS, LAMBDA i :
       <<Mkdir(<<"irefd">>, Exactly(0)), Chdir(<<"irefd">>, Exactly(0)), Mkdir(<<>>, Either), Link(<<"README">>, <<>>, Either),
         Open(<<>>, creat, Fail), Open(<<"xx">>, creat, Either), Close(0), Unlink(<<"xx">>, Either)>>)
    \o <<Chdir(<<"/">>, Either)>>

-----------------------------------------------------------------------------
\* The tests of main(): those with one process in its order, the others alone.
\* The program that draws runs before them.
ran == <<Open(<<"usertests.ran">>, rdonly, Fail), Open(<<"usertests.ran">>, creat, Either), Close(0)>>
Tests ==
    {wolfietest \o ran \o argptest \o bigargtest \o bigwrite \o opentest \o writetest \o writetest1 \o createtest
         \o exitiputtest \o iputtest \o exitwait \o rmdot \o fourteen \o bigfile \o subdir \o linktest
         \o unlinkread \o dirfile \o iref \o bigdir \o dirtest,
     createdelete, linkunlink, concreate, fourfiles, sharedfd, openiputtest, pipe1, preempt, forktest}

Init ==
    /\ SysInit(main, {"README", "cat", "echo", "init", "wolfie"})
    /\ \E t \in Tests : script = [p \in Proc |-> IF p = main THEN t ELSE <<>>]
    /\ got = [p \in Proc |-> <<>>]
    /\ failed = FALSE

Calls(p, c, r) ==
    \/ c.call = "open" /\ sys_open(p, c.path, c.mode, r)
    \/ c.call = "close" /\ sys_close(p, c.fd, r)
    \/ c.call = "write" /\ sys_write(p, c.fd, c.data, r)
    \/ c.call = "read" /\ sys_read(p, c.fd, c.n, r)
    \/ c.call = "link" /\ sys_link(p, c.old, c.new, r)
    \/ c.call = "unlink" /\ sys_unlink(p, c.path, r)
    \/ c.call = "mkdir" /\ sys_make(p, c.path, "dir", r)
    \/ c.call = "chdir" /\ sys_chdir(p, c.path, r)
    \/ c.call = "pipe" /\ sys_pipe(p, r)
    \/ c.call = "wolfie" /\ sys_wolfie(p, c.n, c.size, r)
    \/ c.call = "wait" /\ wait(p, r)
    \/ c.call = "kill" /\ kill(p, c.pid, r)

Runs(p) == p \in Alive /\ ~proc[p].killed /\ script[p] # <<>>
Rest(p) == [script EXCEPT ![p] = Tail(@)]

\* A call whose result the test compares with what it wants.
Call(p) ==
    /\ Runs(p)
    /\ LET c == Head(script[p]) IN \E r \in -1 .. Most :
          /\ Calls(p, c, r)
          /\ failed' = (failed \/ r \notin c.want[1] .. c.want[2]
                        \/ (c.call = "read" /\ r > 0 /\ Bytes(argfd(p, c.fd), c.n) # c.data))
    /\ script' = Rest(p)
    /\ UNCHANGED got

\* A loop that reads until there is no more.
ReadLoop(p) ==
    /\ Runs(p)
    /\ LET c == Head(script[p]) IN \E r \in -1 .. Most :
          /\ c.call = "readall" /\ sys_read(p, c.fd, c.n, r)
          /\ IF r > 0
             THEN /\ got' = [got EXCEPT ![p] = @ \o Bytes(argfd(p, c.fd), c.n)]
                  /\ UNCHANGED <<script, failed>>
             ELSE /\ failed' = (failed \/ got[p] \notin c.all)
                  /\ got' = [got EXCEPT ![p] = <<>>] /\ script' = Rest(p)

\* A loop that reads the names in a directory.
ListLoop(p) ==
    /\ Runs(p)
    /\ LET c == Head(script[p]) IN
          /\ c.call = "listing"
          /\ failed' = (failed \/ DOMAIN inode[file[argfd(p, c.fd)].ip].names \cap c.names # c.all)
    /\ script' = Rest(p)
    /\ UNCHANGED <<sysvars, got>>

ForkCall(p) ==
    /\ Runs(p)
    /\ LET c == Head(script[p]) IN \E r \in -1 .. Most :
          /\ c.call = "fork" /\ fork(p, r)
          /\ script' = IF r = -1 THEN Rest(p) ELSE [Rest(p) EXCEPT ![r] = c.child]
          /\ failed' = (failed \/ r \notin c.want[1] .. c.want[2])
    /\ UNCHANGED got

Choose(p) ==
    /\ Runs(p) /\ Head(script[p]).call = "one of"
    /\ \E calls \in Head(script[p]).of : script' = [script EXCEPT ![p] = calls \o Tail(@)]
    /\ UNCHANGED <<sysvars, got, failed>>

\* A child whose calls are over, or that has been killed.
Exit(p) ==
    /\ p \in Alive \ {main} /\ (script[p] = <<>> \/ proc[p].killed)
    /\ exit(p)
    /\ script' = [script EXCEPT ![p] = <<>>]
    /\ UNCHANGED <<got, failed>>

Finished == script[main] = <<>> /\ UNCHANGED vars

Next ==
    \/ \E p \in Proc : Call(p)
    \/ \E p \in Proc : ReadLoop(p)
    \/ \E p \in Proc : ListLoop(p)
    \/ \E p \in Proc : ForkCall(p)
    \/ \E p \in Proc : Choose(p)
    \/ \E p \in Proc : Exit(p)
    \/ Finished

Spec == Init /\ [][Next]_vars

-----------------------------------------------------------------------------
\* usertests: every check of every test succeeds, whichever way the processes
\* of a test take turns.
TestsPass == ~failed

\* sys_link(), sys_unlink(), fork() and exit(): an inode has as many links as
\* there are names for it and a file as many references as descriptors, so that
\* neither is freed too early or never.
Counted ==
    /\ \A i \in Inum \ {ROOT} : inode[i].type = "file" =>
          inode[i].nlink = Cardinality(UNION {{<<d, n>> : n \in {m \in DOMAIN inode[d].names :
                               inode[d].names[m] = i}} : d \in {e \in Inum : inode[e].nlink > 0}})
    /\ \A f \in File : file[f].ref = Cardinality({<<p, fd>> \in Proc \X Fd : proc[p].ofile[fd] = f})
=============================================================================
