------------------------------ MODULE MCParts ------------------------------
(***************************************************************************)
(* One run for seven modules that need no more than small constants: the   *)
(* tests of usertests.c, lazy allocation, exec(), malloc(), spin locks,    *)
(* the buffer cache and the console.  A behaviour is one of them, named by *)
(* which.  They share the variables, each by its own names for the first   *)
(* of them, and leave the others alone.  The spin locks have variables of  *)
(* their own; the processes that take them are also those that use the     *)
(* buffer cache and that read the console.                                 *)
(***************************************************************************)
EXTENDS Spinlock, Sequences, TLC

VARIABLES which, s1, s2, s3, s4, s5, s6, s7, s8, s9, s10, s11, s12, s13, s14

shared == <<s1, s2, s3, s4, s5, s6, s7, s8, s9, s10, s11, s12, s13, s14>>

\* Loops that go round three times, and room for every file but not for every
\* process that forktest() makes.
Tests == INSTANCE UserTests WITH
    Proc <- 1 .. 4, NINODES <- 18, NFILE <- 8, NOFILE <- 3, MAXFILE <- 6, PIPESIZE <- 2,
    Cut <- ("123456789012345" :> "12345678901234"), ROUNDS <- 3, KIDS <- 2, N <- 4,
    inode <- s1, file <- s2, pipe <- s3, proc <- s4, script <- s5, got <- s6,
    failed <- s7

\* Memory for one process and most of a second one.
Lazy == INSTANCE LazyAlloc WITH
    Proc <- {1, 2}, First <- 1, NDIR <- 1, NPTE <- 4, PGSIZE <- 1, NFRAME <- 10,
    MaxForks <- 1, Val <- {1},
    pd <- s1, size <- s2, free <- s3, mem <- s4, wrote <- s5, wiped <- s6,
    panicked <- s7, forks <- s8

\* The least block that morecore() asks for holds two small requests and is less
\* than a large one.
Heap == INSTANCE Umalloc WITH
    Asked <- {1, 3, 7}, UNIT <- 2, WRAP <- 64, MORE <- 6, TOP <- 16, Gap <- {1},
    ptr <- s1, size <- s2, freep <- s3, brk <- s4, held <- s5, own <- s6

\* Two buffers for three blocks.
Cache == INSTANCE BufferCache WITH
    Proc <- Process, Block <- {"k1", "k2", "k3"}, Buf <- {"x1", "x2"},
    Kinds <- {"read", "write", "page", "log"}, LogRoom <- 1,
    disk <- s1, buf <- s2, mru <- s3, pc <- s4, op <- s5, blk <- s6, at <- s7,
    committing <- s8, latest <- s9

ASSUME CacheConstants == Cache!CacheAssumption

\* A ring of three bytes with indices that wrap every other time round, and a
\* screen with one line to show.
Term == INSTANCE Console WITH
    Reader <- Process, INPUT_BUF <- 3, WIDTH <- 6, MaxRead <- 2, COLS <- 2, ROWS <- 2,
    buf <- s1, r <- s2, w <- s3, e <- s4, pos <- s5, pc <- s6, want <- s7,
    given <- s8, killed <- s9, lock <- s10

-----------------------------------------------------------------------------
(* Program files and arguments for exec().                                 *)

NoFile       == [exists |-> FALSE, elf |-> FALSE, segs |-> <<>>]
Seg(v, f, m) == [load |-> TRUE, vaddr |-> v, filesz |-> f, memsz |-> m, whole |-> TRUE]
Elf(ss)      == [exists |-> TRUE, elf |-> TRUE, segs |-> ss]

\* Programs as ld makes them: one segment, or text and data with bss, with a
\* header of another kind between them, and overlapping.
Programs == { Elf(<<Seg(0, 3, 3)>>),
              Elf(<<Seg(0, 8, 8), [Seg(9, 9, 1) EXCEPT !.load = FALSE], Seg(8, 1, 11)>>),
              Elf(<<Seg(0, 12, 14), Seg(8, 2, 2)>>) }

\* Not there, not ELF, more text than memory, an end that wraps, an end in the
\* kernel's half, not aligned, cut short after a good segment, and nothing to
\* load.
Broken == { NoFile, [NoFile EXCEPT !.exists = TRUE],
            Elf(<<Seg(0, 4, 2)>>), Elf(<<Seg(80, 4, 20)>>), Elf(<<Seg(40, 4, 12)>>),
            Elf(<<Seg(2, 2, 2)>>),
            Elf(<<Seg(0, 8, 8), [Seg(8, 4, 4) EXCEPT !.whole = FALSE]>>),
            Elf(<<Seg(0, 0, 0)>>) }

Image == INSTANCE Exec WITH
    NDIR <- 3, NPTE <- 2, PGSIZE <- 8, WRAP <- 96, NFRAME <- 17, Left <- {0, 3, 17}, MAXARG <- 2,
    Files <- Programs \cup Broken, Argvs <- {<<>>, <<1, 2>>, <<1, 1, 1>>, <<2, 5>>, <<60>>},
    pd <- s1, sz <- s2, regs <- s3, new <- s4, pc <- s5, file <- s6, argv <- s7,
    argc <- s8, ustack <- s9, ip <- s10, free <- s11, others <- s12, mem <- s13,
    returned <- s14

-----------------------------------------------------------------------------
PartsInit ==
    /\ SpinInit
    /\ \/ which = "tests" /\ Tests!Init
           /\ s8 = 0 /\ s9 = 0 /\ s10 = 0 /\ s11 = 0 /\ s12 = 0 /\ s13 = 0 /\ s14 = 0
       \/ which = "lazy" /\ Lazy!Init
           /\ s9 = 0 /\ s10 = 0 /\ s11 = 0 /\ s12 = 0 /\ s13 = 0 /\ s14 = 0
       \/ which = "exec" /\ Image!Init
       \/ which = "malloc" /\ Heap!Init
           /\ s7 = 0 /\ s8 = 0 /\ s9 = 0 /\ s10 = 0 /\ s11 = 0 /\ s12 = 0 /\ s13 = 0 /\ s14 = 0
       \/ which = "spin" /\ s1 = 0 /\ s2 = 0 /\ s3 = 0 /\ s4 = 0 /\ s5 = 0 /\ s6 = 0
           /\ s7 = 0 /\ s8 = 0 /\ s9 = 0 /\ s10 = 0 /\ s11 = 0 /\ s12 = 0 /\ s13 = 0 /\ s14 = 0
       \/ which = "cache" /\ Cache!Init
           /\ s10 = 0 /\ s11 = 0 /\ s12 = 0 /\ s13 = 0 /\ s14 = 0
       \/ which = "console" /\ Term!Init
           /\ s11 = 0 /\ s12 = 0 /\ s13 = 0 /\ s14 = 0

PartsNext ==
    /\ which' = which
    /\ \/ which = "spin" /\ SpinNext /\ UNCHANGED shared
       \/ /\ UNCHANGED spinvars
          /\ \/ which = "tests" /\ Tests!Next /\ UNCHANGED <<s8, s9, s10, s11, s12, s13, s14>>
             \/ which = "lazy" /\ Lazy!Next /\ UNCHANGED <<s9, s10, s11, s12, s13, s14>>
             \/ which = "exec" /\ Image!Next
             \/ which = "malloc" /\ Heap!Next /\ UNCHANGED <<s7, s8, s9, s10, s11, s12, s13, s14>>
             \/ which = "cache" /\ Cache!Next /\ UNCHANGED <<s10, s11, s12, s13, s14>>
             \/ which = "console" /\ Term!Next /\ UNCHANGED <<s11, s12, s13, s14>>

PartsSpec == PartsInit /\ [][PartsNext]_<<which, spinvars, shared>>

\* Processes are interchangeable.
Symmetry == Permutations(Process)

-----------------------------------------------------------------------------
\* usertests: every check of every test succeeds, whichever way the processes
\* of a test take turns.
TestsPass == which = "tests" => Tests!TestsPass

\* sys_link(), sys_unlink(), fork() and exit(): an inode has as many links as
\* names and a file as many references as descriptors.
Counted == which = "tests" => Tests!Counted

\* sbrk() and the page faults of Part_A, fork() and exit(): no frame belongs to
\* two processes, and a page holds what its process last wrote there.
PagesArePrivate == which = "lazy" => Lazy!PagesArePrivate

\* exec() that fails, at whatever point, gives back what it has built and keeps
\* the process's image; nothing is lost and nothing has two owners.
FramesAccounted == which = "exec" => Image!FramesAccounted

\* exec() that succeeds leaves the whole image: segments, zeroes after them, and
\* a stack that user code can follow from the stack pointer.
ImageWhole == which = "exec" => Image!ImageWhole

\* malloc() and free(): the heap stays in one piece, with each unit in one block
\* and free neighbours joined.
HeapWhole == which = "malloc" => Heap!HeapWhole

\* bget(), brelse(), acquiresleep(): a block has one buffer, which holds what was
\* last written to it or is not used before it does.
CacheCoherent == which = "cache" => Cache!CacheCoherent

\* consoleintr(), consoleread(): no reader sleeps while there is something to
\* read, whichever reader the bytes before it went to, and the cursor stays on
\* the screen, wherever the boot loader has left it.
ReadersMustWait == which = "console" => Term!SleepersMustWait

\* consoleintr(), consoleread(): bytes are read once, in order and a line at a
\* time, and editing never reaches a line that has been ended, with indices that
\* wrap and with readers that take turns in the middle of a line.
ImplementsLineEditor ==
    /\ which = "console" => Term!Editor!Init
    /\ [][which = "console" => Term!Editor!Next \/ UNCHANGED Term!Editor!vars]_shared
=============================================================================
