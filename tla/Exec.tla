-------------------------------- MODULE Exec --------------------------------
(***************************************************************************)
(* exec() of Part_B (exec.c) with the parts of vm.c it is made of.  The    *)
(* process runs one file after the other; between the steps other          *)
(* processes take frames, so that any kalloc() may fail.  vm.c's page      *)
(* tables are those of PageTable: the functions are the same in Part_A     *)
(* and Part_B as long as no page is swapped.                               *)
(***************************************************************************)
EXTENDS PageTable, FiniteSets

CONSTANTS
    Files,    \* files: whether they exist and are ELF, and their segments
    Argvs,    \* argument lists: the words that each string takes
    Left,     \* how many frames other processes may leave
    NFRAME, MAXARG,
    WRAP      \* where addresses wrap: 2^32

Frame == 1 .. NFRAME
NoFile == [exists |-> FALSE, elf |-> FALSE, segs |-> <<>>]

VARIABLES
    pd, sz, regs, \* the process: page table, size, registers and name
    new,          \* the page table that exec() builds, with its size and stack
    pc, file, argv, argc, ustack,  \* locals of exec()
    ip,           \* whether exec() holds the inode, inside a transaction
    free, others, \* kmem.freelist, and what other processes have
    mem,          \* contents of the frames, a sequence of words
    returned      \* what the last exec() returned

local == <<file, argv>>
image == <<pd, sz, regs>>
vars  == <<pd, sz, regs, new, pc, file, argv, argc, ustack, ip, free, others, mem, returned>>

\* Words: their kind, and what tells them apart.
Zero   == <<"zero", 0, 0>>
Num(n) == <<"num", n, 0>>
Filled(w) == [i \in 0 .. PGSIZE - 1 |-> w]
\* kfree() fills what is freed.
Freed == [f \in Frame |-> IF f \in free' THEN Filled(<<"junk", 0, 0>>) ELSE mem[f]]
NoNew  == [pd |-> <<>>, sz |-> 0, sp |-> 0]

\* The first process, as userinit() makes it with inituvm().
Init ==
    LET m == inituvm(setupkvm(Frame)) IN
    /\ pd = m.pd /\ sz = PGSIZE /\ free = m.free /\ others = {}
    /\ regs = [file |-> NoFile, sp |-> PGSIZE]
    /\ new = NoNew /\ pc = "user" /\ file = NoFile /\ argv = <<>> /\ argc = 0 /\ ustack = <<>>
    /\ ip = FALSE /\ returned = 0
    /\ mem = [f \in Frame |-> Filled(IF f \in m.free THEN <<"junk", 0, 0>> ELSE Zero)]

\* Other processes give back what they have, or take all frames but n.
Other(n) ==
    /\ pc # "user"
    /\ others' = {f \in free \cup others : Cardinality({g \in free \cup others : g < f}) >= n}
    /\ free' = (free \cup others) \ others'
    /\ UNCHANGED <<image, new, pc, local, argc, ustack, ip, mem, returned>>

Build == [free |-> free, pd |-> new.pd, ok |-> TRUE, panic |-> FALSE]

-----------------------------------------------------------------------------
\* Mutant: what has been built is left behind.
bad_kept ==
    /\ pc' = "user" /\ returned' = -1 /\ ip' = FALSE
    /\ UNCHANGED <<free, mem>>
    /\ new' = NoNew /\ argc' = 0 /\ ustack' = <<>>
    /\ UNCHANGED <<image, others, local>>

\* bad: what has been built is freed, the inode is put and the transaction
\* ends if they are still held.
bad ==
    /\ pc' = "user" /\ returned' = -1 /\ ip' = FALSE
    /\ free' = IF new.pd = <<>> THEN free ELSE freevm(Build).free
    /\ mem' = Freed
    /\ new' = NoNew /\ argc' = 0 /\ ustack' = <<>>
    /\ UNCHANGED <<image, others, local>>

\* begin_op(), namei(), ilock() and the ELF header; without the file, end_op().
start(f, a) ==
    /\ pc = "user"
    /\ file' = f /\ argv' = a
    /\ IF ~f.exists
       THEN pc' = pc /\ returned' = -1 /\ UNCHANGED ip
       ELSE pc' = "header" /\ ip' = TRUE /\ UNCHANGED returned
    /\ UNCHANGED <<image, new, argc, ustack, free, others, mem>>

header ==
    LET k == setupkvm(free) IN
    /\ pc = "header"
    /\ IF ~file.elf \/ ~k.ok
       THEN bad
       ELSE /\ new' = [NoNew EXCEPT !.pd = k.pd] /\ free' = k.free
            /\ pc' = "load" /\ argc' = 1
            /\ UNCHANGED <<image, local, ustack, ip, others, mem, returned>>

\* Contents after loaduvm(): words of the file, in frames that allocuvm() has
\* cleared.
Load(m, s, n) ==
    [f \in Frame |-> [i \in 0 .. PGSIZE - 1 |->
        LET as == {a \in Mapped(m.pd) : m.pd.pte[a].frame = f}
            at == PGSIZE * (CHOOSE a \in as : TRUE) + i
        IN IF as # {} /\ s.vaddr <= at /\ at < s.vaddr + s.filesz
           THEN <<"text", n, at - s.vaddr>>
           ELSE IF as # {} /\ f \in free THEN Zero ELSE mem[f][i]]]

\* Mutant: the end of a segment may wrap.
BadHeader_wrap(s) == s.memsz < s.filesz

\* A program header that exec() does not accept.
BadHeader(s) == s.memsz < s.filesz \/ (s.vaddr + s.memsz) % WRAP < s.vaddr

\* The kernel has read through a null pointer, or panicked.
fault ==
    /\ pc' = "panic"
    /\ UNCHANGED <<image, new, local, argc, ustack, ip, free, others, mem, returned>>

\* One turn of the loop over the program headers, numbered by argc here; a
\* segment that the file does not hold whole cannot be read.
load ==
    /\ pc = "load"
    /\ IF argc > Len(file.segs)
       THEN /\ ip' = FALSE /\ pc' = "stack" /\ argc' = 0
            /\ UNCHANGED <<image, local, new, ustack, free, others, mem, returned>>
       ELSE LET s == file.segs[argc]
                g == allocuvm(Build, new.sz, (s.vaddr + s.memsz) % WRAP)
            IN IF s.load /\ BadHeader(s) THEN bad
               ELSE IF ~s.load
               THEN /\ argc' = argc + 1
                    /\ UNCHANGED <<image, new, pc, local, ustack, ip, free, others, mem, returned>>
               ELSE IF g.sz = 0 THEN bad
               ELSE IF s.vaddr % PGSIZE # 0
               THEN bad      \* freevm() gives back what g.m has more than Build
               ELSE IF \E a \in s.vaddr .. s.vaddr + s.filesz - 1 :
                          a \div PGSIZE \notin Mapped(g.m.pd)
               THEN fault
               ELSE IF ~s.whole
               THEN bad
               ELSE /\ new' = [new EXCEPT !.pd = g.m.pd, !.sz = g.sz] /\ free' = g.m.free
                    /\ mem' = Load(g.m, s, argc)
                    /\ argc' = argc + 1
                    /\ UNCHANGED <<image, pc, local, ustack, ip, others, returned>>

\* Two pages above the segments: one that user code may not use, and the stack.
stack ==
    LET top == PGROUNDUP(new.sz)
        g   == allocuvm(Build, top, top + 2 * PGSIZE)
    IN
    /\ pc = "stack"
    /\ IF g.sz = 0
       THEN bad
       ELSE /\ new' = [pd |-> clearpteu(g.m, (g.sz \div PGSIZE) - 2).pd, sz |-> g.sz, sp |-> g.sz]
            /\ free' = g.m.free
            /\ mem' = Load(g.m, [vaddr |-> 0, filesz |-> 0], 0)
            /\ pc' = "push"
            /\ UNCHANGED <<image, local, argc, ustack, ip, others, returned>>

\* copyout() of words ws to address va, as far as user code may write: the
\* pages up to the first that it may not.  At one without a page table it reads
\* through a null pointer.
FrameAt(a) == uva2ka(new.pd, (a % WRAP) \div PGSIZE)
Stopped(va, n) ==
    {a \in va .. va + n - 1 : \E b \in va .. a : FrameAt(b) \in {NoFrame, Wild}}
Faults(va, n) == Stopped(va, n) # {} /\ FrameAt(Min(Stopped(va, n))) = Wild
copyout(va, ws) ==
    [f \in Frame |-> [i \in 0 .. PGSIZE - 1 |->
        LET hit == {a \in (va .. va + Len(ws) - 1) \ Stopped(va, Len(ws)) :
                      FrameAt(a) = f /\ a % PGSIZE = i}
        IN IF hit = {} THEN mem[f][i] ELSE ws[1 + Min(hit) - va]]]

\* Pushes one string, then the array that points to them and main()'s frame.
push ==
    /\ pc = "push"
    /\ IF argc < Len(argv)
       THEN LET n  == argv[argc + 1]
                sp == (new.sp - n) % WRAP
            IN
            IF argc < MAXARG /\ Faults(sp, n) THEN fault
            ELSE IF argc >= MAXARG \/ Stopped(sp, n) # {} THEN bad
            ELSE /\ mem' = copyout(sp, [i \in 1 .. n |-> <<"arg", argc, i>>])
                 /\ new' = [new EXCEPT !.sp = sp]
                 /\ ustack' = Append(ustack, sp) /\ argc' = argc + 1
                 /\ UNCHANGED <<image, pc, local, ip, free, others, returned>>
       ELSE LET words == <<Num(WRAP - 1), Num(argc), Num((new.sp - (argc + 1)) % WRAP)>>
                         \o [i \in 1 .. argc |-> Num(ustack[i])] \o <<Num(0)>>
                at == (new.sp - Len(words)) % WRAP
            IN IF Faults(at, Len(words)) THEN fault
               ELSE IF Stopped(at, Len(words)) # {} THEN bad
               ELSE /\ mem' = copyout(at, words)
                    /\ new' = [new EXCEPT !.sp = at] /\ pc' = "commit"
                    /\ UNCHANGED <<image, local, argc, ustack, ip, free, others, returned>>

\* The new image takes the place of the old one, which is freed.
commit ==
    /\ pc = "commit"
    /\ pd' = new.pd /\ sz' = new.sz /\ regs' = [file |-> file, sp |-> new.sp]
    /\ free' = freevm([Build EXCEPT !.pd = pd]).free /\ mem' = Freed
    /\ new' = NoNew /\ argc' = 0 /\ ustack' = <<>> /\ pc' = "user" /\ returned' = 0
    /\ UNCHANGED <<local, ip, others>>

Next ==
    \/ \E f \in Files, a \in Argvs : start(f, a)
    \/ header \/ load \/ stack \/ push \/ commit
    \/ \E n \in Left : Other(n)

Spec == Init /\ [][Next]_vars

-----------------------------------------------------------------------------
TypeOK ==
    /\ pc \in {"user", "header", "load", "stack", "push", "commit"}
    /\ ip <=> pc \in {"header", "load"}
    /\ returned \in {0, -1}

\* However exec() ends, and whichever kalloc() failed, every frame is free or
\* has one owner, the page table in the making among them: nothing is lost,
\* nothing of the running image is given away, and the inode and the
\* transaction are held just as long as the file is read.
FramesAccounted ==
    LET mine == FramesOf(pd) \ {NoFrame}
        made == IF new.pd = <<>> THEN {} ELSE FramesOf(new.pd) \ {NoFrame}
        uses == <<mine, made, free, others>>
    IN
    /\ TypeOK
    /\ UNION {uses[i] : i \in 1 .. 4} = Frame
    /\ \A i, j \in 1 .. 4 : i # j => uses[i] \cap uses[j] = {}
    /\ pd.root # NoFrame

Word(a) == mem[pd.pte[a \div PGSIZE].frame][a % PGSIZE]

\* The word that the file wants at address a: the last segment that has text
\* there, zero elsewhere.
Wanted(a) ==
    LET in == {n \in 1 .. Len(regs.file.segs) :
                 LET s == regs.file.segs[n] IN
                 s.load /\ s.vaddr <= a /\ a < s.vaddr + s.filesz}
    IN IF in = {} THEN Zero ELSE <<"text", Max(in), a - regs.file.segs[Max(in)].vaddr>>

\* What runs after exec() is what the file says, zeroes where it says nothing,
\* an unusable page and the stack, on which main() finds argc and every string
\* of argv whole; and no file makes exec() panic.
ImageWhole ==
    /\ pc # "panic"
    /\ pc = "user" /\ regs.file # NoFile =>
       LET guard == sz - 2 * PGSIZE
           base  == Word(regs.sp + 2)[2]
       IN
       /\ \A a \in 0 .. sz - 1 :
             pd.pte[a \div PGSIZE] # NoPage /\ (pd.pte[a \div PGSIZE].user <=> a \notin guard .. guard + PGSIZE - 1)
       /\ \A a \in 0 .. guard - 1 : Word(a) = Wanted(a)
       /\ returned = 0 =>
             /\ Word(regs.sp + 1) = Num(Len(argv)) /\ base = regs.sp + 3
             /\ \A i \in 1 .. Len(argv), k \in 1 .. 4 :
                   k <= argv[i] => Word(Word(base + i - 1)[2] + k - 1) = <<"arg", i - 1, k>>
             /\ Word(base + Len(argv)) = Num(0)
=============================================================================
