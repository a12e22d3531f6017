# A formal model of the CS344 xv6 kernels

This directory holds TLA+ models of the operating-system kernels of the CS344
laboratory: xv6 as the repository modifies it. The whole kernel is under
`src/Assignment 3/G17/Part_B` (called *Part B* below), with demand paging and
swapping added to xv6; `src/Assignment 2/g17` and `g17hybrid` hold the files in
which a shortest-job-first and a hybrid scheduler replace the round robin;
`src/Assignment 3/G17/Part_A` holds lazy allocation. Assignment 1 adds one
system call; Assignment 4 has no program.

Line numbers refer to the files of this commit. `PROJECT.json` maps every
definition that models code to its lines.

## 1. Inventory

| Component | State it keeps | Operations | What makes it hard | What makes it correct |
|---|---|---|---|---|
| Process table, scheduler (`proc.c`, `trap.c`) | `ptable` (state, pid, parent, killed, chan, kstack), `cpu->proc`, `ptable.lock`, `ticks` | `fork`, `exit`, `wait`, `kill`, `sleep`, `wakeup`, `scheduler`, `sched`, `yield`, timer | threads of several CPUs hand a lock over across `swtch()`; kills and exits against sleeps; slots reused after failures | no freed stack in use, no process on two CPUs, no missed wakeup, no orphan, every runnable process runs |
| Spin locks (`spinlock.c`) | `locked`, `cpu`, `ncli`, `intena`, the interrupt flag | `acquire`, `release`, `pushcli`, `popcli`, `sched` | interrupts, threads that switch with a lock held | one holder, no panic, no handler waiting for its own CPU, interrupts as before |
| Log (`log.c`) | `log.lh`, `outstanding`, `committing`, log blocks and header on disk | `begin_op`, `log_write`, `end_op`, `commit`, recovery | crashes between any two disk writes; group commit; absorption; space reserved by calls but used by blocks | the disk falls back to whole transactions |
| Buffer cache, sleep locks (`bio.c`, `sleeplock.c`, `memide.c`) | buffers, list in order of use, reference counts, `B_VALID`/`B_DIRTY` | `bget`, `bread`, `bwrite`, `brelse`, `write_page_to_disk`, `acquiresleep` | recycling against use and against the log's pins; NBUF equals LOGSIZE | one buffer per block, none recycled in use, what is read is what was last written |
| Block allocator (`fs.c`) | the bitmap, `numallocblocks` | `balloc`, `bfree`, `balloc_page`, `bfree_page` | opens transactions inside transactions, writes past the log | a block has one owner, none is lost |
| Inodes and directories (`fs.c`) | inode cache, inodes on disk, directory entries | `iget`, `ilock`, `iput`, `itrunc`, `bmap`, `dirlink`, `namex` | the last reference against a new one; names that come and go between two locks | an inode is freed once, when nothing names or uses it; counts equal names |
| Files and system calls (`file.c`, `sysfile.c`) | `ftable`, `ofile[]`, `cwd` | `open`, `close`, `dup`, `read`, `write`, `link`, `unlink`, `mkdir`, `mknod`, `chdir`, `pipe` | every call can fail half way, with locks, references and a transaction held | every call gives back what it took; every call returns what its callers rely on |
| Demand paging (`paging.c`, `vm.c`, `bio.c`, `sysfile.c`) | page tables, free frames, swapped pages on disk, the TLB | page fault, `swap_page`, `copyuvm`, `freevm`, `growproc`, `sys_swap` | memory runs out between two calls; other processes run while a fault sleeps on the disk | a frame or disk page has one owner, memory keeps what was written |
| Lazy allocation (Part A: `trap.c`, `vm.c`, `sysproc.c`) | page tables, sizes | `sbrk`, page fault, `fork`, `exit` | nothing compares a fault with the size or looks at failures | pages are private and keep what was written |
| `exec` (`exec.c`, `vm.c`, `elf.h`) | the image of a process, the one being built | `exec` and what it calls | fails at any allocation, with a page table half built | the old image survives a failure, the new one is whole, nothing is lost |
| Pipes (`pipe.c`, `file.c`) | ring buffer, `nread`, `nwrite`, open flags, references | `piperead`, `pipewrite`, `pipeclose`, `fileclose`, `filedup` | readers, writers, closers and kills interleave; counters wrap | a byte stream: no byte lost, doubled or out of order; freed once |
| Console (`console.c`) | input ring `r`, `w`, `e`; the cursor | `consoleintr`, `consoleread`, `cgaputc` | interrupt against readers, indices that wrap, readers that take turns inside a line | lines arrive whole, once and in order; the cursor stays on the screen |
| SJF and hybrid schedulers (Assignment 2) | burst time, `cpucounter` per slot | `scheduler`, `set_burst_time`, `dec_burstTime`, `inc_cpucounter`, timer | slots reused, quanta cut short, extreme burst times | the shortest job runs; a full quantum and no more |
| User-level allocator (`umalloc.c`) | the circular free list | `malloc`, `free`, `morecore` | freeing in any order, programs that call `sbrk()` themselves | the heap stays in one piece |
| `usertests.c`, `sys_wolfie` (Assignment 1) | - | the calls each test makes and the results it accepts | processes of one test take turns | every check succeeds |

How they interact: every blocking operation goes through `sleep()` and
`wakeup()` of the process table, with the caller's own spin lock. System calls on
files run inside a transaction of the log, lock one inode after another, and
reach blocks through the buffer cache, which the log pins (`B_DIRTY`) until they
are installed. A page fault runs `swap_page()`, which allocates disk blocks
(`balloc()`, hence the log), writes them through the buffer cache and takes a slot
of the file table; a fault can happen wherever the kernel touches user memory,
also while `piperead()` or `pipewrite()` hold a spin lock. Pipes and inodes are
reached through `struct file`, whose references `fork()`, `close()` and `exit()`
change. `exec()` reads an inode under a transaction and builds a page table with
the functions that `fork()` and `growproc()` use too.

### Not modelled, and why

* Device drivers, boot and assembly (`lapic.c`, `mp.c`, `uart.c`, `kbd.c`,
  `bootmain.c`, `*.S`, ...): registers and instruction sequences.
* `create_kernel_process()`, the request queues, `swapin()` and `swapout()`: never
  called, `main.c:40-41` is commented out.
* `sh.c`, `printf.c`, `ulib.c` and the small programs: they parse and print; `mkfs.c`
  only in the disk it leaves (its root directory and the size of the log).
* The search of `balloc_page()` for eight free blocks in a row and the counter behind
  `sys_bstat()`. `Paging` takes eight blocks as one disk page. The counter is
  changed without a lock and only reported.
* `fstat()`, `getProcInfo()`, `procdump()` and the like, which only read or print; the
  fetching of arguments from user memory (`argint`, `argptr`, `fetchstr`).
* Of `usertests.c`: `mem`, `sbrktest`, `validatetest`, `bsstest` and `exectest` (the
  memory of the test program itself; `Paging`, `LazyAlloc` and `Exec` have these
  calls), `uio` (an instruction that faults) and `fsfull` (not called).
* `kalloc.c`, `ide.c`, `ioapic.c` and `init.c` are not in the repository; the frame
  allocator is modelled from its uses.

## 2. Modules

| Module | Models | Its state and the code's |
|---|---|---|
| `ProcTable` | `proc.c`, `trap.c`, `sys_sleep` of Part B | one record of variables per slot and per CPU; who holds `ptable.lock`; `pc` of each process; the lock is an explicit variable because it is acquired by one thread and released by another |
| `Spinlock` | `spinlock.c` with `sched()` and interrupts | `on`: the thread of each CPU; `FL_IF`, `ncli`, `intena` of each CPU; `locked` and `cpu` of each lock; one step per access to shared memory |
| `Log` | `log.c`, and `balloc()`, `bfree()` as the log sees them | `lh`, `outstanding`, `committing`; `home`, `logblk`, `header` are the disk; `cache`, `dirty`, `hold` the buffers |
| `AtomicDisk` | what the log promises | memory, the durable contents, the calls in progress |
| `BufferCache` | `bio.c`, `sleeplock.c`, `memide.c` | `bcache.buf`, the list `mru`, the disk; of each process the buffer it points to |
| `FileSystem` | `fs.c`, `file.c`, `sysfile.c` in the steps that interleave | `d`: inodes, entries and bitmap; the inode cache, `ftable`, `ofile`, `cwd`; `k`: the operations each call still has to do |
| `SysCalls` | the same calls as programs see them, each at one moment; pipes, `fork`, `exit`, `wait`, `kill`; `sys_wolfie` | inodes, open files, pipes, processes |
| `UserTests` | `usertests.c`, `wolfietest.c` over `SysCalls` | `script`: the calls each process still has to make, with the results it accepts |
| `Paging` | `paging.c`, `vm.c`, the swap part of `bio.c` and `sysfile.c` | page tables as entries with frame or disk page and flags, the set of free frames and disk pages, the TLB, the contents of memory |
| `PageTable` | `vm.c` without swapping | operators on a page directory, its tables and pages, each with its frame |
| `LazyAlloc` | Part A, over `PageTable` | page table and size of each process, free frames, contents |
| `Exec` | `exec.c`, over `PageTable` | the process's image, the image being built, the locals of `exec()` |
| `Pipe` | `pipe.c` and the references of `file.c` | the ring, the counters modulo `WIDTH`, the pipe's lock, `pc` of each process |
| `ByteStream` | what a pipe promises | a bounded queue and which ends are open |
| `Console` | `console.c` | the ring, `r`, `w`, `e` modulo `WIDTH`, `cons.lock`, `pc` of each reader, the cursor |
| `LineEditor` | what the console's input promises | ended lines, the line being edited, what each reader has got |
| `Umalloc` | `umalloc.c` | headers of free and held blocks, `freep`, the end of the heap |
| `Sjf` | Assignment 2, both schedulers (`HYBRID`) | slots, burst times, `cpucounter`, `cpu->proc` |
| `MCMemory`, `MCParts` | - | sums of systems that do not interact: the variable `which` names the one a behaviour is about, and every property is about one of them; the systems share the variables of the module (the spin locks have their own) |
| other `MC...` | - | definitions the configurations need |
| `FileSystemSteps`, `FileSystemProofs` | - | the proofs about `FileSystem`: the invariant and the steps on inodes and directories; the other steps, the calls and the theorems |
| `LockProofs` | - | the proofs about `Spinlock` and `BufferCache` |
| `ProcTableProofs`, `LogProofs`, `PipeProofs`, `PagingProofs`, `SjfProofs` | - | the proofs about the module of the name (section 5) |

Grain. A section the code runs under one spin lock is one action, unless the
lock is handed over inside it (`sched()`), the section sleeps, or a property
looks inside. Whatever the code does between two sections is between two
actions, so that other processes, interrupts and crashes come in between.
Every disk write of a commit is an action. In `FileSystem` a step goes from one
place where a call may sleep for an inode's lock to the next. Helper operators
have the name of the function or of the condition they stand for; actions have
the function's name.

Composition and abstraction. `FileSystem` takes the log as `AtomicDisk` gives it: what is
done while transactions are outstanding becomes durable as a whole, so that its
crash states are its states without a transaction. `Log` and `BufferCache` see each other
as pins and as evictions. `ProcTable` takes spin locks as `Spinlock` gives them, and the
modules above take `sleep()` and `wakeup()` as `ProcTable` gives them. `SysCalls`
is `FileSystem` with each call at one moment; no refinement between them is
claimed, because paths are resolved name by name in the one and at once in the other.

Definitions whose comment begins with *Mutant* are deliberate errors: each
replaces the definition that follows it, and the run that checks a property has
to fail with it. They show that the property depends on the line in question.

## 3. Runs

All with two workers; the longest takes about two minutes.

| Run | Instance | What it shows |
|---|---|---|
| `proc_smp` | 3 slots, 2 CPUs, fork, exit, wait, kill, faults | stacks, CPUs, missed wakeups, orphans |
| `proc_sleep` | 2 slots, 2 CPUs, ticks modulo 3, kills of init | no tick is missed by a sleeper, no sleep ends early, also when the counter wraps; the only panic is init's exit |
| `proc_live` | 2 slots, 1 CPU, fairness | every runnable process runs, a killed process exits |
| `log_crash` | 2 processes, 2 blocks, log of 4, crashes, fairness | `ImplementsAtomicDisk`; buffers pinned; a commit is quiet; sleepers in `begin_op()` get in, as long as nobody calls `balloc()` |
| `log_alloc` | 2 processes, 3 blocks, log of 4, `balloc`, `bfree` | the reservation of `begin_op()` is enough for the header in memory, so that `log_write()` panics only over a block it would absorb or because the log on disk is the shorter one; buffers stay pinned |
| `fs` | 2 processes, 3 inodes, 3 blocks, 1 open file, 2 descriptors, five sets of programs | whole transactions leave names and link counts that agree; nothing reachable is freed; blocks have one owner; calls give back what they take |
| `memory` | swap: 2 processes, 10 frames, 3 disk pages; fork: 10 frames, 2 disk pages; leak: 7 frames, 2 disk pages, TLB | one owner per frame and disk page; memory kept; a fault maps the page; frames may be lost, never given twice |
| `page_null` | 2 processes, 11 frames | violated: see section 6 |
| `pipe_stream` | 2 processes, 2 byte values, size 2, counters modulo 4, kills and faults | `ImplementsByteStream`; freed once; end of data only without writers |
| `pipe_live` | 3 processes, size 1, fairness | no sleeper has something to do; blocked calls return |
| `sjf_hybrid` | 3 slots, 4 pids, quantum 2 | shortest first; preemption at exactly the quantum's last tick |
| `parts` | usertests: 4 processes, loops of 3; lazy: 2 processes, 10 frames; exec: 17 frames, 11 files, 5 argument lists; malloc: 15 units, 3 sizes; spin locks: 2 CPUs, 2 processes, 2 locks; cache: 2 processes that read, write, write pages and commit, 2 buffers, 3 blocks; console: 2 readers, a ring of 3, indices modulo 6, a screen of 2 by 2 | every check of the tests succeeds; pages are private; nothing is lost by `exec()` and its image is whole; the heap is whole; locks hold; one buffer per block, which holds what was last written; `ImplementsLineEditor`, and no reader sleeps beside input |

Why the bounds are enough. Three slots are an init, a parent and a child, with
which every orphan and every race of `wait()` has its parts; two CPUs are what a
stack freed under its user needs. Two processes and two blocks give
transactions of one and of two blocks, alone and committed together, and a
second process that has to wait; a log of `2 * MAXOPBLOCKS` makes it wait for
room as well as for commits, and the third block of `log_alloc` fills that log. Two
buffers for three blocks make every miss recycle and every second holder wait.
In `fs` two processes are what each race between two calls needs; three inodes are
the root, an object and another one that reuses its number or its name; a file of two blocks
is freed against one that grows; `Files`, `Share`, `Links`, `Dirs` and `Clash` of
`MCFileSystem` say which calls meet, and one entry of `ftable` makes every second open
fail half way. Paging needs one process that takes what the other frees, frames
that just do not suffice and a few disk pages; frames are told apart, disk pages
are symmetric. A pipe of two bytes with counters modulo four wraps both indices; two
processes with both ends open give every order of the two last closes. The
console's indices wrap every other time round its ring. With four pids and three slots a low
slot is reused while a higher one holds a smaller pid, which is when the order of
slots and the order of pids differ. `exec()` meets every way a file can be
refused, and memory for the whole image, for none and for every part of it.
Umalloc's least request holds two small blocks and is less than a large one, so
that blocks are split, joined on either side and asked from `sbrk()` again.

Counters that the code lets grow are bounded by constants named in the modules:
`MaxPid` (forks, `ProcTable` and `Sjf`), `TickMod` and `WIDTH` (where the code's `uint`
wraps, so do they), `MaxPages` (sbrk), `MaxCall` and `MaxRead` (bytes per call),
`MaxRan` (ticks counted), `MaxForks` (`LazyAlloc`), `TOP` (the heap), `ROUNDS`, `KIDS`
and `N` (loops of the tests).

Deadlock is checked in `proc_smp`, `proc_sleep`, `proc_live`, `log_crash` and `page_null`. Not in
the others, because their systems may stop: `balloc()` can deadlock (`log_alloc`) and
a page write can (`parts`), calls can lock inodes in opposite orders (`fs`), memory
and descriptors run out or the kernel panics (`memory`, `parts`), a process that fills a
pipe only it reads sleeps for ever (`pipe_stream`, `pipe_live`), the tests come to an end
(`parts`), and the scheduler reaches the fault of section 6 (`sjf_hybrid`).

## 4. Fairness

`ProcTable`: a CPU in its scheduler or in a section under `ptable.lock` goes on
(weak fairness: no instruction waits for anybody), a CPU that wants the lock
gets it if it is free again and again (the spin loop of `acquire()` has no queue, so
this is an assumption on the hardware), the timer interrupts again and again.
User code is not obliged to do anything. `Log`: a process inside a call goes on
and calls `end_op()` (every call does, on every path), and a process that is
woken again and again and finds room again and again gets in; new calls,
evictions and crashes are never forced. `Pipe`: a process in the kernel goes on
and gets the pipe's lock if it is free again and again; nobody has to read or
write. The other modules state no fairness: what they promise is safety.
`SleepersMustWait` of `Pipe` and `Console` is the safety half of progress there: nobody
sleeps beside what he waits for.

## 5. What is proved

Every theorem is about the specification of its module, for all values of the
constants that the module's named assumption allows: any number of processes,
CPUs, slots, blocks, buffers, inodes, open files, frames or locks, and any bound. The assumptions
(`ConstantsAssumption`, `LogAssumption`, ...) say little more than which constants
are numbers and which sets are disjoint. Those that do: `LogAssumption` has
`MAXOPBLOCKS >= 2` (`balloc()` logs two blocks; `param.h` has 10), `PipeAssumption`
has that `PIPESIZE` divides the width of the counters and is less (512 and 2^32),
`FileSystemAssumption` that there is a root inode, that a file can have a block and
that programs call with paths of names, `PagingAssumption` that memory is enough for
the processes that are there at the start. TLC evaluates them in every run; `CacheAssumption` is a hypothesis of
`LockProofs`, which `MCParts` assumes of its instance.

No property is inductive as it stands. The inductive invariants are defined in
the modules (`PagingInv` and `FsInv` in their proofs) and were checked by TLC
before they were proved; each proof that a step keeps one has a lemma for each action.

| Module | Inductive invariant | What follows |
|---|---|---|
| `ProcTableProofs` | `SafeInv`: who holds `ptable.lock` between the two threads of a switch, in which state a process on a CPU can be, that a CPU executes on a stack that is allocated, what a `fork()` in progress owns. `FamilyInv` on top: who is whose child in the middle of `fork()`, `exit()` and `wait()`. `SleepInv`: who holds `tickslock` when, what a sleeper's `ticks0` has to do with `ticks`, which sleepers a wakeup that is due still reaches | `StackInUse`, `OneCpuEach`, `OnlyInitPanics`; `ParentAlive`, `WaitNeverMisses`; `TickNeverMissed`, `SleepNotEarly` |
| `LogProofs` | `LogInv`: what each open call has reserved and logged, which blocks the header names, which buffers are pinned, what is on disk at each step of a commit and of a recovery. `CopyInv`: the log's blocks are what the cache holds | `PinnedUntilInstalled`, `LogKeeps`; where the log on disk has room for a full header also `LogOnDisk`; without `bfree()` also `CommitIsQuiet` and `ImplementsAtomicDisk` |
| `PipeProofs` | `PipeInv`: the ring between the wrapped counters, the references behind `readopen` and `writeopen`. `Slept`: who holds the lock, and what there is to do for those asleep | `FreedOnce`, `EofMeansNoWriter`, `ImplementsByteStream`; `SleepersMustWait` while nobody has been killed |
| `LockProofs` | `SpinInv`: holders and flags agree, `ncli` is the number of locks held and calls in progress, interrupts are off wherever it is not 0. `CacheInv`: buffers and blocks one to one, references counted, a block's last contents in its buffer until they are on the disk | `LocksHold`; `CacheCoherent` |
| `FileSystemProofs` | `FsInv`: which stacks of operations a call can have and what its registers hold at each, which process owns each reference to an inode or an open file and each lock, what is known of the inodes in use. `Offsets`: no file is open beyond its end | `BlocksOwned`, `RefsCounted`, `Attached`, `Unlocked`, `Offsets` |
| `SjfProofs` | `SjfInv`: RUNNING exactly on one CPU; a counter that nobody else moves is the ticks since the dispatch, below `QUANTA` | `ShortestFirst`, `FullQuantum` |
| `PagingProofs` | `PagingInv`: what a process in the kernel has in its local variables at each point of a fault, a swap or a `fork()`, and no frame and no disk page in two places. `OwnedInv`, `Near`, `KeptInv`: below | `NoPageShared`, `EveryPageHasOneOwner`, `FaultMaps`, `MemoryKept` |

Two refinements are proved step by step: a step of `Log` (a call, a step of a
commit, a crash at any disk write, a step of recovery) is a step of `AtomicDisk` or
changes nothing there, and the same for `Pipe` and `ByteStream`. The log's last
write of the header is the step at which a whole group of calls becomes durable; that it is one step
above needs `CopyInv`, that what was copied to the log is still what the cache holds.

The argument for `FileSystem` goes through what a call still has to do. The stack
`k[p]` and the registers `r[p]` determine which references and locks process `p` owns
(`OpOwn`, `IpOwn`, `OldOwn`, `DpOwn`, `CwdOwn`, `Main`): an `iput` on the stack owns
the reference it will give back, a `fileclose` the open file, a `close_begin` the inode of
the file that is closed already, `walk` the directory it is in. `FsInv` says that
the count of every inode is the number of its owners and that the lock is with the
call that has the inode as `Main`. When no process is in a call no stack is left, and
`RefsCounted` is what remains of it. A step changes the owners in a
few places of one process; the lemmas about counting (`CountOne`, `RowOut`,
`Exchanged1`, ...) turn that into the change of the count, and one lemma for each step or
call compares it with what the step does to `ref`. Two facts came with the proof.
That the bound on `off` is kept needs `Offsets`: an open file that ends
before its offset would grow without bound, and that there is none means
that the tests `off > ip->size` of `readi()` and `writei()` (`fs.c:509`, `fs.c:538`) are never
true. And that an inode is not freed while it is open (`Attached`, the half of
`NoDangling` about references) is true of all programs, also of those with `..`
for which the half about names is not.

Hypotheses, where a theorem has one, exclude what the code is known to break:

* `QuietTheorem` and `AtomicTheorem` assume that nobody calls `bfree()`. It writes
  the bitmap past the log (`NoEarlyWrite`, section 6), also into the middle of a commit.
  `PinnedTheorem` and `KeepsTheorem` hold with it, and with the transactions that
  `balloc()` nests.
* `LogKeeps` is about the header in memory, for any size of the log on disk, and says
  which panics of `log_write()` the smaller log on disk can still cause. `OnDiskTheorem`
  assumes that the log on disk is larger than the header (`LOGSIZE < nlog`): then it is
  never outgrown, and the only panic left is over a block that is in the log already.
  `mkfs.c` makes `nlog = LOGSIZE`, and `LogOnDisk` fails (`log_disk`). `Log` has a block on
  disk for every entry of the header; what the one entry too many would overwrite,
  the first block of inodes, is not modelled. So `QuietTheorem` and
  `AtomicTheorem` are about behaviours in which `LogOnDisk` holds.
* `SleepersTheorem` is about the time before the first kill, because a kill between a test of
  `killed` and `sleep()` is lost (`pipe_kill`); `UnkilledTheorem` says it as run
  `pipe_live` has it, `Killable` being empty.
* `SharedTheorem` has none: no frame and no disk page gets two owners, with failed
  forks, unreachable pages, `sys_swap()` and a stale TLB. That none is lost
  (`OwnerTheorem`) is true of what `Tame` describes: every page below the size is
  covered by a page table (`page_far`), nobody touches the guard page
  (`GuardHolds`), processes fork or grow but not both (`copyuvm()` copies a page never
  touched from frame 0), and if they fork there is memory for `NPROC` processes of
  `MaxPages` pages, so that `copyuvm()` need not swap (`page_forkcopy`). That it need not is
  itself proved, by counting the places that can hold a frame: while one of them is
  empty a frame is free.
* `FaultTheorem` assumes that a page table covers every page (`page_far`),
  `KeptTheorem` that `sys_swap()` leaves no entry in the TLB (`page_tlb`) and, for
  processes that fork, `Tame`. Its invariant `KeptInv` follows a page from the
  process's writes through the victim's disk blocks into the frame a fault
  brings it back to, or into the child's copy.
* `QuantumTheorem` is about processes that do not call `inc_cpucounter()`
  themselves, as `FullQuantum` says (`CpuGivenUp`).

`ShortestTheorem` says what a loop computes: the selection loop of `scheduler()` is a
recursive function on the slots, and the proof takes the first slot after which
its result would not be the smallest.

Only model-checked:

* Liveness, and deadlock (`ENABLED`): out of the proof system's reach.
* Of `FileSystem`, that names agree with inodes (`CommitConsistent` and the first conjunct of `NoDangling`).
  It is not true of all programs (`fs_dotdot`), only of the sets of programs that run
  `fs` has, and which directories a path reaches is a recursion over the tree.
* `Console` and its refinement of `LineEditor`, `Exec`, `LazyAlloc`: not proved yet.
* `Umalloc`, and `SysCalls` with `UserTests`: recursion over a free list, a path and a
  script. What it computes for every input needs an induction over data,
  beyond the installed provers.
* The sums `MCMemory` and `MCParts`. What their properties say of `Paging`, `BufferCache`
  and `Spinlock` is proved of those modules.

## 6. Disagreements with the code's own comments

`page_null` is a run; the others
have a configuration of their own beside the module, which TLC finds violated (`tlc -config X.cfg M.tla`; `M` is the module of
the name's first part, `MCPaging`, `MCLog`, `Pipe`, `MCSjf`, `MCFileSystem`, `BufferCache`).

| Configuration | Property | What the code does |
|---|---|---|
| `page_null` | `FrameAfterSwap` | `paging.c:109`: the `kalloc()` after `swap_page()` is not checked and another process may have taken the frame; the comment promises "this time we will get physical page for sure" |
| `page_forkcopy` | `MemoryKept` | `vm.c:424`: `copyuvm()` out of memory swaps out a page of the table it copies, perhaps the one whose frame it has just looked up |
| `page_far` | `FaultMaps` | `paging.c:112`: `growproc()` makes no page tables, so a fault far up maps nothing and repeats |
| `page_tlb` | `MemoryKept` | `sysfile.c:496`: `sys_swap()` frees a frame the TLB still maps |
| `log_disk` | `LogOnDisk` | `log.c:218` tests for room before it takes the lock (`log.c:223`), so that two calls pass together, and `mkfs.c:25` counts the header among the log's `LOGSIZE` blocks: the log becomes one block longer than it has on disk. `param.h:11` has `LOGSIZE` for "max data blocks in on-disk log". It takes calls that write all `MAXOPBLOCKS` blocks |
| `log_balloc` | `CommitFinishes` | `fs.c:69`: `balloc()` waits in `begin_op()` for a commit with the bitmap locked, which that commit has to read (`log.c:184`) |
| `log_bfree` | `NoEarlyWrite` | `fs.c:138`: `bfree()` writes the bitmap past the log, with bits of calls in progress; `log.c:13-15` says that this needs no thought |
| `bcache_deadlock` | `NoDeadlock` | `bio.c:213`: `write_page_to_disk()` holds a data buffer across a `begin_op()` that may wait for a commit that needs it |
| `fs_deadlock` | `NoDeadlock` | `sysfile.c:286` and `namex()`: a path that ends in `..` makes two calls lock parent and child in opposite orders; `fs.c:191-196` says that separating locks from references avoids deadlock |
| `fs_dotdot` | `LockedHasType` | `fs.c:354`: `..` of a removed directory names an inode that may have been freed, and `ilock()` panics |
| `pipe_kill` | `KilledLeaves` | `pipe.c:108`: a kill between the test of `killed` and `sleep()` is lost |
| `pipe_fault` | `NoSleepWithLock` | `pipe.c:93`, `pipe.c:116`: the copy can fault on a swapped page with the pipe's lock held |
| `sjf_null` | `SchedulerSafe` | `g17/proc.c:396`: a first runnable process with burst time INT_MAX makes the loop read through a null pointer |

More of the same, without a configuration of its own: each property is defined in its
module, and TLC finds it violated when it takes the place of the property in the
configuration named, with the changes named (invariants, but for the action
properties `KillNamesAProcess` and `VictimNotAccessed` and the temporal `BeginOpReturns`):

| Property | In | What the code does |
|---|---|---|
| `KillNamesAProcess` of `ProcTable` | `proc_smp` | `proc.c:510`: `kill()` of a pid left by a failed fork marks an unused slot |
| `PteExists` of `Paging` | `page_far`, with NPROC 2, NFRAME 14 and Ops `{"fork", "grow"}` | `vm.c:402`: `fork()` of a process whose memory has a part without page table panics |
| `EveryPageHasOneOwner` of `Paging` | `page_forkcopy`, with NFRAME 14, MaxPages 4 and Ops `{"fork", "grow"}` | `vm.c:431`: a page never touched is copied from frame 0 and mapped without `PTE_U`; the child's first access replaces it and the frame is lost |
| `VictimNotAccessed` of `Paging` | `page_far`, with Far `{}`, NFRAME 5, MaxPages 5 and ABit TRUE | `vm.c:329` tests `*pte & ~PTE_A`, which is true of every present page; the comment (`vm.c:310-311`) wants a page not accessed |
| `GuardHolds` of `Paging` | `page_tlb`, with TLB FALSE and Ops `{"guard"}` | `paging.c:125`: a fault on the guard page is given a fresh user page |
| `SwapFileFound` of `Paging` | `page_far`, with Far `{}`, NFRAME 5, MaxPages 6 and a third disk page | `bio.c:175`: every swap takes a `struct file` that nobody closes |
| `LogNeverPanics` of `Log` | `log_disk` | `log.c:218` with `mkfs.c:25`: the log on disk is one block smaller than `begin_op()` reserves |
| `BeginOpReturns` of `Log` | `log_balloc`, with Kinds `{"op", "nested"}` and LOGSIZE 6 | `fs.c:69`: `balloc()` opens a transaction inside its caller's and may sleep for room that only its caller's `end_op()` could make |
| `LastRefFrees` of `FileSystem` | `fs_deadlock` | `fs.c:376`: an inode without links can keep its blocks when its last two references go at once, against `fs.c:372-373`; nothing that is reachable is freed |
| `CpuGivenUp` of `Sjf` | `sjf_null`, with HYBRID and Callers `{1, 2}` | `g17hybrid/trap.c:106`: `inc_cpucounter()` is a system call too, and skips the test for equality |
| `MaxPidActive` of `Sjf` | `sjf_null` | `g17/proc.c:617`: the maximum is over unused slots too |
| `NoPanic` of `BufferCache` | `bcache_deadlock` | `bio.c:95`: with all buffers pinned or in use, `bget()` panics |
| `NoPanic`, `SizeIsKept`, `NothingLost` of `LazyAlloc` | `parts`, as `Lazy!NoPanic` etc. | Part A: `fork()` reaches a page never touched and panics; a fault beyond the size is given a page; a frame whose `mappages()` fails is lost |
| `HeapWhole` of `Umalloc` | `parts`, with a request of 63 among `Asked` | `umalloc.c:69`: the sum that rounds a request up wraps, and the block is smaller than the request |

## 7. Plan

Done, in this order: `ProcTable`; `Log` over `AtomicDisk`; `Paging`; `Pipe` over
`ByteStream`; `Sjf`; `BufferCache`; `FileSystem`; `Spinlock`; `Console` over
`LineEditor`; `PageTable` with `LazyAlloc` and `Exec`; `SysCalls` with `UserTests`;
`Umalloc`; then the theorems of section 5, those of `FileSystem` last.

To come:

1. The refinement of `LineEditor` by `Console` as a theorem, and a condition on
   programs under which names agree with inodes, with its proof.
2. `balloc_page()` and `bfree_page()` as a search over the bitmap, with the unlocked
   counter, below both `Paging` and `FileSystem`.
3. Liveness of `Console` and `BufferCache`, with the fairness of `Pipe`.
