------------------------------ MODULE Console ------------------------------
(***************************************************************************)
(* The console of Part_B (console.c): the input ring between the keyboard  *)
(* interrupt and the processes that read, and the cursor of the screen.    *)
(*                                                                         *)
(* What runs under cons.lock is one step, but for the last moments of a    *)
(* reader before it sleeps: it holds the lock, and kill() does not need    *)
(* it.  The interrupt handler takes one byte after the other with the lock *)
(* held; each is a step here.                                              *)
(***************************************************************************)
EXTENDS Integers, Sequences, FiniteSets, FiniteSetsExt

CONSTANTS
    Reader,     \* processes
    INPUT_BUF,  \* size of the ring
    WIDTH,      \* where the indices wrap: 2^32, a multiple of INPUT_BUF
    MaxRead,    \* the most bytes that a reader asks for
    COLS, ROWS  \* of the screen: 80 and 25

Kept  == {"a", "nl", "eof"}            \* '\r' is taken as '\n'
Typed == Kept \cup {"^U", "^H"}
None  == "none"

VARIABLES
    buf, r, w, e,         \* input
    pos,                  \* the cursor: column + COLS * row
    pc, want, given, killed,  \* of each reader
    lock                  \* the reader that holds cons.lock

vars == <<buf, r, w, e, pos, pc, want, given, killed, lock>>

Init ==
    /\ buf = [i \in 0 .. INPUT_BUF - 1 |-> "a"] /\ r = 0 /\ w = 0 /\ e = 0
    /\ pos \in 0 .. (COLS * ROWS) - 1
    /\ pc = [p \in Reader |-> "user"]
    /\ want = [p \in Reader |-> 0]
    /\ given = [p \in Reader |-> <<>>]
    /\ killed = [p \in Reader |-> FALSE]
    /\ lock = None

Plus(i, n)  == (i + n) % WIDTH
Dist(i, j)  == (j - i) % WIDTH
\* The bytes of the ring from index i to index j.
Bytes(i, j) == [n \in 1 .. Dist(i, j) |-> buf[Plus(i, n - 1) % INPUT_BUF]]

-----------------------------------------------------------------------------
(* The screen.                                                             *)

\* Where the cursor goes when c is printed, before the screen scrolls.
Moved(c, at) ==
    CASE c = "nl" -> at + (COLS - (at % COLS))
      [] c = "back" -> IF at > 0 THEN at - 1 ELSE at
      [] OTHER -> at + 1

\* The lines above the last one of the memory are shown and scroll.
cgaputc(c, at) ==
    IF Moved(c, at) \div COLS >= ROWS - 1 THEN Moved(c, at) - COLS ELSE Moved(c, at)

\* n backspaces.
Erased[n \in Nat, at \in Nat] ==
    IF n = 0 THEN at ELSE cgaputc("back", Erased[n - 1, at])

-----------------------------------------------------------------------------
(* The interrupt.                                                          *)

readervars == <<want, given, killed, lock>>

\* wakeup(&input.r)
Wake(on) == pc' = [p \in Reader |-> IF on /\ pc[p] = "asleep" THEN "woken" ELSE pc[p]]

\* Mutant: control-D commits the line and wakes nobody.
Wakes_nl(c, full) == c = "nl" \/ full
Wakes(c, full) == c = "nl" \/ c = "eof" \/ full

Room == Dist(r, e) < INPUT_BUF

put(c) ==
    /\ lock = None /\ Room
    /\ buf' = [buf EXCEPT ![e % INPUT_BUF] = c]
    /\ e' = Plus(e, 1)
    /\ pos' = cgaputc(c, pos)
    /\ LET full == e' = Plus(r, INPUT_BUF) IN
       /\ w' = IF c \in {"nl", "eof"} \/ full THEN e' ELSE w
       /\ Wake(Wakes(c, full))
    /\ UNCHANGED <<r, readervars>>

\* Mutant: backspace takes back what has been handed to the readers.
Erasable_any == Dist(r, e)

\* How far the edited line may be taken back.
Erasable == Dist(w, e)

\* Control-U stops at the end of a line.
ToLineEnd ==
    LET ends == {n \in 1 .. Erasable : Bytes(r, e)[Dist(r, e) + 1 - n] = "nl"}
    IN IF ends = {} THEN Erasable ELSE Min(ends) - 1

erase(c) ==
    /\ lock = None
    /\ LET n == IF c = "^U" THEN ToLineEnd ELSE Min({1, Erasable}) IN
       /\ e' = Plus(e, -n)
       /\ pos' = Erased[n, pos]
    /\ UNCHANGED <<buf, r, w, pc, readervars>>

\* Control-P has procdump() list the processes, a zero byte does nothing and a
\* byte without room is dropped.
consoleintr(c) ==
    \/ c \in Kept /\ put(c)
    \/ c \in {"^U", "^H"} /\ erase(c)

-----------------------------------------------------------------------------
(* The processes.                                                          *)

call(p, n) ==
    /\ pc[p] = "user"
    /\ pc' = [pc EXCEPT ![p] = "woken"]
    /\ want' = [want EXCEPT ![p] = n]
    /\ given' = [given EXCEPT ![p] = <<>>]
    /\ UNCHANGED <<buf, r, w, e, pos, killed, lock>>

\* What the reader takes of the committed bytes: up to the number it wants or
\* to the end of a line.
Took(p) ==
    LET s    == Bytes(r, w)
        most == Min({Len(s), want[p] - Len(given[p])})
        ends == {i \in 1 .. most : s[i] \in {"nl", "eof"}}
    IN SubSeq(s, 1, IF ends = {} THEN most ELSE Min(ends))

\* consoleread() with the lock, until it returns or finds the ring empty;
\* control-D is put back if the reader has got something.
consoleread(p) ==
    /\ pc[p] = "woken" /\ lock = None
    /\ LET t    == Took(p)
           eof  == t # <<>> /\ t[Len(t)] = "eof"
           text == IF eof THEN SubSeq(t, 1, Len(t) - 1) ELSE t
           now  == given[p] \o text
           done == eof \/ Len(now) = want[p] \/ (t # <<>> /\ t[Len(t)] = "nl")
       IN
       /\ r' = Plus(r, IF eof /\ now # <<>> THEN Len(t) - 1 ELSE Len(t))
       /\ given' = [given EXCEPT ![p] = now]
       /\ IF done \/ killed[p]
          THEN /\ pc' = [pc EXCEPT ![p] = "user"] /\ want' = [want EXCEPT ![p] = 0]
               /\ UNCHANGED lock
          ELSE pc' = [pc EXCEPT ![p] = "going"] /\ lock' = p /\ UNCHANGED want
    /\ UNCHANGED <<buf, w, e, pos, killed>>

sleep(p) ==
    /\ pc[p] = "going"
    /\ pc' = [pc EXCEPT ![p] = "asleep"]
    /\ lock' = None
    /\ UNCHANGED <<buf, r, w, e, pos, want, given, killed>>

kill(p) ==
    /\ ~killed[p]
    /\ killed' = [killed EXCEPT ![p] = TRUE]
    /\ pc' = [pc EXCEPT ![p] = IF @ = "asleep" THEN "woken" ELSE @]
    /\ UNCHANGED <<buf, r, w, e, pos, want, given, lock>>

\* consolewrite() of a byte by whatever process: each moves the cursor.
consolewrite(c) ==
    /\ lock = None
    /\ pos' = cgaputc(c, pos)
    /\ UNCHANGED <<buf, r, w, e, pc, readervars>>

Next ==
    \/ \E c \in Typed : consoleintr(c)
    \/ \E c \in {"a", "nl"} : consolewrite(c)
    \/ \E p \in Reader : \/ \E n \in 1 .. MaxRead : call(p, n)
                         \/ consoleread(p) \/ sleep(p) \/ kill(p)

Spec == Init /\ [][Next]_vars

-----------------------------------------------------------------------------
TypeOK ==
    /\ buf \in [0 .. INPUT_BUF - 1 -> Kept]
    /\ {r, w, e} \subseteq 0 .. WIDTH - 1
    /\ pos \in 0 .. (COLS * ROWS) - 1
    /\ pc \in [Reader -> {"user", "woken", "going", "asleep"}]
    /\ want \in [Reader -> 0 .. MaxRead] /\ killed \in [Reader -> BOOLEAN]
    /\ \A p \in Reader : Len(given[p]) <= MaxRead
    /\ lock \in Reader \cup {None}

\* Bytes are read once, in order and a line at a time, and editing never
\* reaches a line that has been ended, with indices that wrap and with several
\* readers that take turns in the middle of a line.
Editor == INSTANCE LineEditor WITH
    Char <- Kept, Size <- INPUT_BUF, ready <- Bytes(r, w), line <- Bytes(w, e)
ImplementsLineEditor == Editor!Spec

\* No reader sleeps while there is something to read, whichever reader the
\* bytes before it went to; and the cursor stays on the screen (cgaputc()'s
\* panic), wherever the boot loader has left it.
SleepersMustWait == TypeOK /\ \A p \in Reader : pc[p] = "asleep" => r = w

=============================================================================
