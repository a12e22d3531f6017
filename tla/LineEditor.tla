----------------------------- MODULE LineEditor -----------------------------
(***************************************************************************)
(* What the console's input promises its readers: a line is edited until   *)
(* it is ended by a newline or by control-D, or until no more fits; ended  *)
(* lines are read in order, every byte once, at most one line at a time.   *)
(***************************************************************************)
EXTENDS Naturals, Sequences

CONSTANTS
    Reader,   \* processes that read
    Char,     \* bytes that are kept, "nl" and "eof" among them
    Size      \* how many bytes are kept

VARIABLES
    ready,    \* ended lines that have not been read
    line,     \* the line that is being edited
    given     \* what each reader has got in its current call

vars == <<ready, line, given>>

Init == ready = <<>> /\ line = <<>> /\ given = [p \in Reader |-> <<>>]

Ends(c) == c \in {"nl", "eof"}

Type(c) ==
    /\ Len(ready) + Len(line) < Size
    /\ IF Ends(c) \/ Len(ready) + Len(line) + 1 = Size
       THEN ready' = ready \o line \o <<c>> /\ line' = <<>>
       ELSE line' = Append(line, c) /\ UNCHANGED ready
    /\ UNCHANGED given

\* Backspace and control-U.
Erase == line' \in {SubSeq(line, 1, Len(line) - 1), <<>>} /\ UNCHANGED <<ready, given>>

\* A reader takes bytes up to the end of a line; control-D is only taken by a
\* reader that has nothing, for which it is the end of the file.
Take(p) ==
    \E n \in 0 .. Len(ready) :
       LET s == SubSeq(ready, 1, n) IN
       /\ \A i \in 1 .. n - 1 : ~Ends(s[i])
       /\ ready' = SubSeq(ready, n + 1, Len(ready))
       /\ IF n > 0 /\ s[n] = "eof"
          THEN n = 1 /\ given[p] = <<>> /\ UNCHANGED given
          ELSE given' = [given EXCEPT ![p] = @ \o s]
       /\ UNCHANGED line

Call(p) == given' = [given EXCEPT ![p] = <<>>] /\ UNCHANGED <<ready, line>>

Next ==
    \/ \E c \in Char : Type(c)
    \/ Erase
    \/ \E p \in Reader : Take(p) \/ Call(p)

Spec == Init /\ [][Next]_vars
=============================================================================
