----------------------------- MODULE ByteStream -----------------------------
(***************************************************************************)
(* What a pipe promises its readers and writers: a bounded queue of bytes  *)
(* in which each byte is read once and in the order of writing, and that   *)
(* reports the end of the data only when the writing end is closed and     *)
(* everything has been read.                                               *)
(***************************************************************************)
EXTENDS Integers, Sequences

CONSTANTS Proc, Byte, Size

VARIABLES
    q,        \* the bytes written and not yet read
    open,     \* the ends that are open
    result    \* what the last call of each process returned

bvars == <<q, open, result>>

Ends == {"read", "write"}
None == <<"none">>     \* no call has returned since the current one began
Error == <<"error">>

BInit ==
    /\ q = <<>>
    /\ open = Ends
    /\ result = [p \in Proc |-> None]

Begin(p) ==
    /\ result' = [result EXCEPT ![p] = None]
    /\ UNCHANGED <<q, open>>

Put(b) ==
    /\ Len(q) < Size
    /\ q' = Append(q, b)
    /\ UNCHANGED <<open, result>>

\* The last byte of a write is put there as the write returns.
PutLast(p, b) ==
    /\ Len(q) < Size
    /\ q' = Append(q, b)
    /\ result' = [result EXCEPT ![p] = <<>>]
    /\ UNCHANGED open

Get(p, n) ==
    /\ n \in 1 .. Len(q)
    /\ result' = [result EXCEPT ![p] = SubSeq(q, 1, n)]
    /\ q' = SubSeq(q, n + 1, Len(q))
    /\ UNCHANGED open

EndOfData(p) ==
    /\ q = <<>> /\ "write" \notin open
    /\ result' = [result EXCEPT ![p] = <<>>]
    /\ UNCHANGED <<q, open>>

Fail(p) ==
    /\ result' = [result EXCEPT ![p] = Error]
    /\ UNCHANGED <<q, open>>

Close(e) ==
    /\ open' = open \ {e}
    /\ UNCHANGED <<q, result>>

BNext ==
    \/ \E p \in Proc :
          \/ Begin(p) \/ EndOfData(p) \/ Fail(p)
          \/ \E n \in 1 .. Size : Get(p, n)
          \/ \E b \in Byte : PutLast(p, b)
    \/ \E b \in Byte : Put(b)
    \/ \E e \in Ends : Close(e)

BSpec == BInit /\ [][BNext]_bvars
=============================================================================
