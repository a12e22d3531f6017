------------------------------- MODULE MCPipe -------------------------------
EXTENDS Pipe, TLC

\* Processes are interchangeable.
Symmetry == Permutations(Proc)
=============================================================================
