------------------------------- MODULE MCLog -------------------------------
EXTENDS Log, TLC

\* Processes are interchangeable.
Symmetry == Permutations(Proc)
=============================================================================
