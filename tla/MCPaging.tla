------------------------------ MODULE MCPaging ------------------------------
EXTENDS Paging, TLC

\* Disk pages are interchangeable.
Symmetry == Permutations(Disk)
=============================================================================
