------------------------------- MODULE MCSjf -------------------------------
EXTENDS Sjf

\* The burst time of a short job (a program starts with 0) and one that
\* set_burst_time() should not take.
BurstsToMax == {2, INTMAX}
=============================================================================
