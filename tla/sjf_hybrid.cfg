SPECIFICATION Spec
CONSTANTS
  NPROC = 3
  CPU = {c1}
  HYBRID = TRUE
  QUANTA = 2
  INTMAX = 3
  Bursts <- BurstsToMax
  Callers = {3}
  MaxPid = 4
  MaxRan = 2
PROPERTIES
  ShortestFirst
  FullQuantum
CHECK_DEADLOCK FALSE
