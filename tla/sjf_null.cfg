SPECIFICATION Spec
CONSTANTS
  NPROC = 2
  CPU = {c1}
  HYBRID = FALSE
  QUANTA = 2
  INTMAX = 9
  Bursts <- BurstsToMax
  Callers = {}
  MaxPid = 3
  MaxRan = 3
INVARIANT
  SchedulerSafe
