SPECIFICATION Spec
CONSTANTS
  NPROC = 2
  NCPU = 2
  MaxPid = 2
  TickMod = 3
  Calls = {"fork", "wait", "kill", "sleep"}
  KillArgs = {1, 2}
  SleepArgs = {2}
INVARIANTS
  TickNeverMissed
  OnlyInitPanics
PROPERTIES
  SleepNotEarly
