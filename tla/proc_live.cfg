SPECIFICATION FairSpec
CONSTANTS
  NPROC = 2
  NCPU = 1
  MaxPid = 2
  TickMod = 2
  Calls = {"fork", "exit", "wait", "kill", "sleep"}
  KillArgs = {2}
  SleepArgs = {1}
PROPERTIES
  RunnableRuns
  KilledExits
