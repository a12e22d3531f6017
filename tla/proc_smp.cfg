SPECIFICATION Spec
CONSTANTS
  NPROC = 3
  NCPU = 2
  MaxPid = 3
  TickMod = 1
  Calls = {"fork", "exit", "wait", "kill", "fault"}
  KillArgs = {2}
  SleepArgs = {0}
INVARIANTS
  StackInUse
  OneCpuEach
  WaitNeverMisses
  ParentAlive
