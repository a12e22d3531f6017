SPECIFICATION Spec
CONSTANTS
  NPROC = 2
  NINODES = 3
  NBLOCKS = 2
  NFILE = 1
  NOFILE = 2
  MAXFILE = 1
  Elements = {"a", "b"}
  Programs <- LinkPrograms
INVARIANTS
  NoDeadlock
CHECK_DEADLOCK FALSE
