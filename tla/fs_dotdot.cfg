SPECIFICATION Spec
CONSTANTS
  NPROC = 2
  NINODES = 3
  NBLOCKS = 3
  NFILE = 1
  NOFILE = 2
  MAXFILE = 1
  Elements = {"a", "b"}
  Programs <- DirPrograms
INVARIANTS
  LockedHasType
CHECK_DEADLOCK FALSE
