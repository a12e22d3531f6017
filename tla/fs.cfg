SPECIFICATION Spec
CONSTANTS
  NPROC = 2
  NINODES = 3
  NBLOCKS = 3
  NFILE = 1
  NOFILE = 2
  MAXFILE = 2
  Elements = {"a", "b"}
  Programs <- AllPrograms
INVARIANTS
  CommitConsistent
  NoDangling
  BlocksOwned
  RefsCounted
CHECK_DEADLOCK FALSE
