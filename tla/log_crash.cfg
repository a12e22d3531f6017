SPECIFICATION FairSpec
CONSTANTS
  Proc = {p1, p2}
  Block = {b1, b2}
  Bitmap = b1
  NoBlock = NoBlock
  LOGSIZE = 4
  nlog = 6
  MAXOPBLOCKS = 2
  Kinds = {"op"}
  Crashes = TRUE
INVARIANTS
  PinnedUntilInstalled
  CommitIsQuiet
PROPERTIES
  ImplementsAtomicDisk
  BeginOpReturns
