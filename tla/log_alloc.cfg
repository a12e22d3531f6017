SPECIFICATION Spec
CONSTANTS
  Proc = {p1, p2}
  Block = {b1, b2, b3}
  Bitmap = b1
  NoBlock = NoBlock
  LOGSIZE = 4
  nlog = 4
  MAXOPBLOCKS = 2
  Kinds = {"op", "balloc", "bfree"}
  Crashes = FALSE
SYMMETRY Symmetry
INVARIANTS
  LogKeeps
CHECK_DEADLOCK FALSE
