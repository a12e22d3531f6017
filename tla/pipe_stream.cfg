SPECIFICATION Spec
CONSTANTS
  Proc = {p1, p2}
  Readers = {p1, p2}
  Writers = {p1, p2}
  Byte = {"a", "b"}
  PIPESIZE = 2
  WIDTH = 4
  MaxCall = 3
  Killable = {p1, p2}
  UserFaults = TRUE
SYMMETRY Symmetry
INVARIANTS
  FreedOnce
PROPERTIES
  EofMeansNoWriter
  ImplementsByteStream
CHECK_DEADLOCK FALSE
