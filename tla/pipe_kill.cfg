SPECIFICATION FairSpec
CONSTANTS
  Proc = {p1, p2, p3}
  Readers = {p1, p2}
  Writers = {p2, p3}
  Byte = {"a"}
  PIPESIZE = 1
  WIDTH = 2
  MaxCall = 2
  Killable = {p1}
  UserFaults = FALSE
PROPERTIES
  KilledLeaves
CHECK_DEADLOCK FALSE
