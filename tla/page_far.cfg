SPECIFICATION Spec
CONSTANTS
  NPROC = 1
  NBOOT = 1
  NFRAME = 7
  Disk = {d1, d2}
  Null = Null
  MaxPages = 4
  Far = {3}
  NFILE = 2
  Ops = {"grow"}
  TLB = FALSE
  ABit = FALSE
SYMMETRY Symmetry
PROPERTIES
  FaultMaps
