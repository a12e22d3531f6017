SPECIFICATION Spec
CONSTANTS
  NPROC = 1
  NBOOT = 1
  NFRAME = 6
  Disk = {d1, d2}
  Null = Null
  MaxPages = 3
  Far = {}
  NFILE = 2
  Ops = {"swap"}
  TLB = TRUE
  ABit = FALSE
SYMMETRY Symmetry
INVARIANTS
  MemoryKept
