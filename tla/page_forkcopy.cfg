SPECIFICATION Spec
CONSTANTS
  NPROC = 2
  NBOOT = 1
  NFRAME = 8
  Disk = {d1, d2}
  Null = Null
  MaxPages = 3
  Far = {}
  NFILE = 2
  Ops = {"fork"}
  TLB = FALSE
  ABit = FALSE
SYMMETRY Symmetry
INVARIANTS
  MemoryKept
