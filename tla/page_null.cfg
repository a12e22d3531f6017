SPECIFICATION Spec
CONSTANTS
  NPROC = 2
  NBOOT = 2
  NFRAME = 11
  Disk = {d1, d2}
  Null = Null
  MaxPages = 5
  Far = {}
  NFILE = 2
  Ops = {"grow"}
  TLB = FALSE
  ABit = FALSE
SYMMETRY Symmetry
INVARIANTS
  FrameAfterSwap
