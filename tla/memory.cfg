SPECIFICATION MemorySpec
CONSTANTS
    NPROC = 2
    NBOOT = 2
    NFRAME = 10
    Disk = {d1, d2, d3}
    OtherDisk = {e1, e2}
    Null = Null
    MaxPages = 5
    Far = {}
    NFILE = 4
    Ops = {"grow"}
    TLB = FALSE
    ABit = FALSE
SYMMETRY Symmetry
INVARIANTS
    OneOwner
    Kept
    NoneShared
PROPERTY FaultsMap
CHECK_DEADLOCK FALSE
