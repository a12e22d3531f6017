SPECIFICATION PartsSpec
CONSTANTS
    Process = {p1, p2}
    CPU = {"c1", "c2"}
    NLOCK = 2
SYMMETRY Symmetry
INVARIANTS
    TestsPass
    Counted
    PagesArePrivate
    FramesAccounted
    ImageWhole
    HeapWhole
    LocksHold
    CacheCoherent
    ReadersMustWait
PROPERTY ImplementsLineEditor
CHECK_DEADLOCK FALSE
