SPECIFICATION Spec
CONSTANTS
    Proc = {p1, p2}
    Block = {b1, b2, b3}
    Buf = {x1, x2}
    Kinds = {"read", "write", "page", "log"}
    LogRoom = 1
INVARIANT NoDeadlock
CHECK_DEADLOCK FALSE
