SPECIFICATION Spec
CONSTANTS
    Requests = {r1, r2}
    Conns = {c1, c2}
    NoConn = NoConn
    Chunks = 2
    LateErrors = TRUE
    MaxCancels = 0
SYMMETRY Symmetry
CHECK_DEADLOCK FALSE
INVARIANT IdleIsClean
