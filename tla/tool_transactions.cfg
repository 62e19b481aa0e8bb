SPECIFICATION Spec
CONSTANTS
    Requests = {r1, r2, r3}
    Conns = {c1, c2}
    NoConn = NoConn
    Chunks = 2
    LateErrors = TRUE
    MaxCancels = 1
SYMMETRY Symmetry
CHECK_DEADLOCK FALSE
INVARIANT TypeOK
INVARIANT AnsweredIsCommitted
INVARIANT RefusedIsUndone
INVARIANT AllOrNothing
INVARIANT RestrictedOnlyReads
PROPERTY GivesBackClean
PROPERTY NothingAfterAnswer
