SPECIFICATION Spec
CONSTANTS
    Tasks = {t1, t2, t3, t4}
    MaxSize = 2
    SizeModulus = 8
    MayClose = TRUE
    MaxLeaks = 1
SYMMETRY Symmetry
CHECK_DEADLOCK FALSE
INVARIANT TypeOK
INVARIANT LiveBound
INVARIANT SizeAccounting
INVARIANT PushFindsRoom
INVARIANT NeverWedged
PROPERTY ClosedOnlyShrinks
PROPERTY ImplementsBudget
