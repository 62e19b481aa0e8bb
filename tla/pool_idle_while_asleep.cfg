SPECIFICATION Spec
CONSTANTS
    Tasks = {t1, t2, t3, t4}
    MaxSize = 2
    SizeModulus = 8
    MayClose = FALSE
    MaxLeaks = 0
SYMMETRY Symmetry
INVARIANT NoIdleWhileAsleep
