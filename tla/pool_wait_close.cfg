SPECIFICATION FairSpec
CONSTANTS
    Tasks = {t1, t2}
    MaxSize = 1
    SizeModulus = 8
    MayClose = TRUE
    MaxLeaks = 0
CHECK_DEADLOCK FALSE
PROPERTY AcquireFinishes
