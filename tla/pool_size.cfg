SPECIFICATION FairSpec
CONSTANTS
    Tasks = {t1, t2}
    MaxSize = 2
    SizeModulus = 8
    MayClose = TRUE
    MaxLeaks = 1
CHECK_DEADLOCK FALSE
PROPERTY QuietSize
