SPECIFICATION HandoffSpec
CONSTANTS
    Tasks = {t1, t2, t3}
    MaxSize = 1
    SizeModulus = 8
    MayClose = FALSE
    MaxLeaks = 0
INVARIANT NoIdleWhileAsleep
PROPERTY SleeperWoken
