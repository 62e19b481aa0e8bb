SPECIFICATION Spec
CONSTANTS
    MaxRuns = 2
CHECK_DEADLOCK FALSE
INVARIANT FreshRunsAreAccepted
INVARIANT CompleteMeansComplete
