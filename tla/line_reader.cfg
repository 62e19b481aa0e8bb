SPECIFICATION Spec
CONSTANTS
    Streams <- MCStreams
    MaxLength = 6
    Capacity = 3
    MaxBytes = 4
CHECK_DEADLOCK FALSE
INVARIANT LinesAreTheStream
INVARIANT RefusedForCause
