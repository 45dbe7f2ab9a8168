SPECIFICATION Spec
CONSTANTS
    MaxChunks = 2
    MaxSends = 1
    MaxCloses = 2
INVARIANT
    OutputComplete
CHECK_DEADLOCK FALSE
