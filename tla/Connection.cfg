SPECIFICATION Spec
CONSTANTS
    MaxChunks = 2
    MaxSends = 1
    MaxCloses = 2
INVARIANTS
    TypeOK
    OutputFaithful
    ClosedMeansGone
PROPERTIES
    CloseReleases
    ExitNoticed
CHECK_DEADLOCK FALSE
