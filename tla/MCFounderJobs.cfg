CONSTANTS
    IdBase = 10
    IdLimit = 1000
    Streams = {s1, s2}
    Clis = {c1}
    Verdicts = {approved}
    MaxJobs = 3
    AnyClient = FALSE
SPECIFICATION Spec
INVARIANTS
    StreamIdsDistinct
    EndIsRecorded
PROPERTIES
    ImplementsBoard
    Ends
CHECK_DEADLOCK FALSE
