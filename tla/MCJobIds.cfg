CONSTANTS
    IdBase = 10
    IdLimit = 1000
    Streams = {s1}
    Clis = {c1}
    Verdicts = {approved}
    MaxJobs = 2
    AnyClient = FALSE
SPECIFICATION Spec
INVARIANTS
    IdsUnique
CHECK_DEADLOCK FALSE
