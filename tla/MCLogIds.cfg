CONSTANTS
    IdBase = 2
    IdLimit = 2
    MaxOps = 3
    MaxDecisions = 0
    MaxCrashes = 0
    Outcomes <- MCPlain
    CitedIn <- MCPlainCited
    Recs = {}
    Sops <- MCNoSops
    StepsOf <- MCNoSteps
SPECIFICATION Spec
INVARIANTS
    NextIdIsSequential
CHECK_DEADLOCK FALSE
