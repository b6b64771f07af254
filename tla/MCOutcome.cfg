CONSTANTS
    IdBase = 10
    IdLimit = 1000
    MaxOps = 1
    MaxDecisions = 0
    MaxCrashes = 0
    Outcomes <- MCPlain
    CitedIn <- MCPlainCited
    Recs = {}
    Sops <- MCNoSops
    StepsOf <- MCNoSteps
SPECIFICATION Spec
INVARIANTS
    OutcomeRecorded
CHECK_DEADLOCK FALSE
