CONSTANTS
    IdBase = 10
    IdLimit = 1000
    MaxOps = 1
    MaxDecisions = 2
    MaxCrashes = 1
    Outcomes <- MCPlain
    CitedIn <- MCPlainCited
    Recs = {r1, r2}
    Sops <- MCNoSops
    StepsOf <- MCNoSteps
SPECIFICATION Spec
INVARIANTS
    CitedNumberStands
CHECK_DEADLOCK FALSE
