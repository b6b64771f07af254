CONSTANTS
    IdBase = 10
    IdLimit = 1000
    MaxOps = 2
    MaxDecisions = 0
    MaxCrashes = 1
    Outcomes <- MCPlain
    CitedIn <- MCPlainCited
    Recs = {}
    Sops <- MCTwoSops
    StepsOf <- MCTwoStepsOf
SPECIFICATION Spec
PROPERTIES
    StepsInOrder
CHECK_DEADLOCK FALSE
