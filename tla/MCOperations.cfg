CONSTANTS
    IdBase = 10
    IdLimit = 1000
    MaxOps = 2
    MaxDecisions = 2
    MaxCrashes = 1
    Outcomes <- MCOutcomes
    CitedIn <- MCCitedIn
    Recs = {r1, r2}
    Sops <- MCNoSops
    StepsOf <- MCNoSteps
SPECIFICATION Spec
INVARIANTS
    TypeOK
    HistoryAgrees
    CitesApprovedDecision
    LogIdsDistinct
    CompletedHasEvidence
    RecordedUnlessInterrupted
PROPERTIES
    ImplementsLedger
    TerminalStays
    NumbersNotReused
CHECK_DEADLOCK FALSE
