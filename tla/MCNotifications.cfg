CONSTANTS
    IdBase = 10
    IdLimit = 1000
    Ops = {"a"}
    MaxBeats = 3
    Threshold = 1
    Reviews <- MCReviews
    MaxAcks = 2
    MaxCrashes = 1
SPECIFICATION Spec
INVARIANTS
    LatestReportCounts
    AcknowledgedExactly
PROPERTIES
    SilenceIsNoticed
