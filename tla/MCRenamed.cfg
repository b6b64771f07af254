SPECIFICATION ReviewSpec
CONSTANTS
    None = None
    KpiRows <- mcKpiRows
    BottleneckRows <- mcBottleneckRows
    OpportunityRows <- mcOpportunityRows
    Businesses <- mcBusinesses
    Formats <- mcFormats
    LongTitles <- mcLongTitles
    Requests <- mcRequests
    MaxRows = 2
    MaxEdits = 2
    MaxDecisions = 4
    IdBase = 10
    IdLimit = 1000
PROPERTY
    RecommendationsAreImmutable
