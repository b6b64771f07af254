SPECIFICATION ViewSpec
CONSTANTS
    None = None
    Goals <- mcGoals
    People <- mcPeople
    Departments <- mcDepartments
    Capabilities <- mcCapabilities
    Sops <- mcSops
    Operations <- mcOperations
    Decisions <- mcDecisions
    Kpis <- mcKpis
    Repositories <- mcRepositories
    Services <- mcServices
    Workflows <- mcWorkflows
    Databases <- mcDatabases
    Tables <- mcTables
    Providers <- mcProviders
    Models <- mcModels
    Worlds <- mcWorlds
    Orders <- mcOrders
    Conditions <- mcConditions
    Outages <- mcOutages
    Configured <- mcConfigured
    Sources <- mcSources
    Scenarios = {"deployment", "database_maintenance"}
    MaxChanges = 1
INVARIANT
    ReachExactly
    SafeMeansQuiet
    ReadyHasNoCritical
    EdgesAnswerEachOther
