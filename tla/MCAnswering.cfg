CONSTANTS
    None = None
    Folders <- mcFolders
    Objectives <- mcObjectives
    Loadable = {"lead", "competitor"}
    LeadResearch = "lead"
    Home = "home"
    Paths = {"home", "about"}
    Tlds = 2
    MaxTokens = 2
    MaxEdits = 1
SPECIFICATION Spec
INVARIANTS
    RunsWhatIsRecorded
    CompletedAsShown
    OneSiteReported
