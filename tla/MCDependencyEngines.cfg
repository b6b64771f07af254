CONSTANTS
    Items = {1, 2, 3}
    Outside = 9
    DepsIn <- MCDeps
    IndexIn <- MCIndex
    BadIn <- MCBad
SPECIFICATION Spec
INVARIANTS
    CyclesAreFound
    OrderIsRight
PROPERTY
    RunsWhatCanRun
CHECK_DEADLOCK FALSE
