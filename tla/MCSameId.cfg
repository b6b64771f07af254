SPECIFICATION Spec
CONSTANTS
    Runs = {r1}
    F1 = F1
    F2 = F2
    Files = {F1, F2}
    broken = broken
    wrong = wrong
    right = right
    Code = {broken, wrong, right}
    None = None
    Parses <- McParses
    Green <- McGreen
    Plans <- McPlansSameId
    OpIds = {1, 2, 3}
    StartTree <- McStart
    MaxFixes = 1
    RootIsCwd = TRUE
INVARIANT EachExecuted
CHECK_DEADLOCK FALSE
