SPECIFICATION Spec
CONSTANTS
    Runs = {r1, r2}
    F1 = F1
    F2 = F2
    Files = {F1, F2}
    broken = broken
    wrong = wrong
    right = right
    Code = {broken, wrong, right}
    None = None
    Parses <- McParses
    Green <- McGreen
    Plans <- McOnly
    OpIds = {1, 2, 3}
    StartTree <- McStart
    MaxFixes = 1
    RootIsCwd = FALSE
INVARIANT CorrectionSeesAttempt
CHECK_DEADLOCK FALSE
