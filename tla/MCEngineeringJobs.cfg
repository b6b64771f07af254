CONSTANTS
    Jobs = {j1, j2}
    MaxRestarts = 2
SPECIFICATION ApiSpec
INVARIANTS
    NeverShownEarlier
    AnsweredIsReadable
PROPERTY
    EveryJobEnds
CHECK_DEADLOCK FALSE
