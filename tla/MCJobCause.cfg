CONSTANTS
    Jobs = {j1}
    MaxRestarts = 0
SPECIFICATION ApiSpec
INVARIANT
    FailsOnlyForACause
CHECK_DEADLOCK FALSE
