CONSTANTS
    Names <- MCNames
    Path <- MCPath
    Above <- MCAbove
    Unsafe <- MCUnsafe
    Requests <- MCRequests
    MaxOps = 1
SPECIFICATION Spec
INVARIANTS
    PlanIsEnough
CHECK_DEADLOCK FALSE
