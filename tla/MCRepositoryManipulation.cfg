CONSTANTS
    Names <- MCNames
    Path <- MCPath
    Above <- MCAbove
    Unsafe <- MCUnsafe
    Requests <- MCRequests
    MaxOps = 3
SPECIFICATION Spec
INVARIANTS
    ValidPlansApply
    NothingLostUnasked
CHECK_DEADLOCK FALSE
