CONSTANTS
    Names <- MCNames
    Path <- MCPath
    Above <- MCAbove
    Unsafe <- MCUnsafe
    Requests <- MCSpellings
    MaxOps = 2
SPECIFICATION Spec
INVARIANTS
    NotEmptyIsAConflict
CHECK_DEADLOCK FALSE
