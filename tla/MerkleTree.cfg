SPECIFICATION Spec
CONSTANTS
    Lists <- AnyLists
    Offered <- AmbiguousData
    MaxClaim = 5
    MaxSpurious = 1
INVARIANTS
    HonestAccepted
    RootBindsList
    InLevel
    PositionBound
CHECK_DEADLOCK FALSE
