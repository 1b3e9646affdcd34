CONSTANTS
    Limit = 3
    Region <- MCOneRegion
    VaddrsFrom = 4
    VaddrsTo = 8
    Device = 12
    AnyOrder = TRUE
    MaxRefs = 1
SPECIFICATION Spec
INVARIANTS
    FreeIsFree
CHECK_DEADLOCK FALSE
