CONSTANTS
    Limit = 3
    Region <- MCRegions
    VaddrsFrom = 2
    VaddrsTo = 8
    Device = 12
    AnyOrder = FALSE
    MaxRefs = 2
SPECIFICATION Spec
INVARIANTS
    MappingsInvariant
    NothingLost
    Restored
CHECK_DEADLOCK FALSE
