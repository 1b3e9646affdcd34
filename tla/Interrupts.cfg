CONSTANTS
    NVectors = 48
    NExceptions = 32
    PageFault = 14
    Faults = {6, 13, 14}
    Lines = 4
    PicOrder = 3
    Cascade = 2
    OrderLimit = 4
    DeviceIrqs = {1, 5, 6}
    DriverOrders = {0, 2}
    MaxBlocks = 6
    MaxRaises = 3
SPECIFICATION FairSpec
INVARIANTS
    VectorsInvariant
    CascadeFollows
    InterruptsEnd
PROPERTIES
    IrqsHandled
CHECK_DEADLOCK FALSE
