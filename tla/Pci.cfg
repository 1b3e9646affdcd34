CONSTANTS
    MAX_SLOTS = 2
    MAX_FUNCTIONS = 3
    MAX_BUSES = 3
    Category <- MCCategory
    Machine <- MCMachine
SPECIFICATION PciFairSpec
INVARIANTS
    ScanInvariant
    ScanComplete
PROPERTIES
    ScanEnds
