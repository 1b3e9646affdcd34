CONSTANTS
    Limit = 3
    PageBits = 2
    KernelEnd = 10
    AddressLimit = 64
    KERNEL_MEMORY_PAGES = 16
    PageStruct = 1
    BootInfo <- MCBootInfo
SPECIFICATION Spec
INVARIANTS
    BootInvariant
    PoolIsFreeRam
    VaddrsAreUnmapped
CHECK_DEADLOCK FALSE
