SPECIFICATION Spec
CONSTANTS
    TREEBIN_SHIFT = 6
    PAGE_SIZE = 128
    granularity = 512
    mmap_threshold = 768
    trim_threshold = 600
    MAX_RELEASE_CHECK_RATE = 2
    MAX_SIZE_T = 65535
    Arena = 2560
    Places <- MCPlaces
    Sizes <- MCSizes
    Products <- MCProducts
    Alignments <- MCAlignments
    MaxLive = 6
    MaxCalls = 3
    Scripts <- MCScripts
INVARIANTS
    HeapInvariant
    
    BestFitFound
    ServedIfItFits
CHECK_DEADLOCK FALSE
