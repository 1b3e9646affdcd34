CONSTANTS
    idle = idle
    a = a
    b = b
    c = c
    NULL = NULL
    Timer <- MCTasks
    Idle = idle
    Word = 5
    MaxTsc = 1
    Delay <- MCDelays
    NestWord = 3
    Barging = FALSE
SPECIFICATION MutexFairSpec
INVARIANTS
    MutexInvariant
    MutualExclusion
    NeverPanics
PROPERTIES
    IsFairLock
    IsScheduler
    WaitersLock
CHECK_DEADLOCK FALSE
