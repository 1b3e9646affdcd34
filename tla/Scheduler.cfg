CONSTANTS
    idle = idle
    a = a
    b = b
    c = c
    NULL = NULL
    Timer <- MCFourTasks
    Idle = idle
    Word = 8
    MaxTsc = 3
    Delay <- MCDelays
SPECIFICATION FairSpec
INVARIANTS
    SchedulerSound
    IdleHaltsOnlyAlone
PROPERTIES
    NoSleeperLost
    RoundRobin
    IsTimerService
    EveryReadyTaskRuns
    SleepersWake
CHECK_DEADLOCK FALSE
