CONSTANTS
    t1 = t1
    t2 = t2
    t3 = t3
    NULL = NULL
    Timer <- MCTimers
    Word = 5
    MaxTsc = 4
    Deadline <- MCDeadlines
    TimerDelay <- MCDelays
SPECIFICATION TimersFairSpec
INVARIANTS
    TimersInvariant
PROPERTIES
    FifoAmongEqualDeadlines
    IsAlarmClock
    DueTimerFires
