CONSTANTS
    WordBits = 11
    FractionBits = 5
    Calibration <- MCCalibration
    WallClock = 3
    MaxTsc = 7
    MaxUpdates = 2
SPECIFICATION ClockSpec
INVARIANTS
    ClockInvariant
    DelaysKept
CHECK_DEADLOCK FALSE
