CONSTANTS
    Bits <- MCBits
    MAX_LENGTH = 6
    VGA_ROWS = 3
    VGA_COLUMNS = 3
    Scripts <- MCScripts
SPECIFICATION Spec
INVARIANTS
    
    
    ScreenShowsTail
    ConsoleInvariant
CHECK_DEADLOCK FALSE
