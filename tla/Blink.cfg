SPECIFICATION Spec
CONSTANTS
    Step = 100
    Max = 1000
    Wrap = 65536
    BootPeriods <- MCBootPeriods
INVARIANT LedFollows
PROPERTY KeepsBlinking
CHECK_DEADLOCK FALSE
