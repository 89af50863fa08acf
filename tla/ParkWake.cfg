SPECIFICATION PWSpec
CONSTANTS
    Harts = {0, 1}
    NoHart = 2
    TimerHarts = {}
    MaxTime = 0
    ResetCmp <- MCResetCmp
    BootMTIE = FALSE
    CounterWrap = 1
    Tests <- P4Tests
PROPERTIES CallsAreFresh StoresInOwnTest ResultsAreGenuine FirstWakeRuns WorkersReturn
CHECK_DEADLOCK FALSE
