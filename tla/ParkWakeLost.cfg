SPECIFICATION PWSpec
CONSTANTS
    Harts = {0, 1}
    NoHart = 2
    TimerHarts = {}
    MaxTime = 0
    ResetCmp <- MCResetCmp
    BootMTIE = FALSE
    CounterWrap = 1
    Tests <- TwoWriters
PROPERTY ForgetsOnlyWhatItRan
CHECK_DEADLOCK FALSE
