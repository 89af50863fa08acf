SPECIFICATION P2Spec
CONSTANTS
    Harts = {0}
    Core0 = 0
    NoHart = 2
    TimerHarts = {0}
    MaxTime = 8
    ResetCmp <- MCResetCmp
    BootMTIE = FALSE
    CounterWrap = 6
INVARIANTS P2Sound
PROPERTIES P2Ends TimerPends IrqAcknowledged
CHECK_DEADLOCK FALSE
