SPECIFICATION FairSpec
CONSTANTS
    Harts = {h0, h1}
    NoHart = NoHart
    TimerHarts = {h0}
    MaxTime = 1
    ResetCmp <- MCResetCmp
    BootMTIE = FALSE
    CounterWrap = 1
INVARIANTS TypeOK TimerFaithful IpiNotLost HandlerMasked
PROPERTY IpiPends
