SPECIFICATION P1Spec
CONSTANTS
    N = 8
    SramSlot = 2
    PoolBase = 130
    PoolPages = 8
    MapCalls = {}
    Accesses = {}
    CounterWrap = 4
    Watched <- MCWatched
INVARIANT P1Sound
