SPECIFICATION Spec
CONSTANTS
    N = 3
    SramSlot = 1
    PoolBase = 10
    PoolPages = 4
    MapCalls <- MCMapCalls
    Accesses <- MCAccesses
    CounterWrap = 4
    Watched <- MCWatched
INVARIANT FixedOnce
PROPERTIES NoSpuriousFault ReachesItsFrame FixIsLocal AccessEnds
CHECK_DEADLOCK FALSE
