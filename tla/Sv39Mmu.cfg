SPECIFICATION Spec
CONSTANTS
    N = 4
    PoolBase = 16
    NumTables = 8
    ImageStart = 16
    ImageSize = 8
    MapCalls <- MCMapCalls
    UnmapCalls <- MCUnmapCalls
    RawCalls <- MCRawCalls
    EditCalls <- MCEditCalls
    Watched <- MCWatched
INVARIANTS TableTree NeverFatal TablesReachable TlbCoherent
PROPERTY FlatSpec
