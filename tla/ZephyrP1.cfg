SPECIFICATION ZSpec
CONSTANTS
    N = 16
    PoolBase = 256
    NumTables = 8
    ImageStart = 256
    ImageSize = 15
    MapCalls = {}
    UnmapCalls = {}
    RawCalls = {}
    EditCalls = {}
    Watched <- MCWatched
    VmPages = {272, 273}
    MaxTests <- MCMaxTests
INVARIANTS ZP1Sound ModeIsHardwares NoStaleExpectation
PROPERTY ZP1Ends
CHECK_DEADLOCK FALSE
