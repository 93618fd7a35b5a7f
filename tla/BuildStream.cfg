\* Every table of four words, walked from every sector, and every stream in it.
CONSTANTS
    MiniSize = 2
    SecSize = 4
    Cutoff = 8
    Words = 11
    V3 = FALSE
    SizeMaxV3 = 0
    Tables <- AllTables
    Quads = 32
    DefaultCap = 3
    MakeLimit = 8
    Chains <- AllChains
    MiniStreams <- ShortMiniStreams
SPECIFICATION BuildSpec
INVARIANTS
    TypeOK
    ReturnsChain
    NoSectorTwice
    RefusesOnlyBad
    RunsCover
    RunsAddress
    BytesApart
CHECK_DEADLOCK FALSE
