\* What walkChain reserves for each of its callers.
CONSTANTS
    MiniSize = 1
    SecSize = 2
    Cutoff = 2
    Words = 11
    V3 = FALSE
    SizeMaxV3 = 0
    Tables <- SmallTables
    Quads = 64
    DefaultCap = 3
    MakeLimit = 8
SPECIFICATION Spec
INVARIANTS
    ReserveNeverPanics
CHECK_DEADLOCK FALSE
