\* Two calls of AddFS with all pairs of six file systems; everything may fail.
CONSTANTS
    c1 = c1
    c2 = c2
    Names <- SomeNames
    Dot = 0
    DotDot = 1
    Rank <- SomeRank
    Callers = {c1, c2}
    Sources <- SomeSources
    Chunk = 2
    Faulty = TRUE
SPECIFICATION AddFSSpec
INVARIANTS
    CopiesAll
    SealedIsWhole
    ListedOnce
    ListedOpens
CHECK_DEADLOCK FALSE
