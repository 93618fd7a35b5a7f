\* A file system, such as a Reader, with a storage named ".".
CONSTANTS
    c1 = c1
    c2 = c2
    Names <- SomeNames
    Dot = 0
    DotDot = 1
    Rank <- SomeRank
    Callers = {c1}
    Sources <- DotSources
    Chunk = 2
    Faulty = FALSE
SPECIFICATION AddFSSpec
INVARIANT KeepsStructure
CHECK_DEADLOCK FALSE
