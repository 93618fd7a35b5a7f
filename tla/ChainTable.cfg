\* Four words a sector: the FAT of ten sectors takes four and has a DIFAT
\* sector. Runs begin and end everywhere in the sectors of the table.
CONSTANTS
    MiniSize = 1
    SecSize = 4
    Cutoff = 4
    Words = 4096
    V3 = FALSE
    SizeMaxV3 = 0
    DirentSize = 2
    InlineDIFAT = 2
    PrefixSectors <- SmallPrefixes
    Candidates <- SmallCandidates
    RunLists <- SomeLists
SPECIFICATION TableSpec
INVARIANTS
    ReturnsEnough
    NeverTooMany
    TableAsWanted
PROPERTY Returns
CHECK_DEADLOCK FALSE
