\* Version 3: the header does not count the directory's sectors.
CONSTANTS
    MiniSize = 2
    SecSize = 4
    Cutoff = 8
    Words = 64
    V3 = TRUE
    SizeMaxV3 = 40
    DirentSize = 2
    InlineDIFAT = 1
    ProbeThreshold = 24
    Quads = 65536
    BufMax = 8
    Faulty = TRUE
    Files <- DamagedFiles
SPECIFICATION FairSpec
INVARIANTS
    SlicesFit
    LoadsWhatIsThere
    ReadsBounded
PROPERTY
    Returns
CHECK_DEADLOCK FALSE
