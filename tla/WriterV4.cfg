\* Version 4 proportions: the cutoff is one sector; a nested storage; DIFAT sectors.
CONSTANTS
    s1 = s1
    s2 = s2
    s3 = s3
    d1 = d1
    root = root
    NoOne = NoOne
    MiniSize = 2
    SecSize = 4
    Cutoff = 4
    Words = 4096
    DirentSize = 2
    InlineDIFAT = 1
    ProbeThreshold = 0
    Quads = 65536
    Streams = {s1, s2, s3}
    Storages = {d1}
    Root = root
    Parent <- DeepParent
    Name <- DeepName
    WriteSizes = {2, 3, 5}
    MaxSize = 5
    V3 = FALSE
    SizeMaxV3 = 13
    Faulty = TRUE
SPECIFICATION WriterSpec
INVARIANTS
    RoundTrip
    EverySectorOnce
    LayoutFits
CHECK_DEADLOCK FALSE
