\* Version 3 proportions; the DIFAT grows beyond the header; every step may fail.
CONSTANTS
    s1 = s1
    s2 = s2
    s3 = s3
    d1 = d1
    root = root
    NoOne = NoOne
    MiniSize = 2
    SecSize = 4
    Cutoff = 8
    Words = 4096
    DirentSize = 2
    InlineDIFAT = 2
    ProbeThreshold = 0
    Quads = 65536
    Streams = {s1, s2}
    Storages = {}
    Root = root
    Parent <- FlatParent
    Name <- FlatName
    WriteSizes = {3, 8}
    MaxSize = 14
    V3 = TRUE
    SizeMaxV3 = 14
    Faulty = TRUE
SPECIFICATION WriterSpec
INVARIANTS
    RoundTrip
    RangeReads
CHECK_DEADLOCK FALSE
