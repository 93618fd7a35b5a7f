\* Version 3 proportions: a cutoff of two sectors; the underlying writer may fail;
\* callers may retry and go on with the other stream.
CONSTANTS
    s1 = s1
    s2 = s2
    d1 = d1
    root = root
    NoOne = NoOne
    MiniSize = 2
    SecSize = 4
    Cutoff = 8
    Words = 64
    Streams = {s1, s2}
    Storages = {d1}
    Root = root
    Parent <- SmallParent
    Name <- SmallName
    WriteSizes = {5, 8}
    MaxSize = 16
    V3 = TRUE
    SizeMaxV3 = 15
    Faulty = TRUE
SPECIFICATION FairSpec
INVARIANTS
    TypeOK
    FlushMultiple
    SectorAligned
    SectorsDisjoint
PROPERTIES
    ImplementsByteStreams
    CallsReturn
CHECK_DEADLOCK FALSE
