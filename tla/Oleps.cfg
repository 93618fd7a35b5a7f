\* Decimal bytes: two, four and eight of them hold every number the lists need.
CONSTANTS
    Base = 10
    cpWinUnicode = 12
    Unmapped <- SomeUnmapped
    High <- SomeHigh
    Low <- SomeLow
    TicksPerSec = 8
    NanosPerTick = 2
    Streams <- SomeStreams
    Places <- SomePlaces
    Damages <- SomeDamages
SPECIFICATION Spec
INVARIANTS
    RoundTrip
    TruncationIsEOF
    StaysInSet
    PacketsApart
    ResultsMarshal
CHECK_DEADLOCK FALSE
