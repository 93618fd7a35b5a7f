\* Directories of three entries, and of four where the types are given.
CONSTANTS
    NoStream = 9
    Directories <- AllDirectories
SPECIFICATION Spec
INVARIANTS
    DepthBounded
    AcceptsProper
    ListsInOrder
PROPERTY
    Ends
CHECK_DEADLOCK FALSE
