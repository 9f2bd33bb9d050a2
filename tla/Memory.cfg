CONSTANTS
    RgId = {r1, r2}
    PAGESZ = 2
    MaxSize = 3
    MaxBrk = 100
    BUS_WIDTH = 3
    RamSize = 5
    SwpSize = 4
    Sizes <- MCSizes
    MaxWrites = 1
    Unknown = Unknown
SYMMETRY MCSymmetry
SPECIFICATION MemorySpec
CHECK_DEADLOCK FALSE
INVARIANTS
    MemoryTypeOK
    BytesSurvive
    EachFrameOnce
    MappedUpToSbrk
