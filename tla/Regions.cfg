CONSTANTS
    RgId = {0, 1, 2}
    PAGESZ = 2
    MaxSize = 3
    MaxBrk = 8
SPECIFICATION RegionsSpec
CHECK_DEADLOCK FALSE
INVARIANTS
    RegionsTypeOK
    EachByteOnce
    Coalesced
    GrowthSuffices
    AccessStaysInside
