CONSTANTS
    Proc = {p1, p2}
    NPage = 3
    NRam = 2
    NSwp = 2
    Val = {v1, v2}
    Zero = v1
    NULL = NULL
SPECIFICATION PagingSpec
CHECK_DEADLOCK FALSE
INVARIANTS
    PagingTypeOK
    FramesExclusive
    FramesConserved
    FifoInRam
    AreaMapped
PROPERTY ValuesSurvive
