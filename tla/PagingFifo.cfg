CONSTANTS
    Proc = {p1, p2}
    NPage = 3
    NRam = 2
    NSwp = 1
    Val = {v1, v2}
    Zero = v1
    NULL = NULL
SPECIFICATION PagingSpec
CHECK_DEADLOCK FALSE
PROPERTY FifoKeepsOrder
