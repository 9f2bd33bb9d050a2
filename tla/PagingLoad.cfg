CONSTANTS
    Proc = {p1, p2}
    NPage = 2
    NRam = 1
    NSwp = 1
    Val = {v1, v2}
    Zero = v1
    NULL = NULL
SPECIFICATION PagingSpec
CHECK_DEADLOCK FALSE
PROPERTY PageComesBack
