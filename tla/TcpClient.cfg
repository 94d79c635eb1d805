SPECIFICATION FairSpec
CONSTANTS
    TCP_WND = 3
    TCP_SND_BUF = 2
    RECV_BUF = 3
    MaxUp = 5
    MaxDown = 5
    NULL = NULL
INVARIANTS Ownership AbortReported WindowFits BothWaysMove EndsInOrder
PROPERTIES EventuallyFreed
CHECK_DEADLOCK FALSE
