SPECIFICATION FairSpec
CONSTANTS
    num_threads_hint <- HintDefault
    MAX_THREADS = 8
    Works = {w1, w2, w3}
    PipeCap = 2
    ReadSize = 1
    MORE = MORE
    NULL = NULL
INVARIANTS NoTouchAfterFree NoLostWakeup
PROPERTIES KeepsPromise EventuallyReported FreeReturns StopCompletes
