SPECIFICATION NetFairSpec
CONSTANTS
    Settings <- SteadyPair
    UpCap = 1
    GONE = GONE
    NULL = NULL
PROPERTIES ResetEnds
CHECK_DEADLOCK FALSE
