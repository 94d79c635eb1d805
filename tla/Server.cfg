SPECIFICATION MCSpec
CONSTANTS
    Settings <- AllSettings
    UpCap = 1
    GONE = GONE
    NULL = NULL
INVARIANTS PairsConsistent ResetArmed JobsFindClients BurstFits IdsUnique NoDoubleAccept AcceptsAnswered
PROPERTIES HistoryWellFormed
CHECK_DEADLOCK FALSE
