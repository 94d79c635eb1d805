SPECIFICATION Spec
CONSTANTS
    NULL = NULL
    ChatCap = 2
    FlowCap = 2
    MaxSeeds = 2
    MaxTroubles = 2
    Configs <- MCConfigs
INVARIANTS QuietLinked SeedsAgree
CHECK_DEADLOCK FALSE
