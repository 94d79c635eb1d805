SPECIFICATION MCSpec
CONSTANTS
    JobObjects = {j1, j2, j3}
    Marks = {m1, m2}
    MaxSets = 4
    Flows = {1, 2, 3}
    MTU = 1
    packet_weight = 1
    MAX_TIME = 5
    NoFlow = NoFlow
INVARIANTS LinkedJobs MostRecentFirst SendsFirst
PROPERTIES SyncCompletes NoStarvation
CHECK_DEADLOCK FALSE
