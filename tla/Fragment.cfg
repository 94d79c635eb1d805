SPECIFICATION Spec
CONSTANTS
  NULL = NULL
  Settings <- AllSettings
INVARIANTS Unmixed RoomToReorder AgesTrue FlushArmed
CHECK_DEADLOCK FALSE
