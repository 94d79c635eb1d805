SPECIFICATION Spec
CONSTANTS
  NULL = NULL
  Settings <- CancelledOnly
PROPERTIES AscendingIds
CHECK_DEADLOCK FALSE
