SPECIFICATION Spec
CONSTANTS
  NULL = NULL
  Settings <- DeployedOnly
INVARIANTS Tolerates
CHECK_DEADLOCK FALSE
