SPECIFICATION Spec
CONSTANTS
  CONNECT_TIMEOUT = 3
  RETRY_MIN = 2
  RETRY_MAX = 5
  PROBE = 2
  STABLE = 2
  MAX_FAULTS = 3

PROPERTY FailuresBackOff
CHECK_DEADLOCK FALSE
