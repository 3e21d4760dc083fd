SPECIFICATION Spec
CONSTANTS
  NONE = NONE
  s1 = s1
  s2 = s2
  p1 = p1
  f1 = f1
  f2 = f2
  SESSIONS <- MCSessions
  PARTS <- MCParts
  FORMATS <- MCFormats
  MAX_SCHEDULED = 2
  FALLBACK = 5
  SETTLE = 3
  THRESHOLD = 15
  CONFIRMATIONS = 2
  STALE = 2
  ALIGNED = 2
  SNAPSHOTS <- MCSnapshots
  MEASUREMENTS <- MCMeasurements
  MAX_LOCAL = 6
  MAX_CALLS = 6
PROPERTIES SlewIsContinuous NeverBackwards SnapshotNeverRollsBack HardResyncConfirmed
CHECK_DEADLOCK FALSE
