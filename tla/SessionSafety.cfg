SPECIFICATION Spec
CONSTANTS
  NONE = NONE
  s1 = s1
  s2 = s2
  p1 = p1
  f1 = f1
  SESSIONS <- TwoSessions
  PARTS <- MCParts
  FORMATS <- MCFormats
  MAX_SCHEDULED = 2
  FRAME = 50
  SPEED_NOISE = 1
  SPEED_MATCH = 3
  KIND = "Generated"
  HEARTBEAT = 2
  TRACKED_PUBLISH = 1
  SOURCE_TIMEOUT = 2
  SAMPLES <- NoSamples
  FALLBACK = 5
  SETTLE = 3
  THRESHOLD = 15
  CONFIRMATIONS = 2
  STALE = 2
  ALIGNED = 10
  COMMANDS <- PlayPause
  TIMES <- SoonTimes
  START = 2
  MAX_TIME = 4
  MAX_COMMANDS = 2
  LOCAL_STARTS <- EitherSide
  ENVIRONMENTS <- SafetyEnvironments
SYMMETRY Anonymous
INVARIANTS InStep AlignedIsHonest
PROPERTIES Replicates LeaderNeverRefused
CHECK_DEADLOCK FALSE
