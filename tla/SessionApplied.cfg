SPECIFICATION Spec
CONSTANTS
  NONE = NONE
  s1 = s1
  s2 = s2
  p1 = p1
  f1 = f1
  SESSIONS <- OneSession
  PARTS <- MCParts
  FORMATS <- MCFormats
  MAX_SCHEDULED = 2
  FRAME = 50
  SPEED_NOISE = 1
  SPEED_MATCH = 3
  KIND = "Generated"
  HEARTBEAT = 2
  TRACKED_PUBLISH = 1
  SOURCE_TIMEOUT = 2
  SAMPLES <- NoSamples
  FALLBACK = 5
  SETTLE = 3
  THRESHOLD = 15
  CONFIRMATIONS = 2
  STALE = 2
  ALIGNED = 10
  COMMANDS <- PlayOnly
  TIMES <- AtThree
  START = 1
  MAX_TIME = 4
  MAX_COMMANDS = 1
  LOCAL_STARTS <- FromOne
  ENVIRONMENTS <- EitherWayEnvironment
PROPERTY AppliedStaysApplied
CHECK_DEADLOCK FALSE
