SPECIFICATION Spec
CONSTANTS
  NONE = NONE
  s1 = s1
  p1 = p1
  p2 = p2
  f1 = f1
  SESSIONS <- MCSessions
  PARTS <- MCParts
  FORMATS <- MCFormats
  MAX_SCHEDULED = 2
  FRAME = 50
  SPEED_NOISE = 1
  SPEED_MATCH = 3
  KIND = "Tracked"
  HEARTBEAT = 3
  TRACKED_PUBLISH = 1
  SOURCE_TIMEOUT = 2
  COMMANDS <- Seeks
  TIMES <- MCTimes
  SAMPLES <- MCSamples
  START = 0
  MAX_TIME = 4
  MAX_COMMANDS = 4
PROPERTY FreshNames
CHECK_DEADLOCK FALSE
