SPECIFICATION WebSpec
CONSTANTS
  Plans <- RefusedPlans
  STREAM_CAP = 3
  HELD = 2
  GRACE = 1
  BUDGET = 3
  OPERATIONS = 3
  CAPSULE = 2
  MESSAGE_LIMIT = 10
PROPERTIES RefusedForTheControl
CHECK_DEADLOCK FALSE
