SPECIFICATION WebSpec
CONSTANTS
  Plans <- MCPlans
  STREAM_CAP = 3
  HELD = 2
  GRACE = 1
  BUDGET = 3
  OPERATIONS = 3
  CAPSULE = 2
  MESSAGE_LIMIT = 10
INVARIANTS StreamsSorted AbandonedIsClosed CapsuleAgrees
PROPERTIES HandshakeSettles StreamsArrive CloseEnds
CHECK_DEADLOCK FALSE
