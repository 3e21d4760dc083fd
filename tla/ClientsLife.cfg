SPECIFICATION ClientsSpec
CONSTANTS
  CONNECT_TIMEOUT = 3
  RETRY_MIN = 2
  RETRY_MAX = 5
  PROBE = 2
  STABLE = 2
  MAX_FAULTS = 3
  MAX_CLICKS = 3
  MAX_TROUBLES = 1
  c1 = c1
  c2 = c2
  c3 = c3
  c4 = c4
  leader = leader
  follower = follower
  CALLERS <- FourCallers
  JOBS <- TwoJobs
  LEADERS <- OneLeader
  PLANS <- MCPlans
  CAPACITY = 2
  BATCH = 1
INVARIANTS NeverAsleep MessagesBelong
PROPERTIES CallsReturn StallEnds Reconnects LastClickWins
CHECK_DEADLOCK FALSE
