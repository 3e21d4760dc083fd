SPECIFICATION EndpointSpec
CONSTANTS
  c1 = c1
  c2 = c2
  Conns = {c1, c2}
  Plans <- MCPlans
  OPERATIONS = 1
  BATCH = 2
  RECEIVES = 2
  OUT = 1
  ROOM = 1
  WINDOW = 1
  HEADER = 2
  MAX_CREDIT = 4
INVARIANT NothingStranded
PROPERTIES EveryoneServed EndsAsMeant FinishedArrives
CHECK_DEADLOCK FALSE
