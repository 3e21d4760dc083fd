SPECIFICATION OutputSpec
CONSTANTS
  SLOTS = 2
  MAX_EXCHANGE = 2
  LEAD = 10
  MAX_TIME = 5
  MAX_PROBES = 3
  Steps = {0, 1, 6}
  Paths <- MCPaths
  Clocks = {0, 10}
  HISTORY = 5
  CAP = 4
  KNOWN = 2
  SELECTED = 2
  CONVERGED = 2
  RUN = 3
  RUN_CAP = 4
  SPAN = 1
  RUN_SPAN = 4
  DELAY_SLACK = 3
  OFFSET_SLACK = 1
  PHASE_NEAR = 1
  DELAY_NEAR = 1
  HOLDOVER = 4
  FLOOR = 0
  MAX_COUNT = 5
  MAX_SCHEDULED = 2
  NONE = NONE
  s1 = s1
  p1 = p1
  f1 = f1
  SESSIONS <- MCSessions
  PARTS <- MCParts
  FORMATS <- MCFormats
  FALLBACK = 5
  SETTLE = 20
  THRESHOLD = 15
  CONFIRMATIONS = 3
  STALE = 6
  ALIGNED = 2
  Formats <- DeckFormats
  Rates <- DeckRates
  UNIT = 4
  NANOS = 10
  MAX_FRAMES = 3000
  ORIGIN = 7
  WALK = 20000
  ELAPSED = 20
  Views <- MCViews
  Updates <- MCUpdates
  FRAME = 120
  END = 40
  LAST = 13
  LATE = 1
  RING = 3
  MINIMUM = 2
  GAP = 2
INVARIANTS ExchangesSound BoundsAreHonest LabelsCount AdvanceExact BoundaryIsFirst UncertaintyCovers TargetWithinAFrame
PROPERTIES SpikesNeverMove PathsReacquire
CHECK_DEADLOCK FALSE
