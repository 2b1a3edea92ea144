SPECIFICATION AsyncLiveSpec
CONSTANTS
  Requests = {r1, r2}
  NONE = NONE
  DefaultMax = 50
  Limits = {}
  StopAtOnce = FALSE
PROPERTIES
  StopReturns
CHECK_DEADLOCK FALSE
