SPECIFICATION DispLiveSpec
CONSTANTS
  Requests = {a}
  NONE = NONE
  GONE = GONE
  Runner = Runner
  Async = Async
  Workers = {}
  OutOfQueue = {}
  Unsupported = {}
  InvalidUrl = {}
  Limits = {50, 255}
  UserHalts = {}
  Careful = FALSE
PROPERTIES
  StopReturns
