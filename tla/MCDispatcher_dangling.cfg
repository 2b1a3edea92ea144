SPECIFICATION DispSpec
CONSTANTS
  Requests = {a, b}
  NONE = NONE
  GONE = GONE
  Runner = Runner
  Async = Async
  Workers = {w}
  OutOfQueue = {b}
  Unsupported = {}
  InvalidUrl = {}
  Limits = {}
  UserHalts = {}
  Careful = TRUE
INVARIANTS
  NoDanglingIterator
