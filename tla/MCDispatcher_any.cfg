SPECIFICATION DispSpec
CONSTANTS
  Requests = {a, b, d}
  NONE = NONE
  GONE = GONE
  Runner = Runner
  Async = Async
  Workers = {w1, w2}
  OutOfQueue = {b, d}
  Unsupported = {d}
  InvalidUrl = {}
  Limits = {}
  UserHalts = {a}
  Careful = FALSE
INVARIANTS
  DispTypeOK
  NeverLost
  PlacesDisjoint
  TakeIsSafe
  NoneAdmittedBehindStop
  ErrorsStoredOnce
CHECK_DEADLOCK FALSE
SYMMETRY Interchangeable
