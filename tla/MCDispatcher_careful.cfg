SPECIFICATION DispLiveSpec
CONSTANTS
  Requests = {a, b}
  NONE = NONE
  GONE = GONE
  Runner = Runner
  Async = Async
  Workers = {}
  OutOfQueue = {}
  Unsupported = {}
  InvalidUrl = {b}
  Limits = {50, 255}
  UserHalts = {}
  Careful = TRUE
INVARIANTS
  NoDanglingIterator
  ActiveIsHandled
  NothingRunsAfterStop
  NothingEndedIsRequeued
  RunnerNeverLocksTwice
PROPERTIES
  RequestsSettle
  StopReturns
  RunReturns
