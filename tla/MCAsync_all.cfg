SPECIFICATION AsyncLiveSpec
CONSTANTS
  Requests = {r1, r2, r3}
  NONE = NONE
  DefaultMax = 1
  Limits = {0, 255}
  StopAtOnce = TRUE
INVARIANTS
  AsyncTypeOK
  CounterIsKeptMinusEnded
  SpinHasACause
  PassedIsPrefix
PROPERTIES
  OneResumePerPass
  ImplementsPool
  CoroutinesReturn
  StopReturnsAtTopLimit
