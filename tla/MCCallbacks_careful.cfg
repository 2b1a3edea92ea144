SPECIFICATION CallbacksSpec
CONSTANTS
  Threads = {"handler", "user"}
  Begins <- MCBegins
  Inside = {"PAUSED"}
  Objects = {"o", "p"}
  Offers <- MCOffers
  Careful = TRUE
  MaxAnnounced = 2
  MaxRegistered = 3
  MaxDepth = 2
INVARIANTS
  CallbacksTypeOK
  EachDueOnce
  NothingUndefined
\* A client that has made its calls does nothing more.
CHECK_DEADLOCK FALSE
