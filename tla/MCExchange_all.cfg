SPECIFICATION ExchangeLiveSpec
CONSTANTS
  Handler = Handler
  Users = {u}
  NoFile = NoFile
  Settings <- AllSettings
  RequestSize = 2
  MaxFrame = 2
  UserCalls = {"PAUSED", "RESUMED", "CANCELED"}
  Chunkings <- MCChunkings
INVARIANTS
  ExchangeTypeOK
  MemoryIsPrefix
  OneOutcome
  CarefulFileHoldsWhatWasRead
  NoRemains
  NoNullStream
  OutcomeUnlessHalted
PROPERTIES
  ExchangeEnds
  ImplementsTransfer
\* The exchange stops when it has ended.
CHECK_DEADLOCK FALSE
