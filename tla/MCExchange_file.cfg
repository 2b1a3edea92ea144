SPECIFICATION ExchangeSpec
CONSTANTS
  Handler = Handler
  Users = {u}
  NoFile = NoFile
  Settings <- FileSettings
  RequestSize = 1
  MaxFrame = 2
  UserCalls = {"PAUSED", "RESUMED"}
  Chunkings <- MCChunkings
INVARIANTS
  FileHoldsWhatWasRead
CHECK_DEADLOCK FALSE
