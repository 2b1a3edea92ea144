SPECIFICATION ExchangeLiveSpec
CONSTANTS
  Handler = Handler
  Users = {u}
  NoFile = NoFile
  Settings <- MemorySettings
  RequestSize = 1
  MaxFrame = 2
  UserCalls = {"PAUSED", "RESUMED"}
  Chunkings <- MCChunkings
PROPERTIES
  ResumedGoesOn
CHECK_DEADLOCK FALSE
