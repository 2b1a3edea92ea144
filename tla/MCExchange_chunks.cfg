SPECIFICATION ExchangeSpec
CONSTANTS
  Handler = Handler
  Users = {u}
  NoFile = NoFile
  Settings <- ChunkSettings
  RequestSize = 1
  MaxFrame = 2
  UserCalls = {}
  Chunkings <- MCChunkings
INVARIANTS
  DoneMeansComplete
CHECK_DEADLOCK FALSE
