SPECIFICATION RwSpec
CONSTANTS
  Streams <- MCStreams
  HandlerHeaders <- MCHeaders
  Statuses = {200, 508}
  Chunks = {1, 3}
  MaxOps = 4
  Catches = FALSE
CHECK_DEADLOCK FALSE
INVARIANTS
  NoOverrun
  OneHead
  ExchangeComplete
  UnframedEndsConn
PROPERTIES
  SilentAfterTear
