SPECIFICATION Spec
CONSTANTS
  Streams <- HonestStreams
  HandlerHeaders <- UpgradeHeaders
  Statuses = {200}
  Chunks = {1}
  MaxOps = 3
  Catches = FALSE
  HeaderChunk = 3
  BodyReads = {1, 2}
  MaxHeader = 2
  MaxRestarts <- NoRestarts
CHECK_DEADLOCK FALSE
PROPERTIES
  RawReadReturns
