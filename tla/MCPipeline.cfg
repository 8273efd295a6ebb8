SPECIFICATION Spec
CONSTANTS
  Streams <- AllStreams
  HandlerHeaders <- AllHeaders
  Statuses = {200}
  Chunks = {1}
  MaxOps = 2
  Catches = FALSE
  HeaderChunk = 3
  BodyReads = {1, 2}
  MaxHeader = 2
  MaxRestarts <- SomeRestarts
CHECK_DEADLOCK FALSE
INVARIANTS
  BodyAccounting
  InOrder
  ConnHeaderTruthful
PROPERTIES
  Converses
  IdleConnEnds
  BodyBytesOnly
  RawIsLast
  CutHeadIsLast
