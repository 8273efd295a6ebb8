SPECIFICATION Spec
CONSTANTS
  Streams <- HonestStreams
  HandlerHeaders <- PlainHeaders
  Statuses = {200}
  Chunks = {1}
  MaxOps = 1
  Catches = FALSE
  HeaderChunk = 3
  BodyReads = {1, 2}
  MaxHeader = 2
  MaxRestarts <- NoRestarts
CHECK_DEADLOCK FALSE
INVARIANTS
  NoSpuriousReject
