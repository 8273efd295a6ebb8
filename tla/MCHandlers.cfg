SPECIFICATION HandlersSpec
CONSTANTS
  Streams <- MCStreams
  HandlerHeaders <- MCHeaders
  Statuses = {200, 204, 206, 302, 304, 308, 404, 405, 416}
  Chunks = {0, 1, 2, 3}
  MaxOps = 4
  Catches = FALSE
  Files <- MCFiles
  Dirs <- MCDirs
  Requests <- MCRequests
  Sizes = {0, 1, 3}
  MaxVersion = 3
  OneShot = 3
CHECK_DEADLOCK FALSE
INVARIANTS
  EventsPassThrough
  StreamEnded
  StaticFramed
  BodyNotOlder
  RedirectsSettle
  RangeAsAsked
