SPECIFICATION HeadSpec
CONSTANTS
  Inputs <- MCInputs
  ChunkSize = 2
  MaxHeader = 4
INVARIANTS
  SkippedHasNoBreak
PROPERTIES
  SplitsLines
CHECK_DEADLOCK FALSE
