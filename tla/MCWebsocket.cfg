SPECIFICATION WsSpec
CONSTANTS
  Peers <- MCPeers
  MaxFrameHeader = 16
  ReadChunk = 4
  BodyChunk = 6
  MaxSends = 3
CHECK_DEADLOCK FALSE
INVARIANTS
  NeverClogged
  CloseIsLast
PROPERTIES
  DeliversFrames
  NoReadPastFrame
