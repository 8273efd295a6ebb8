SPECIFICATION Spec
CONSTANTS
  MaxPieces = 1
  Texts <- MCTexts
  Requests <- MCRequests
  Keys <- MCKeys
  Params <- MCParams
  MaxParams = 2
CHECK_DEADLOCK FALSE
PROPERTIES
  TargetKeepsPath
