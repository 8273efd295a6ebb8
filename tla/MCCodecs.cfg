SPECIFICATION CodecsSpec
CONSTANTS
  MaxPieces = 3
  Texts <- MCTexts
  Requests <- MCRequests
  Keys <- MCKeys
  Params <- MCParams
  MaxParams = 2
  JsonTexts <- MCJsonTexts
  Scalars <- MCScalars
  JsonKeys <- MCJsonKeys
  MaxNodes = 4
  FirstBytes <- MCFirstBytes
  PayloadSizes <- MCPayloadSizes
  MaxMessage = 200
CHECK_DEADLOCK FALSE
INVARIANTS
  SearchReadsBack
  CookiesReadBack
  UrlReadsBack
  HrefReadsBack
  CredentialsReadBack
  JsonReadsBack
  JsonParsesWritten
  HeaderWhenWhole
  BlocksPadded
