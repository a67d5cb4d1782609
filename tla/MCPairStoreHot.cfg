SPECIFICATION StoreSpec
CONSTANTS
  None = None
  Id <- MCId
  Pair <- MCPair
  UnitKey <- MCUnitKey
  Content <- MCContent
  WordId <- MCWordId
  Window = 1
  TieLess <- SmallestPairId
  CountFreq <- MCCountFreq
  Freq <- MCFreq
  Delta <- MCDelta
INVARIANT StoreTypeOK
INVARIANT FrontierCovers
INVARIANT WinnerIsGlobal
INVARIANT ResidencyAgrees
INVARIANT ColdWinnerIsRanked
PROPERTY NoneMeansExhausted
PROPERTY SearchEnds
