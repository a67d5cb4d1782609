SPECIFICATION FallbackSpec
CONSTANTS
  None = None
  Unit <- ThreeScalars
  Utf8 <- ScalarBytes
  Inventories <- FallbackInventories
  Added = {}
  Special <- EndOfText
  Bytes <- AsciiAndBytes
  Window = 1
  TieBreak = "SmallestPairId"
  CutoffFreq = 2
  Targets <- FallbackTargets
  Shares <- FallbackShares
  MaxVocab = 11
  MaxAdds = 0
INVARIANT TypeOK
INVARIANT UnitsBeforePairs
INVARIANT FinalMergeIsRarest
INVARIANT ComposedValidates
INVARIANT EncodesAsTrained
PROPERTY FillsTarget
PROPERTY ClosedForGood
PROPERTY LearnsTheBestLeft
PROPERTY FallbackReturns
CHECK_DEADLOCK FALSE
