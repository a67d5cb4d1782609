SPECIFICATION Spec
CONSTANTS
  None = None
  Unit = {}
  Inventories <- HotInventories
  Added <- OtherInventory
  Special <- NoSpecial
  Bytes <- WideVocab
  Window = 1
  TieBreak = "SmallestPairId"
  CutoffFreq = 2
  Targets <- HotTargets
  MaxVocab = 9
  MaxAdds = 1
INVARIANT FrequenciesExact
INVARIANT OccurrencesComplete
INVARIANT ColdWinnerIsRanked
INVARIANT ThresholdIsSet
INVARIANT WindowIsBounded
PROPERTY LearnsTheBest
