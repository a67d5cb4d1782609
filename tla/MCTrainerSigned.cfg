SPECIFICATION Spec
CONSTANTS
  None = None
  Unit = {}
  Inventories <- SignedInventories
  Added = {}
  Special <- NoSpecial
  Bytes <- WideVocab
  Window = 0
  TieBreak = "SmallestPairId"
  CutoffFreq = 0
  Targets <- SignedTargets
  MaxVocab = 6
  MaxAdds = 0
INVARIANT SelectedFreqIsRemoved
