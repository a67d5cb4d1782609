SPECIFICATION Spec
CONSTANTS
  None = None
  Unit = {}
  Inventories <- ExactInventories
  Added = {}
  Special <- NoSpecial
  Bytes <- ByteVocab
  Window = 0
  TieBreak = "LargestContent"
  CutoffFreq = 0
  Targets <- ExactTargets
  MaxVocab = 7
  MaxAdds = 0
INVARIANT SelectedFreqIsRemoved
PROPERTY LearnsTheBest
