SPECIFICATION Spec
CONSTANTS
  None = None
  Utf8 <- MCUtf8
  Blank <- MCBlank
  Space <- sp
  Newline <- nl
  Escaped <- MCEscaped
  OpenBox <- box
  Braces <- MCBraces
  Corpora <- MCCorpora
  Setups <- MCSetups
  Trained <- MCTrained
INVARIANT SavedModelLoads
INVARIANT NoMixtureLoads
INVARIANT TrainsOnStoredCounts
