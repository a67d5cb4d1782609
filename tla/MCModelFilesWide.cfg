SPECIFICATION Spec
CONSTANTS
  None = None
  Utf8 <- MCUtf8
  Blank <- MCBlank
  Space <- sp
  Newline <- nl
  Escaped <- MCEscaped
  OpenBox <- box
  Braces <- MCBraces
  Corpora <- WideCorpora
  Setups <- MCSetups
  Trained <- WideTrained
INVARIANT SavedModelLoads
