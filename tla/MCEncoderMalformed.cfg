SPECIFICATION Spec
CONSTANTS
  Caller = {c1}
  Utf8 <- MalformedUtf8
  Models <- MalformedModels
  Inputs <- MalformedTexts
  MinByteSplit = 3
  MaxCalls = 2
INVARIANT BatchKeepsIds
CHECK_DEADLOCK FALSE
