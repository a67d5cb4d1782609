SPECIFICATION Spec
CONSTANTS
  Caller = {c1, c2}
  Utf8 <- TwoUtf8
  Models <- AllModels
  Inputs <- Texts
  MinByteSplit = 3
  MaxCalls = 2
INVARIANT EncoderTypeOK
INVARIANT ResultsAreGreedy
INVARIANT CacheIsExact
INVARIANT NothingIsLost
INVARIANT DecodesToInput
PROPERTY CallsReturn
CHECK_DEADLOCK FALSE
