SPECIFICATION Spec
CONSTANTS
  Caller = {c1}
  Utf8 <- TwoUtf8
  Models <- FragmentModels
  Inputs <- FragmentTexts
  MinByteSplit = 3
  MaxCalls = 2
INVARIANT SplitKeepsIds
CHECK_DEADLOCK FALSE
