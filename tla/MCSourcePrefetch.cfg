SPECIFICATION Spec
CONSTANTS
  Word = {"a", "b"}
  Sources <- MCSources
  Before <- MCBefore
  MaxRecords = 2
  MaxBytes = 3
  MaxFreq = 3
INVARIANT OutcomeIsSequential
INVARIANT LookaheadIsBounded
PROPERTY AddSourceReturns
CHECK_DEADLOCK FALSE
