SPECIFICATION Spec
CONSTANTS
  None = None
  Utf8 <- MCUtf8
  Script <- MCScript
  Letters <- MCLetters
  Space = "sp"
  Newline = "nl"
  Replacement = "?"
  EndOfText <- MCEndOfText
  Kept <- MCKept
  Mixed = "keep"
  Window = 3
  Jobs <- MCJobs
INVARIANT ChunksAreTheFile
INVARIANT DocumentsStayWhole
INVARIANT LinesKeepWords
INVARIANT SelectionIsFair
