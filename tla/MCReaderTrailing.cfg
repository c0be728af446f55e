SPECIFICATION ReaderSpec
CONSTANTS
  NULL = NULL
  IdNames = {"a"}
  MaxLength = 5
  YYMaxDepth = 7
  SLine = 8
  Inputs <- MCTrailing
  Texts <- MCTexts
INVARIANTS
  ErrorLeavesNone
