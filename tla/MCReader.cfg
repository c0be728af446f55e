SPECIFICATION FairReaderSpec
CONSTANTS
  NULL = NULL
  IdNames = {"a", "b"}
  MaxLength = 8
  YYMaxDepth = 7
  SLine = 8
  Inputs <- MCInputs
  Texts <- MCTexts
INVARIANTS
  AcceptsLanguage
  TreeOfText
  ColumnsRight
  RightLine
PROPERTIES
  ReaderEnds
