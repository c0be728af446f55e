SPECIFICATION FairFrontSpec
CONSTANTS
  NULL = NULL
  SStack = 3
  Fuel = 40
  Names <- MCNames
  Exprs <- MCExprs
  Files <- MCFiles
  Depth <- DepthOf
  Plain <- IsPlain
INVARIANTS
  WarningsRight
  FitsWhenShallow
  AstReadsBack
  HandledKeepsMeaning
  LeftWereWarned
PROPERTIES
  TransformKeepsMeaning
  FrontEnds
