SPECIFICATION FrontSpec
CONSTANTS
  NULL = NULL
  SStack = 20
  Fuel = 40
  Names <- MCNames
  Exprs <- MCExprs
  Files <- MCConstant
  Depth <- DepthOf
  Plain <- IsPlain
INVARIANTS
  MeansItsExpression
