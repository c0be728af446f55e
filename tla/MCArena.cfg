SPECIFICATION MCSpec
CONSTANTS
  Aligned = TRUE
  SArena = 32
  SBlock = 2
  Word = 1
  MaxNodes = 2
  HeapNodes = 2
  Sizes <- MCSizes
  NULL = NULL
  Width = 16
  HeapSize = 4095
  SMap = 24
  SNode = 24
INVARIANTS
  IInv
  Separated
  BitsInBitmap
  HeaderInside
  BitmapsExact
  MadeAsAssumed
CHECK_DEADLOCK FALSE
