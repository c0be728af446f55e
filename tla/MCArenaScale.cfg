SPECIFICATION InterpreterSpec
CONSTANTS
  Aligned = TRUE
  SArena = 32
  SBlock = 2
  Word = 1
  MaxNodes = 2
  HeapNodes = 2
  Sizes = {3, 7, 63}
INVARIANTS
  ScalesIfNeeded
CHECK_DEADLOCK FALSE
