SPECIFICATION FairOutputSpec
CONSTANTS
  Apply <- App
  SComb <- S
  KComb <- K
  Var <- LD
  Unknown <- Undefined
  Endless <- Cycle
  Reduces <- ReducesTo
  Programs <- OutputPrograms
  Idents <- OutputIdents
  MaxBetaReductions = 24
  MaxNodes = 760
  MaxDepth = 60
INVARIANTS
  NoCrashWhenClosed
  ReadsBack
  DrawnReadsBack
  OverflowOnlyCyclic
  WritesTest
PROPERTIES
  OutputEnds
