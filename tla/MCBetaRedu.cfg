SPECIFICATION FairSpec
CONSTANTS
  Apply <- App
  SComb <- S
  KComb <- K
  Var <- LD
  Unknown <- Undefined
  Endless <- Cycle
  Reduces <- ReducesTo
  Programs <- MCPrograms
  Idents <- MCIdents
  MaxBetaReductions = 8
  MaxNodes = 40
INVARIANTS
  IInv
  StopsAtHeadNormal
  NoAssertWhenClosed
PROPERTIES
  StepReduces
  FinishedFrozen
  Termination
