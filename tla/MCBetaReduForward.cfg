SPECIFICATION Spec
CONSTANTS
  Apply <- App
  SComb <- S
  KComb <- K
  Var <- LD
  Unknown <- Undefined
  Endless <- Cycle
  Reduces <- ReducesTo
  Programs <- MCForward
  Idents <- MCIdents
  MaxBetaReductions = 10
  MaxNodes = 60
INVARIANTS
  NoAssertFails
