SPECIFICATION Spec
CONSTANTS
  Apply <- App
  SComb <- S
  KComb <- K
  Var <- LD
  Unknown <- Undefined
  Endless <- Cycle
  Reduces <- ReducesTo
  Programs <- MCSelfApplied
  Idents <- MCIdents
  MaxBetaReductions = 10
  MaxNodes = 60
PROPERTIES
  ImplementsCalculus
