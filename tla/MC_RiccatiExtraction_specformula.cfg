CONSTANTS
  LrSet <- MCLrSet
  ASet <- MCASet
  BSet <- MCBSet
  SSet <- MCSSet
  PSet <- MCPSet
  pSet <- MCpSet
  bSet <- MCbSet
  rSet <- MCrSet
  Q0 <- MCQ0
  q0 <- MCq0

SPECIFICATION Spec
INVARIANT ZeroStageMatchesSpecFormula
