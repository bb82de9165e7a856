CONSTANTS
  X0Set <- MCX0Set
  StageSet <- MCStageSet
  FinalSet <- MCFinalSet
  USet <- MCUSet
  XSet <- MCXSet
SPECIFICATION Spec
INVARIANT EliminationPreservesProblem
