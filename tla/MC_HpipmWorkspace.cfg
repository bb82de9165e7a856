CONSTANTS
  Sizes <- MCSizes
  ProblemSizes <- MCProblemSizes
  SettingsSet <- MCSettingsSet
  DefaultSize <- MCDefaultSize
  DefaultSettings <- MCDefaultSettings
  DefaultIterMax <- MCDefaultIterMax
  DimMemsize <- MCDimMemsize
  QpMemsize <- MCQpMemsize
  QpSolMemsize <- MCQpSolMemsize
  IpmArgMemsize <- MCIpmArgMemsize
  IpmWsMemsize <- MCIpmWsMemsize
  MaxCalls = 4
  NoDims = NoDims
  Unset = Unset

SPECIFICATION Spec
INVARIANT TypeOK
INVARIANT ConfiguredAsRequested
