CONSTANTS
  Configs <- MCConfigs
  MinGroupSize <- MCMinGroupSize
  Rows <- MCRows
  Outputs <- MCOutputs
  Tensors <- MCTensors
SPECIFICATION Spec
INVARIANTS
  OnlyItsOwnSource
  NothingIsMissing
  EveryTensorFits
  NumbersSurvive
PROPERTIES
  NeverOverwritten
