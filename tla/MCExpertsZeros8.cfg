CONSTANTS
  Configs <- Zeros8Configs
  MinGroupSize <- MCMinGroupSize
  Rows <- MCRows
  Outputs <- MCOutputs
  Tensors <- MCTensors
SPECIFICATION Spec
INVARIANTS
  EveryTensorFits
