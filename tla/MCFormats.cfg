CONSTANTS
  Configs <- MCConfigs
SPECIFICATION Spec
INVARIANTS
  CellsAreTheirSources
  LayerIsComplete
  UnequalInputScalesAreRefused
