CONSTANTS
  None = None
  Configs <- WarmupConfigs
  MinPerGraph = 2
SPECIFICATION Spec
INVARIANTS
  CaptureSizesAreWarm
