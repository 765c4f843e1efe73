CONSTANTS
  None = None
  Configs <- DynamicConfigs
  MinPerGraph = 2
SPECIFICATION Spec
INVARIANTS
  DecodeFindsItsGraph
