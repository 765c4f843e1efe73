CONSTANTS
  None = None
  Configs <- MCConfigs
  MinPerGraph = 2
SPECIFICATION Spec
INVARIANTS
  ReplayHasItsGraph
  NothingOutlivesProfiling
  LeastPaddedGraph
  HiddenStatesHoldEveryGraph
  GraphFitsBatch
  ConfiguredSizesAreWarm
  EstimateCoversCapture
  EstimateIsClose
