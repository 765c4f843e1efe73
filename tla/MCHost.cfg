CONSTANTS
  Configs <- MCConfigs
  MaxAsked = 2
SPECIFICATION Spec
INVARIANTS
  RowsAreInTheirPlaces
  OwnSplitIsAccepted
PROPERTY ImplementsLookup
CHECK_DEADLOCK FALSE
