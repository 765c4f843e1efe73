CONSTANTS
  NumRanks = 3
  NumHosts = 2
  NumOps = 2
  SkipOps = {2}
  MaxBatched = 64
  CuteDsl = TRUE
  Enabled = TRUE
  Tactics = {t1, t2}
  MaxCrashes = 1
SPECIFICATION Spec
INVARIANTS
  LoadsWhatWasBroadcast
  CollectivesMatch
  TunedAlike
PROPERTIES
  EveryoneReturns
  TornFileIsRepaired
CHECK_DEADLOCK FALSE
