SPECIFICATION Spec
CONSTANTS
  K = 3
  MLimit = 3
  CandCap = 4
  Tick = 7
  IndexLimit = 26
  Configs <- MCConfigs
  MaxFaults = 1
  MaxKills = 1
  MaxStops = 1
INVARIANTS NoWindowSkipped RedoBounded OwnSurvivors
PROPERTIES ImplementsRangeWalk EveryWindowSearched EveryRunEnds
