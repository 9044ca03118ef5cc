SPECIFICATION Spec
CONSTANTS
  Offsets <- MCOffsets
  Sieved <- MCSieved
  Pseudo = {3}
  HiddenSets <- MCHidden
  Need <- MCNeed
  Configs <- MCQuarterJump
  RegionStart = 3
  TailStart = 7
  Thr = 4
  Chunk = 3
  Wave = 2
  Cap = 2
CHECK_DEADLOCK FALSE
INVARIANTS NoFalseGap
