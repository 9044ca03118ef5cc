SPECIFICATION Spec
CONSTANTS
  SmallPrimes = {3, 5, 7}
  WordBits = 6
  Lanes = 2
  VectorMax = 5
  Prime <- MCPrime
  Need <- MCNeed
  LimbBits = 4
  MaxLimbs = 3
  NinvSteps = 2
  RangeLen = 128
  OwnedSize = 32
  HaloInitial = 8
  Lookahead = 32
  FlushTarget = 24
  MaxWindows = 2
  MaxBatch = 7
  Inputs <- MCInputs
CHECK_DEADLOCK FALSE
INVARIANTS SurvivorsExact LimbTestExact NoFalseGap EveryGapOnce
