SPECIFICATION Spec
CONSTANTS
  K = 2
  LastNonce = 4
  Rows <- MCRows
  MaxGen = 2
  Configs <- MCConfigs
INVARIANTS OwnResults UnderItsWork NeverTwice LossPerFailure
PROPERTIES StopEndsIt NewWorkTaken
CHECK_DEADLOCK FALSE
