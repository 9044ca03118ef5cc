SPECIFICATION Spec
CONSTANTS
  K = 2
  LastNonce = 4
  Rows <- MCRows
  MaxGen = 1
  Configs <- ChainConfigs
PROPERTIES FailClosed
CHECK_DEADLOCK FALSE
