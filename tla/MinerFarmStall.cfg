\* What miner_farm.h promises of miner_farm_work_exhausted, against the claim race.
CONSTANTS
  w1 = w1
  Workers = {w1}
  NumWindows = 3
  Chunk = 2
  SieveTarget = 0
  PendingCap = 0
  QueueCap = 1
  MaxGeneration = 2
  Headers <- TwoHeaders
SPECIFICATION FairFarmSpec
PROPERTIES HeaderRangeCompletes
