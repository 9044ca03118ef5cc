\* The GPU path of one worker against main: sieve batches and Fermat batches of
\* up to two windows, with the liveness properties.
CONSTANTS
  w1 = w1
  Workers = {w1}
  NumWindows = 3
  Chunk = 2
  SieveTarget = 2
  PendingCap = 2
  QueueCap = 1
  MaxGeneration = 2
  Headers <- TwoHeaders
SPECIFICATION FairFarmSpec
INVARIANTS SieveBaseMatches
PROPERTIES StopTerminates StallOnlyByStolenClaim
