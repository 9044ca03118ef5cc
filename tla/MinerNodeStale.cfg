\* A valid gap of the current template, dropped because its header was rotated
\* between its discovery and the flush.
CONSTANTS
  w1 = w1
  Workers = {w1}
  NumWindows = 2
  Chunk = 1
  SieveTarget = 0
  PendingCap = 0
  QueueCap = 1
  MaxGeneration = 6
  Headers <- OnlyFirst
  Templates <- OneTemplate
  Height <- Rising
SPECIFICATION NodeSpec
INVARIANTS StaleOnlyIfLate
