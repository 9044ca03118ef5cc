\* Node mode: three templates of rising height, the third of them unusable, the
\* main loop, the RPC thread and a worker, with the farm's specification as a
\* property.
CONSTANTS
  w1 = w1
  Workers = {w1}
  NumWindows = 1
  Chunk = 1
  SieveTarget = 0
  PendingCap = 0
  QueueCap = 1
  MaxGeneration = 8
  Headers <- BadThird
  Templates <- ThreeTemplates
  Height <- Rising
SPECIFICATION FairNodeSpec
INVARIANTS OneTemplatePerBlock SubmittedOnce
PROPERTIES FarmUsedAsAssumed NewHeightIsMined QueueDrains ShutdownCompletes
