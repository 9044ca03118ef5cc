\* The CPU path: no GPU batches, two workers race through three windows.
CONSTANTS
  w1 = w1
  w2 = w2
  Workers = {w1, w2}
  NumWindows = 3
  Chunk = 2
  SieveTarget = 0
  PendingCap = 0
  QueueCap = 1
  MaxGeneration = 2
  Headers <- ThreeHeaders
SPECIFICATION FarmSpec
SYMMETRY AnyWorker
INVARIANTS WindowsAccounted ExhaustedMeansScanned EntryUnderItsHeader
PROPERTIES NoGapAfterExhaustion HeaderScanned
