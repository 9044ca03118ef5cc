SPECIFICATION FairSpec
CONSTANTS
  Headers <- TwoHeaders
  Targets <- TwoTargets
  Gaps = {g1}
  PendingCap = 1
  DedupCap = 2
  MaxChanges = 1
  MaxShares = 2
  MaxTroubles = 1
INVARIANTS
  VerdictIsThePools
  OneVerdict
  NoSilentLoss
  NoResend
PROPERTIES
  ShareResolved
  WorkAdopted
  ClientStops
