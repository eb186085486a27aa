CONSTANTS
  x = x
  y = y
  trace = trace
  Nobody = Nobody
  Requests = {r1, r2, r3}
  MaxLabel = 4
  Chosen <- SecondLabel
  Batches <- Lists
  Promoted <- Traces
SPECIFICATION FairSpec
INVARIANTS DigestSound
PROPERTIES LockedFrozen EveryRequestEnds
CHECK_DEADLOCK FALSE
