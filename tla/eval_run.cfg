SPECIFICATION FairRunSpec
CONSTANTS
  e1 = e1
  e2 = e2
  e3 = e3
  w1 = w1
  w2 = w2
  Dataset <- MCDataset
  Workers <- MCWorkers
  JudgeSlots = 1
  Retries = 1
  MaxCost = 3
  Costs <- MCCosts
  MaxErrorShare <- MCShare
  MaxStarts = 3
  Nothing = Nothing
INVARIANTS OverspendBounded VerdictIsWhole
PROPERTIES EveryRunStops
CHECK_DEADLOCK FALSE
