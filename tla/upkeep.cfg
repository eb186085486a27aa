SPECIFICATION FairWorkerSpec
CONSTANTS
  p1 = p1
  p2 = p2
  k1 = k1
  Projects <- MCProjects
  Limit = 2
  TraceDays <- MCTraceDays
  PayloadDays <- MCPayloadDays
  MonthLength = 2
  MonthsAhead = 1
  LastDay = 4
  Skews <- MCSkews
  Payloads <- MCPayloads
  MaxRows = 1
  Nothing = Nothing
  MaxTries = 2
  MaxRuns = 2
INVARIANTS OneLetterPerFailure PartitionsAhead
PROPERTIES NothingKeptIsDropped EveryRunEnds
CHECK_DEADLOCK FALSE
