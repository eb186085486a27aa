SPECIFICATION FairSpec
CONSTANTS
  older = older
  newer = newer
  policy = policy
  safety = safety
  judge = judge
  Targets = {older, newer}
  Reviewers = {}
  Sweeper = sweeper
  Writers = {cron, api}
  Cron = cron
  Nobody = Nobody
  Outcomes = {"done"}
  Priorities = {5, 10}
  Early <- Newer
  Order <- MCOrder
  Fails <- Newer
  Unsound <- NoTrace
  Failed <- Newer
  Errored <- Newer
  Undecidable <- Older
  Sampled <- NoTrace
  Rules = {policy, safety, judge}
  Judges = {judge}
  Limit = 1
  MaxEscalations = 1
  Exhausted <- AnyBool
  MaxCrashes = 1
INVARIANTS QueueMirrorsFailures
PROPERTIES EveryTraceDecided
