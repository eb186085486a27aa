SPECIFICATION FairQueueSpec
CONSTANTS
  Targets = {s, t}
  Reviewers = {ann, bob}
  Sweeper = sweeper
  Writers = {}
  Nobody = Nobody
  Outcomes = {"done"}
  Priorities = {0, 10}
PROPERTIES FinishedStays ClaimsExclusive AbandonedReturns
