CONSTANTS
  x = x
  y = y
  Nobody = Nobody
  Requests = {r1, r2, r3}
  MaxAttempts = 2
  Chunks <- Orders
  ScoredBy <- Scores
  Submitted <- Offers
  Ends = {"succeeded", "failed"}
SPECIFICATION FairSpec
INVARIANTS ReportBacked AcknowledgedStored
CHECK_DEADLOCK FALSE
