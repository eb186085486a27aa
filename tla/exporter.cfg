SPECIFICATION FairSpec
CONSTANTS
  Traces = {t1, t2}
  Callers = {c1}
  Workers = {w1, w2}
  NoWorker = NoWorker
  NoTrace = NoTrace
  Sentinel = Sentinel
  Capacity = 1
  BatchSize = 2
  MaxRetries = 2
  MaxControls = 1
  Modes <- AllModes
  Outcomes <- OkOrRaises
  Encodes <- AnyEncoding
  Spools <- Unset
INVARIANTS LosesVisibly DrainedIsEmpty
PROPERTIES EverySettles
CHECK_DEADLOCK FALSE
