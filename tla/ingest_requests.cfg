SPECIFICATION FairSpec
CONSTANTS
  Spans <- MCSpans
  Root = "root"
  Start <- MCStart
  Batches <- MCBatches
  SpansOf <- MCSpansOf
  EventsOf <- MCEventsOf
  ErrorsOf <- MCErrorsOf
  Deliveries = {d1, d2, d3}
  Absent = Absent
  NoRow = NoRow
  Nobody = Nobody
INVARIANTS EventsExact
PROPERTIES Serializable RedeliverySafe EveryDeliveryEnds
CHECK_DEADLOCK FALSE
