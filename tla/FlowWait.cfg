SPECIFICATION FairFlowSpec
CONSTANTS
  c1 = c1
  c2 = c2
  c3 = c3
  RequestIds <- Ids2
  Requests = {q1}
  Processes = {p1}
  Metadata = {"none"}
  Deliveries = {}
  Outcomes = {"denied", "expired", "executed", "error", "cancelled", "invalidated"}
  Timeout = 1
  SimilarTtl = 0
  StaleGrace = 1
  RedirectAge = 0
  MaxRecords = 1
  ClockLag = 0
  MaxTime = 1
  Calls = {c1, c2}
  WaitMode = TRUE
INVARIANT
  CancelledNeverForwards
PROPERTIES
  ImplementsStore
  QueuedCallsEnd
