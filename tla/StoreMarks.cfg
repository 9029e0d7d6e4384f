SPECIFICATION StoreSpec
CONSTANTS
  RequestIds <- Ids2
  Requests = {q1}
  Processes = {}
  Metadata = {"none", "target_reached", "request_approval", "staging_copy"}
  Deliveries = {"queued", "not_delivered", "delivered", "visible"}
  Outcomes = {"denied", "expired", "blocked", "error", "cancelled", "executed", "invalidated"}
  Timeout = 1
  SimilarTtl = 1
  StaleGrace = 1
  RedirectAge = 0
  MaxRecords = 1
  ClockLag = 1
  MaxTime = 2
INVARIANTS
  RedirectedNeverRuns
PROPERTIES
  ClaimsDurable
  DeliveryMonotone
CHECK_DEADLOCK FALSE
