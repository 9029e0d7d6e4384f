SPECIFICATION StoreSpec
CONSTANTS
  RequestIds <- Ids2
  Requests = {q1}
  Processes = {p1, p2}
  Metadata = {"none"}
  Deliveries = {}
  Outcomes = {"executed", "error"}
  Timeout = 1
  SimilarTtl = 1
  StaleGrace = 1
  RedirectAge = 1
  MaxRecords = 2
  ClockLag = 0
  MaxTime = 2
INVARIANT StaleMeansUnexecuted
