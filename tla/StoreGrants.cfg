SPECIFICATION StoreSpec
CONSTANTS
  RequestIds <- Ids3
  Requests = {q1}
  Processes = {p1}
  Metadata = {"none"}
  Deliveries = {}
  Outcomes = {"executed", "invalidated"}
  Timeout = 1
  SimilarTtl = 0
  StaleGrace = 1
  RedirectAge = 1
  MaxRecords = 2
  ClockLag = 0
  MaxTime = 1
INVARIANTS
  StoreTypeOK
  SingleUse
  ChainIntact
PROPERTIES
  TerminalFinal
  ClaimsDurable
  ImplementsLedger
