SPECIFICATION FairGateSpec
CONSTANTS
  read = read
  write = write
  odd = odd
  bare = bare
  r1 = r1
  r2 = r2
  None = None
  Workers = {w1, w2}
  Requests = {read, write, odd, bare}
  Receipts = {r1, r2}
  Body <- Bodies
  Fallback <- FallbackOf
  Defect <- DefectOf
  FailuresBeforeOpen = 2
  Window = 2
  Cooldown = 2
  HalfOpenTests = 2
  CacheTtl = 2
  CacheMax = 1
  MaxLag = 1
INVARIANTS
  GateTypeOK
  ForwardsAreCovered
PROPERTIES
  BackendRests
  ClosesOnProbes
  NoEarlyReplay
  Recovers
