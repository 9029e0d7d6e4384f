SPECIFICATION FairStdioSpec
CONSTANTS
  life = life
  r1 = r1
  r2 = r2
  r3 = r3
  m1 = m1
  m2 = m2
  m3 = m3
  None = None
  Calls <- ClientCalls
  Lane <- ClientLane
  Setups <- Sessions
  QueueMax = 1
  PipeMax = 1
  MaxPending = 1
  Twice = {m1, r1}
INVARIANTS
  StdioTypeOK
  AnsweredBeforeExit
  FiledAnswersStay
  LeftoversBounded
PROPERTIES
  EveryLineEnds
  ImplementsSession
CHECK_DEADLOCK FALSE
