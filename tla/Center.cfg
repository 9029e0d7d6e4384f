SPECIFICATION CenterSpec
CONSTANTS
  t1 = t1
  t2 = t2
  Proxies = {p1}
  Cards = {a}
  Threads = {t1, t2}
  Hooks = {h1}
  None = None
SYMMETRY Symmetry
INVARIANTS
  CenterTypeOK
  LiveOwnersKeepTheirCards
  NoFalseLife
  NotesAreInFlight
  ConfirmedMeansRecorded
PROPERTY
  ImplementsCardLedger
