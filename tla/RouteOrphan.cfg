CONSTANTS
  c1 = c1
  c2 = c2
  Calls <- TwoCalls
  MaxProcesses = 2
SPECIFICATION RouteSpec
INVARIANT OrphanNeverForwarded
