SPECIFICATION Spec
CONSTANTS
  h1 = h1
  h2 = h2
  h3 = h3
  t1 = t1
  Handlers = {h1, h2, h3}
  Trades = {t1}
  MaxSessions = 2
  MaxSockets = 3
  MaxNow = 1
  TTL = 1
  PerSession = 2
  MaxTotalConns = 2
  Spacing = 1
SYMMETRY Symmetry
INVARIANTS
  WithinLimits
  NoOrphan
  SlotsReturned
  ShutdownLeavesNone
PROPERTIES
  RechecksApart
CHECK_DEADLOCK FALSE
