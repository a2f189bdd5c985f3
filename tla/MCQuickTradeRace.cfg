CONSTANTS
  Handlers = {h1, h2}
  Intents = {i1, i2}
  QuoteIds = {q1}
  Quotes <- MCQuotes
  Identities = {alice}
  Username = alice
  Sessions = {s1}
  Requests = {r1, r2}
  Times <- MCTimes
  Hour = 1
  TTL = 1
  CacheMax = 1
  MaxClock = 1
  MaxCrashes = 2
  StoreFails = TRUE
  MaxTradesPerSession = 2
  MaxTradesPerHour = 2
  MaxConcurrentTrades = 2
  Updates <- CallerUpdates
  NoTrade = NoTrade
  NoIntent = NoIntent
  None = None
SPECIFICATION Spec
SYMMETRY MCSymmetry
INVARIANTS
  TypeOK
  AtMostOneSubmission
  FinalStatusIsTrue
PROPERTY ImplementsTradeOnce
