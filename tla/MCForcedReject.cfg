CONSTANTS
  Handlers = {h1}
  Intents = {i1}
  QuoteIds = {q1}
  Quotes <- MCQuotes
  Identities = {alice}
  Username = alice
  Sessions = {s1}
  Requests = {r1}
  Times <- MCTimes
  Hour = 1
  TTL = 1
  CacheMax = 1
  MaxClock = 0
  MaxCrashes = 0
  StoreFails = FALSE
  MaxTradesPerSession = 2
  MaxTradesPerHour = 2
  MaxConcurrentTrades = 2
  Updates <- CallerUpdates
  NoTrade = NoTrade
  NoIntent = NoIntent
  None = None
SPECIFICATION Spec
INVARIANT RejectedMeansNoOrder
