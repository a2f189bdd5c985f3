CONSTANTS
  Intents = {i1, i2, i3}
  q1 = q1
  q2 = q2
  q3 = q3
  alice = alice
  bob = bob
  QuoteIds <- MCQuoteIds
  Identities <- MCIdentities
  Quotes <- MCQuotes
  Sessions = {s1, s2}
  Requests = {r1, r2}
  Times <- MCTimes
  Hour = 1
  MaxTradesPerSession = 2
  MaxTradesPerHour = 2
  MaxConcurrentTrades = 2
  Updates <- MCUpdates
  NoTrade = NoTrade
  NoIntent = NoIntent
SPECIFICATION StoreSpec
SYMMETRY MCSymmetry
INVARIANTS
  IndexesAgree
  HourlyQuota
  ActiveQuota
PROPERTY TradesPreserved
CHECK_DEADLOCK FALSE
