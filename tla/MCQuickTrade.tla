---------------------------- MODULE MCQuickTrade ----------------------------
(* Small instances of the Quick Trade path.  The configured identity is    *)
(* the only one; quotes live for one instant of a short clock.             *)
EXTENDS QuickTrade, TLC

MCQuotes ==
  [id: QuoteIds, identity: Identities, expiresAt: {TTL, TTL + MaxClock},
   executable: {TRUE}]

MCQuotesAndBlocked ==
  [id: QuoteIds, identity: Identities, expiresAt: {TTL, TTL + MaxClock},
   executable: BOOLEAN]

MCTimes == 0 .. MaxClock

MCSymmetry ==
  Permutations(Handlers) \union Permutations(Intents)
    \union Permutations(Requests) \union Permutations(QuoteIds)
=============================================================================
