------------------------- MODULE IntentStoreProofs -------------------------
(***************************************************************************)
(* The durable store's invariants, for every set of intents, quotes,       *)
(* requests, identities, sessions and instants and for every limit.        *)
(***************************************************************************)
EXTENDS IntentStore, FiniteSetTheorems, TLAPS

(* No transition of the table leaves the set of statuses.                  *)
LEMMA SuccessorsAreStatuses ==
  \A from, to : validTradeTransition(from, to) => to \in Statuses
  BY DEF validTradeTransition, Successors, Statuses

(* A final status admits itself and, from Cancelled, Filled.               *)
LEMMA FinalIsSettled ==
  \A from \in Statuses : \A to : StatusAdmitted(from, to) => Settled(from, to)
  BY DEF StatusAdmitted, validTradeTransition, Successors, Settled, Terminal, Statuses

(* A status that holds no slot admits no status that holds one.            *)
LEMMA NoReactivation ==
  \A from \in Statuses : \A to :
    StatusAdmitted(from, to) /\ to \in Active => from \in Active
  BY DEF StatusAdmitted, validTradeTransition, Successors, Active, Statuses

(* What UpdateQuickTrade makes of the trade it is given: only the three    *)
(* fields of the update change, and the status as the table admits.        *)
LEMMA UpdateEffect ==
  ASSUME StoreTypeOK,
         NEW i \in Intents, NEW u \in Updates, UpdateQuickTrade(i, u)
  PROVE  /\ quickTrades[i] \in Trades /\ quickTrades'[i] \in Trades
         /\ quickTrades' \in [Intents -> Trades \union {NoTrade}]
         /\ \A j \in Intents : j # i => quickTrades'[j] = quickTrades[j]
         /\ quickTrades'[i].identity = quickTrades[i].identity
         /\ quickTrades'[i].request = quickTrades[i].request
         /\ quickTrades'[i].session = quickTrades[i].session
         /\ quickTrades'[i].quote = quickTrades[i].quote
         /\ quickTrades'[i].createdAt = quickTrades[i].createdAt
         /\ quickTrades'[i].sendAttempted = quickTrades[i].sendAttempted
         /\ StatusAdmitted(quickTrades[i].status, quickTrades'[i].status)
         /\ quickRequests' = quickRequests /\ consumedQuotes' = consumedQuotes
<1> DEFINE t == quickTrades[i]
           n == [t EXCEPT !.status = copyIfSet(@, u.status),
                          !.resultStatus = copyIfSet(@, u.resultStatus),
                          !.balanceSync = copyIfSet(@, u.balanceSync)]
<1>1. t \in Trades
  BY DEF UpdateQuickTrade, CanUpdate, Stored, StoreTypeOK
<1>2. u \in UpdateRecords
  BY UpdatesAssumption
<1>3. quickTrades' = [quickTrades EXCEPT ![i] = n]
  BY DEF UpdateQuickTrade, StoreTypeOK
<1>4. n \in Trades
  BY <1>1, <1>2 DEF Trades, UpdateRecords, copyIfSet
<1>5. StatusAdmitted(t.status, n.status)
  BY <1>1 DEF UpdateQuickTrade, CanUpdate, copyIfSet, StatusAdmitted, Trades
<1>6. /\ n.identity = t.identity /\ n.request = t.request /\ n.session = t.session
      /\ n.quote = t.quote /\ n.createdAt = t.createdAt
      /\ n.sendAttempted = t.sendAttempted
  BY <1>1 DEF Trades
<1>7. quickTrades'[i] = n /\ \A j \in Intents : j # i => quickTrades'[j] = quickTrades[j]
  BY <1>3 DEF StoreTypeOK
<1>8. quickTrades' \in [Intents -> Trades \union {NoTrade}]
  BY <1>3, <1>4 DEF StoreTypeOK
<1> QED
  BY <1>1, <1>4, <1>5, <1>6, <1>7, <1>8 DEF UpdateQuickTrade

(* What MarkQuickTradeDispatching makes of its trade.                      *)
LEMMA DispatchEffect ==
  ASSUME StoreTypeOK, NEW i \in Intents, MarkQuickTradeDispatching(i)
  PROVE  /\ quickTrades[i] \in Trades /\ quickTrades'[i] \in Trades
         /\ quickTrades' \in [Intents -> Trades \union {NoTrade}]
         /\ \A j \in Intents : j # i => quickTrades'[j] = quickTrades[j]
         /\ quickTrades'[i].identity = quickTrades[i].identity
         /\ quickTrades'[i].request = quickTrades[i].request
         /\ quickTrades'[i].session = quickTrades[i].session
         /\ quickTrades'[i].quote = quickTrades[i].quote
         /\ quickTrades'[i].createdAt = quickTrades[i].createdAt
         /\ quickTrades'[i].sendAttempted = TRUE
         /\ StatusAdmitted(quickTrades[i].status, quickTrades'[i].status)
         /\ quickRequests' = quickRequests /\ consumedQuotes' = consumedQuotes
<1> DEFINE t == quickTrades[i]
           n == [t EXCEPT !.sendAttempted = TRUE, !.status = "PendingSubmit"]
<1>1. t \in Trades
  BY DEF MarkQuickTradeDispatching, CanDispatch, Stored, StoreTypeOK
<1>2. CASE t.sendAttempted
  BY <1>1, <1>2 DEF MarkQuickTradeDispatching, StoreTypeOK, StatusAdmitted, Trades
<1>3. CASE ~t.sendAttempted
  <2>1. quickTrades' = [quickTrades EXCEPT ![i] = n]
    BY <1>3 DEF MarkQuickTradeDispatching, StoreTypeOK
  <2>2. n \in Trades
    BY <1>1 DEF Trades, Statuses
  <2>3. StatusAdmitted(t.status, n.status)
    BY <1>1, <1>3 DEF MarkQuickTradeDispatching, CanDispatch, StatusAdmitted,
                      validTradeTransition, Successors, Trades
  <2>4. /\ n.identity = t.identity /\ n.request = t.request /\ n.session = t.session
        /\ n.quote = t.quote /\ n.createdAt = t.createdAt
        /\ n.sendAttempted = TRUE
    BY <1>1 DEF Trades
  <2>5. quickTrades'[i] = n /\ \A j \in Intents : j # i => quickTrades'[j] = quickTrades[j]
    BY <2>1 DEF StoreTypeOK
  <2>6. quickTrades' \in [Intents -> Trades \union {NoTrade}]
    BY <2>1, <2>2 DEF StoreTypeOK
  <2> QED
    BY <1>1, <2>2, <2>3, <2>4, <2>5, <2>6 DEF MarkQuickTradeDispatching
<1> QED
  BY <1>2, <1>3

(* What creation makes of the store: one new trade, and both indexes lead  *)
(* to it.                                                                  *)
LEMMA CreateEffect ==
  ASSUME StoreTypeOK, NEW c \in Confirmations, NEW now \in Times,
         CreateIntent(c, now)
  PROVE  /\ NewTrade(c, now) \in Trades
         /\ quickTrades' = [quickTrades EXCEPT ![c.intent] = NewTrade(c, now)]
         /\ quickTrades' \in [Intents -> Trades \union {NoTrade}]
         /\ c.intent \in Intents /\ c.quote.id \in QuoteIds
         /\ <<c.identity, c.request>> \in Identities \X Requests
         /\ StoreTypeOK'
<1>1. /\ c.intent \in Intents /\ c.quote \in Quotes /\ c.identity \in Identities
      /\ c.request \in Requests /\ c.session \in Sessions
  BY DEF Confirmations
<1>2. c.quote.id \in QuoteIds
  BY <1>1, QuotesAssumption DEF QuoteRecords
<1>3. NewTrade(c, now) \in Trades
  BY <1>1 DEF NewTrade, Trades, Statuses, BalanceSyncs
<1>4. quickTrades' = [quickTrades EXCEPT ![c.intent] = NewTrade(c, now)]
  BY DEF CreateIntent
<1>5. quickTrades' \in [Intents -> Trades \union {NoTrade}]
  BY <1>3, <1>4 DEF StoreTypeOK
<1>6. quickRequests' \in [Identities \X Requests -> Intents \union {NoIntent}]
  BY <1>1 DEF CreateIntent, StoreTypeOK
<1>7. consumedQuotes' \in [QuoteIds -> Intents \union {NoIntent}]
  BY <1>1, <1>2 DEF CreateIntent, StoreTypeOK
<1> QED
  BY <1>1, <1>2, <1>3, <1>4, <1>5, <1>6, <1>7 DEF StoreTypeOK

(* What aliasing makes of the store: one more request leads to a trade     *)
(* that exists.                                                            *)
LEMMA AliasEffect ==
  ASSUME StoreTypeOK, NEW c \in Confirmations, AliasRequest(c)
  PROVE  StoreTypeOK'
<1>1. /\ c.intent \in Intents /\ c.quote \in Quotes /\ c.identity \in Identities
      /\ c.request \in Requests
  BY DEF Confirmations
<1>2. GetQuickTradeByQuote(c.quote.id) \in Intents
  BY DEF AliasRequest, CanAlias, Stored
<1> QED
  BY <1>1, <1>2 DEF AliasRequest, StoreTypeOK

-----------------------------------------------------------------------------
(* Each store operation keeps every map well formed.                       *)
LEMMA StoreTypeStep == StoreTypeOK /\ [StoreNext]_storeVars => StoreTypeOK'
<1> SUFFICES ASSUME StoreTypeOK, [StoreNext]_storeVars PROVE StoreTypeOK'
  OBVIOUS
<1>1. ASSUME NEW c \in Confirmations, NEW now \in Times, CreateIntent(c, now)
      PROVE  StoreTypeOK'
  BY <1>1, CreateEffect
<1>2. ASSUME NEW c \in Confirmations, AliasRequest(c)
      PROVE  StoreTypeOK'
  BY <1>2, AliasEffect
<1>3. ASSUME NEW i \in Intents, MarkQuickTradeDispatching(i)
      PROVE  StoreTypeOK'
  BY <1>3, DispatchEffect DEF StoreTypeOK
<1>4. ASSUME NEW i \in Intents, NEW u \in Updates, UpdateQuickTrade(i, u)
      PROVE  StoreTypeOK'
  BY <1>4, UpdateEffect DEF StoreTypeOK
<1>5. CASE UNCHANGED storeVars
  BY <1>5 DEF storeVars, StoreTypeOK
<1> QED
  BY <1>1, <1>2, <1>3, <1>4, <1>5 DEF StoreNext

(* Every map of the snapshot keeps well-formed entries.                    *)
THEOREM StoreTypeCorrect == StoreSpec => []StoreTypeOK
<1>1. StoreInit => StoreTypeOK
  BY DEF StoreInit, StoreTypeOK
<1> QED
  BY <1>1, StoreTypeStep, PTL DEF StoreSpec

-----------------------------------------------------------------------------
(* A step that keeps the agreed part of one trade and leaves the others    *)
(* and both indexes alone: dispatching and updating are such steps.        *)
Touches(i) ==
  /\ quickTrades[i] \in Trades /\ quickTrades'[i] \in Trades
  /\ \A j \in Intents : j # i => quickTrades'[j] = quickTrades[j]
  /\ quickTrades'[i].identity = quickTrades[i].identity
  /\ quickTrades'[i].request = quickTrades[i].request
  /\ quickTrades'[i].session = quickTrades[i].session
  /\ quickTrades'[i].quote = quickTrades[i].quote
  /\ quickTrades'[i].createdAt = quickTrades[i].createdAt
  /\ quickTrades[i].sendAttempted => quickTrades'[i].sendAttempted
  /\ StatusAdmitted(quickTrades[i].status, quickTrades'[i].status)
  /\ quickRequests' = quickRequests /\ consumedQuotes' = consumedQuotes

(* Every step creates a trade, aliases a request, touches one trade or     *)
(* does nothing.                                                           *)
LEMMA StoreCases ==
  ASSUME StoreTypeOK, [StoreNext]_storeVars
  PROVE  \/ \E c \in Confirmations, now \in Times : CreateIntent(c, now)
         \/ \E c \in Confirmations : AliasRequest(c)
         \/ \E i \in Intents : Touches(i)
         \/ UNCHANGED storeVars
<1>1. ASSUME NEW i \in Intents, MarkQuickTradeDispatching(i)
      PROVE  Touches(i)
  BY <1>1, DispatchEffect DEF Touches
<1>2. ASSUME NEW i \in Intents, NEW u \in Updates, UpdateQuickTrade(i, u)
      PROVE  Touches(i)
  BY <1>2, UpdateEffect DEF Touches
<1> QED
  BY <1>1, <1>2 DEF StoreNext

(* A touched trade was stored and stays stored, and so does every other.   *)
LEMMA TouchKeepsStored ==
  ASSUME NEW i \in Intents, Touches(i)
  PROVE  i \in Stored /\ Stored' = Stored
  BY SentinelAssumption DEF Touches, Stored

(* Creation adds exactly its own intent, which was not stored.             *)
LEMMA CreateAddsStored ==
  ASSUME StoreTypeOK, NEW c \in Confirmations, NEW now \in Times,
         CreateIntent(c, now)
  PROVE  /\ c.intent \in Intents /\ c.intent \notin Stored
         /\ Stored' = Stored \union {c.intent}
         /\ quickTrades'[c.intent] = NewTrade(c, now)
         /\ \A i \in Stored : quickTrades'[i] = quickTrades[i]
<1>1. /\ c.intent \in Intents /\ NewTrade(c, now) \in Trades
      /\ quickTrades' = [quickTrades EXCEPT ![c.intent] = NewTrade(c, now)]
  BY CreateEffect
<1>2. quickTrades[c.intent] = NoTrade
  BY DEF CreateIntent, CanCreate
<1>3. /\ quickTrades'[c.intent] = NewTrade(c, now)
      /\ \A i \in Intents : i # c.intent => quickTrades'[i] = quickTrades[i]
  BY <1>1 DEF StoreTypeOK
<1> QED
  BY <1>1, <1>2, <1>3, SentinelAssumption DEF Stored

-----------------------------------------------------------------------------
(* Each store operation keeps the indexes in agreement with the trades.    *)
LEMMA IndexesStep ==
  StoreTypeOK /\ IndexesAgree /\ [StoreNext]_storeVars => IndexesAgree'
<1> SUFFICES ASSUME StoreTypeOK, IndexesAgree, [StoreNext]_storeVars
             PROVE  IndexesAgree'
  OBVIOUS
<1>1. ASSUME NEW c \in Confirmations, NEW now \in Times, CreateIntent(c, now)
      PROVE  IndexesAgree'
  <2> DEFINE n == c.intent
             k == <<c.identity, c.request>>
  <2>1. /\ n \in Intents /\ n \notin Stored /\ Stored' = Stored \union {n}
        /\ quickTrades'[n] = NewTrade(c, now)
        /\ \A i \in Stored : quickTrades'[i] = quickTrades[i]
    BY <1>1, CreateAddsStored
  <2>2. /\ c.quote.id \in QuoteIds /\ k \in Identities \X Requests
        /\ NewTrade(c, now) \in Trades
    BY <1>1, CreateEffect
  <2>3. /\ quickRequests[k] = NoIntent /\ consumedQuotes[c.quote.id] = NoIntent
        /\ quickRequests' = [quickRequests EXCEPT ![k] = n]
        /\ consumedQuotes' = [consumedQuotes EXCEPT ![c.quote.id] = n]
    BY <1>1 DEF CreateIntent, CanCreate, FirstUse, GetQuickTradeByRequest,
                GetQuickTradeByQuote
  <2>4. /\ c.identity = c.quote.identity
        /\ NewTrade(c, now).quote = c.quote
        /\ NewTrade(c, now).identity = c.identity
        /\ NewTrade(c, now).request = c.request
    BY <1>1 DEF NewTrade, CreateIntent, CanCreate, validateConfirmation
  <2>5. ASSUME NEW q \in QuoteIds, consumedQuotes'[q] # NoIntent
        PROVE  /\ consumedQuotes'[q] \in Stored'
               /\ quickTrades'[consumedQuotes'[q]].quote.id = q
    <3>1. CASE q = c.quote.id
      BY <3>1, <2>1, <2>2, <2>3, <2>4 DEF StoreTypeOK
    <3>2. CASE q # c.quote.id
      BY <3>2, <2>1, <2>2, <2>3, <2>5 DEF StoreTypeOK, IndexesAgree
    <3> QED
      BY <3>1, <3>2
  <2>6. ASSUME NEW r \in Identities \X Requests, quickRequests'[r] # NoIntent
        PROVE  /\ quickRequests'[r] \in Stored'
               /\ quickTrades'[quickRequests'[r]].identity = r[1]
    <3>1. CASE r = k
      BY <3>1, <2>1, <2>2, <2>3, <2>4 DEF StoreTypeOK
    <3>2. CASE r # k
      BY <3>2, <2>1, <2>2, <2>3, <2>6 DEF StoreTypeOK, IndexesAgree
    <3> QED
      BY <3>1, <3>2
  <2>7. ASSUME NEW i \in Stored'
        PROVE  /\ quickTrades'[i].identity = quickTrades'[i].quote.identity
               /\ consumedQuotes'[quickTrades'[i].quote.id] = i
               /\ quickRequests'[<<quickTrades'[i].identity,
                                   quickTrades'[i].request>>] = i
    <3>1. CASE i = n
      BY <3>1, <2>1, <2>2, <2>3, <2>4 DEF StoreTypeOK
    <3>2. CASE i # n
      <4>1. i \in Stored /\ quickTrades'[i] = quickTrades[i] /\ i # NoIntent
        BY <3>2, <2>1, SentinelAssumption DEF Stored
      <4>2. quickTrades[i] \in Trades
        BY <4>1 DEF Stored, StoreTypeOK
      <4>3. /\ quickTrades[i].quote.id \in QuoteIds
            /\ <<quickTrades[i].identity, quickTrades[i].request>>
                 \in Identities \X Requests
        BY <4>2, QuotesAssumption DEF Trades, QuoteRecords
      <4>4. /\ quickTrades[i].identity = quickTrades[i].quote.identity
            /\ consumedQuotes[quickTrades[i].quote.id] = i
            /\ quickRequests[<<quickTrades[i].identity,
                               quickTrades[i].request>>] = i
        BY <4>1 DEF IndexesAgree
      <4> QED
        BY <4>1, <4>3, <4>4, <2>3 DEF StoreTypeOK
    <3> QED
      BY <3>1, <3>2
  <2> QED
    BY <2>5, <2>6, <2>7 DEF IndexesAgree
<1>2. ASSUME NEW c \in Confirmations, AliasRequest(c)
      PROVE  IndexesAgree'
  <2> DEFINE k == <<c.identity, c.request>>
             i == consumedQuotes[c.quote.id]
  <2>1. k \in Identities \X Requests /\ c.quote.id \in QuoteIds
    BY QuotesAssumption DEF Confirmations, QuoteRecords
  <2>2. /\ quickRequests[k] = NoIntent /\ i \in Stored
        /\ quickRequests' = [quickRequests EXCEPT ![k] = i]
        /\ quickTrades' = quickTrades /\ consumedQuotes' = consumedQuotes
        /\ c.identity = c.quote.identity
    BY <1>2 DEF AliasRequest, CanAlias, validateConfirmation,
                GetQuickTradeByRequest, GetQuickTradeByQuote
  <2>3. quickTrades[i] \in Trades /\ quickTrades[i].quote.id = c.quote.id
        /\ quickTrades[i].identity = quickTrades[i].quote.identity
    <3>1. i \in Intents /\ quickTrades[i] # NoTrade /\ i # NoIntent
      BY <2>2, SentinelAssumption DEF Stored
    <3>2. quickTrades[i] \in Trades
      BY <3>1 DEF StoreTypeOK
    <3> QED
      BY <2>1, <2>2, <3>1, <3>2 DEF IndexesAgree
  <2>4. quickTrades[i].identity = c.identity
    BY <2>2, <2>3, OwnerAssumption DEF Trades, Confirmations
  <2>5. ASSUME NEW r \in Identities \X Requests, quickRequests'[r] # NoIntent
        PROVE  /\ quickRequests'[r] \in Stored'
               /\ quickTrades'[quickRequests'[r]].identity = r[1]
    BY <2>1, <2>2, <2>4, <2>5 DEF IndexesAgree, Stored, StoreTypeOK
  <2>6. ASSUME NEW j \in Stored
        PROVE  quickRequests'[<<quickTrades[j].identity,
                                quickTrades[j].request>>] = j
    BY <2>1, <2>2, SentinelAssumption DEF IndexesAgree, Stored, StoreTypeOK
  <2> QED
    BY <2>2, <2>5, <2>6 DEF IndexesAgree, Stored
<1>3. ASSUME NEW i \in Intents, Touches(i)
      PROVE  IndexesAgree'
  <2>1. i \in Stored /\ Stored' = Stored
    BY <1>3, TouchKeepsStored
  <2>2. \A j \in Stored :
          /\ quickTrades'[j].quote = quickTrades[j].quote
          /\ quickTrades'[j].identity = quickTrades[j].identity
          /\ quickTrades'[j].request = quickTrades[j].request
    BY <1>3, <2>1 DEF Touches, Stored
  <2> QED
    BY <1>3, <2>1, <2>2 DEF Touches, IndexesAgree
<1>4. CASE UNCHANGED storeVars
  BY <1>4 DEF storeVars, IndexesAgree, Stored
<1> QED
  BY <1>1, <1>2, <1>3, <1>4, StoreCases

(* The indexes of requests and consumed quotes never disagree with the     *)
(* trades, so no quote becomes two trades.                                 *)
THEOREM IndexesAlwaysAgree == StoreSpec => []IndexesAgree
<1>1. StoreInit => IndexesAgree
  BY DEF StoreInit, IndexesAgree, Stored
<1> QED
  BY <1>1, IndexesStep, StoreTypeCorrect, PTL DEF StoreSpec

-----------------------------------------------------------------------------
(* Counting.  Every set that is counted is a subset of Intents.            *)

(* A subset of a set of intents has no more members.                       *)
LEMMA CountMonotonic ==
  ASSUME NEW S, NEW T, S \subseteq T, T \subseteq Intents
  PROVE  /\ IsFiniteSet(S) /\ IsFiniteSet(T)
         /\ Cardinality(S) \in Nat /\ Cardinality(T) \in Nat
         /\ Cardinality(S) <= Cardinality(T)
<1>1. IsFiniteSet(T)
  BY IntentsAssumption, FS_Subset
<1>2. IsFiniteSet(S) /\ Cardinality(S) <= Cardinality(T)
  BY <1>1, FS_Subset
<1> QED
  BY <1>1, <1>2, FS_CardinalityType

(* A set of intents that gains one member counts one more.                 *)
LEMMA CountAddOne ==
  ASSUME NEW S, NEW T, NEW x, S \subseteq Intents, T \subseteq S \union {x}
  PROVE  Cardinality(T) <= Cardinality(S) + 1
<1>1. IsFiniteSet(S) /\ Cardinality(S) \in Nat
  BY CountMonotonic
<1>2. /\ IsFiniteSet(S \union {x})
      /\ Cardinality(S \union {x}) \in Nat
      /\ Cardinality(S \union {x}) <= Cardinality(S) + 1
  BY <1>1, FS_AddElement, FS_CardinalityType
<1>3. IsFiniteSet(T) /\ Cardinality(T) <= Cardinality(S \union {x})
  BY <1>2, FS_Subset
<1>4. Cardinality(T) \in Nat
  BY <1>3, FS_CardinalityType
<1> QED
  BY <1>1, <1>2, <1>3, <1>4

(* Each store operation keeps the number of active trades within the       *)
(* limit: creation checks it, and the table reactivates nothing.           *)
LEMMA ActiveStep ==
  StoreTypeOK /\ ActiveQuota /\ [StoreNext]_storeVars => ActiveQuota'
<1> SUFFICES ASSUME StoreTypeOK, ActiveQuota, [StoreNext]_storeVars
             PROVE  ActiveQuota'
  OBVIOUS
<1>0. ActiveTrades \subseteq Intents /\ ActiveTrades' \subseteq Intents
  BY DEF ActiveTrades, Stored
<1>1. ASSUME NEW c \in Confirmations, NEW now \in Times, CreateIntent(c, now)
      PROVE  ActiveQuota'
  <2>1. ActiveTrades' \subseteq ActiveTrades \union {c.intent}
    BY <1>1, CreateAddsStored DEF ActiveTrades
  <2>2. Cardinality(ActiveTrades) < MaxConcurrentTrades
    BY <1>1 DEF CreateIntent, CanCreate, WithinDemoLimits
  <2>3. /\ Cardinality(ActiveTrades') <= Cardinality(ActiveTrades) + 1
        /\ Cardinality(ActiveTrades) \in Nat /\ Cardinality(ActiveTrades') \in Nat
    BY <1>0, <2>1, CountAddOne, CountMonotonic
  <2> QED
    BY <2>2, <2>3, LimitsAssumption DEF ActiveQuota
<1>2. ASSUME ActiveTrades' \subseteq ActiveTrades
      PROVE  ActiveQuota'
  BY <1>0, <1>2, CountMonotonic, LimitsAssumption DEF ActiveQuota
<1>3. ASSUME NEW c \in Confirmations, AliasRequest(c)
      PROVE  ActiveTrades' \subseteq ActiveTrades
  BY <1>3 DEF AliasRequest, ActiveTrades, Stored
<1>4. ASSUME NEW i \in Intents, Touches(i)
      PROVE  ActiveTrades' \subseteq ActiveTrades
  BY <1>4, TouchKeepsStored, NoReactivation
     DEF Touches, ActiveTrades, Trades, Stored
<1>5. CASE UNCHANGED storeVars
  BY <1>5 DEF storeVars, ActiveQuota, ActiveTrades, Stored
<1> QED
  BY <1>1, <1>2, <1>3, <1>4, <1>5, StoreCases

(* Never do more than MaxConcurrentTrades trades hold a slot: the guard of *)
(* creation is enough because the status table reactivates nothing.        *)
THEOREM ActiveQuotaHolds == StoreSpec => []ActiveQuota
<1>1. StoreInit => ActiveQuota
  <2> SUFFICES ASSUME StoreInit PROVE ActiveQuota
    OBVIOUS
  <2>1. ActiveTrades = {}
    BY DEF StoreInit, ActiveTrades, Stored
  <2> QED
    BY <2>1, FS_EmptySet, LimitsAssumption DEF ActiveQuota
<1> QED
  BY <1>1, ActiveStep, StoreTypeCorrect, PTL DEF StoreSpec

(* Each store operation keeps every window of one hour within the limit.   *)
LEMMA HourlyStep ==
  StoreTypeOK /\ HourlyQuota /\ [StoreNext]_storeVars => HourlyQuota'
<1> SUFFICES ASSUME StoreTypeOK, HourlyQuota, [StoreNext]_storeVars,
                    NEW t \in Times
             PROVE  Cardinality(TradesIn(t, t + Hour)') <= MaxTradesPerHour
  BY DEF HourlyQuota, TradesIn
<1> DEFINE W == TradesIn(t, t + Hour)
<1>0. W \subseteq Intents /\ W' \subseteq Intents
  BY DEF TradesIn, Stored
<1>1. Cardinality(W) <= MaxTradesPerHour
  BY DEF HourlyQuota
<1>2. ASSUME W' \subseteq W
      PROVE  Cardinality(W') <= MaxTradesPerHour
  BY <1>0, <1>1, <1>2, CountMonotonic, LimitsAssumption
<1>3. ASSUME NEW c \in Confirmations, NEW now \in Times, CreateIntent(c, now)
      PROVE  Cardinality(W') <= MaxTradesPerHour
  <2>1. /\ Stored' = Stored \union {c.intent}
        /\ quickTrades'[c.intent].createdAt = now
        /\ \A i \in Stored : quickTrades'[i] = quickTrades[i]
    <3>1. /\ Stored' = Stored \union {c.intent}
          /\ quickTrades'[c.intent] = NewTrade(c, now)
          /\ \A i \in Stored : quickTrades'[i] = quickTrades[i]
      BY <1>3, CreateAddsStored
    <3>2. NewTrade(c, now).createdAt = now
      BY DEF NewTrade
    <3> QED
      BY <3>1, <3>2
  <2>2. CASE now \in t .. t + Hour
    <3>1. Cardinality(TradesSince(now - Hour)) < MaxTradesPerHour
      BY <1>3 DEF CreateIntent, CanCreate, WithinDemoLimits
    <3>2. ASSUME NEW i \in W' PROVE i \in TradesSince(now - Hour) \union {c.intent}
      <4>1. CASE i # c.intent
        <5>1. i \in Stored /\ quickTrades[i].createdAt \in t .. t + Hour
          BY <2>1, <3>2, <4>1 DEF TradesIn
        <5>2. quickTrades[i] \in Trades
          BY <5>1 DEF Stored, StoreTypeOK
        <5>3. quickTrades[i].createdAt >= now - Hour
          BY <2>2, <5>1, <5>2, TimesAssumption DEF Trades
        <5> QED
          BY <5>1, <5>3 DEF TradesSince
      <4> QED
        BY <4>1
    <3>3. TradesSince(now - Hour) \subseteq Intents
      BY DEF TradesSince, Stored
    <3>4. /\ Cardinality(W') <= Cardinality(TradesSince(now - Hour)) + 1
          /\ Cardinality(TradesSince(now - Hour)) \in Nat
          /\ Cardinality(W') \in Nat
      BY <1>0, <3>2, <3>3, CountAddOne, CountMonotonic
    <3> QED
      BY <3>1, <3>4, LimitsAssumption
  <2>3. CASE now \notin t .. t + Hour
    BY <1>2, <2>1, <2>3 DEF TradesIn
  <2> QED
    BY <2>2, <2>3
<1>4. ASSUME NEW c \in Confirmations, AliasRequest(c)
      PROVE  Cardinality(W') <= MaxTradesPerHour
  BY <1>2, <1>4 DEF AliasRequest, TradesIn, Stored
<1>5. ASSUME NEW i \in Intents, Touches(i)
      PROVE  Cardinality(W') <= MaxTradesPerHour
  BY <1>2, <1>5, TouchKeepsStored DEF Touches, TradesIn, Stored
<1>6. CASE UNCHANGED storeVars
  BY <1>2, <1>6 DEF storeVars, TradesIn, Stored
<1> QED
  BY <1>3, <1>4, <1>5, <1>6, StoreCases

(* No window of one hour ever holds more than MaxTradesPerHour trades,     *)
(* whatever clock readings the confirmations carry and in whatever order.  *)
THEOREM HourlyQuotaHolds == StoreSpec => []HourlyQuota
<1>1. StoreInit => HourlyQuota
  <2> SUFFICES ASSUME StoreInit, NEW t \in Times
               PROVE  Cardinality(TradesIn(t, t + Hour)) <= MaxTradesPerHour
    BY DEF HourlyQuota
  <2>1. TradesIn(t, t + Hour) = {}
    BY DEF StoreInit, TradesIn, Stored
  <2> QED
    BY <2>1, FS_EmptySet, LimitsAssumption
<1> QED
  BY <1>1, HourlyStep, StoreTypeCorrect, PTL DEF StoreSpec

-----------------------------------------------------------------------------
(* Each store operation preserves each trade in the sense of               *)
(* TradePreserved.                                                         *)
LEMMA PreservedStep ==
  StoreTypeOK /\ [StoreNext]_storeVars
    => [\A i \in Intents : TradePreserved(i)]_storeVars
<1> SUFFICES ASSUME StoreTypeOK, [StoreNext]_storeVars, NEW j \in Intents,
                    quickTrades[j] # NoTrade, ~UNCHANGED storeVars
             PROVE  /\ quickTrades'[j] # NoTrade
                    /\ quickTrades'[j].quote = quickTrades[j].quote
                    /\ quickTrades'[j].session = quickTrades[j].session
                    /\ quickTrades'[j].createdAt = quickTrades[j].createdAt
                    /\ quickTrades[j].sendAttempted => quickTrades'[j].sendAttempted
                    /\ Settled(quickTrades[j].status, quickTrades'[j].status)
  BY DEF TradePreserved
<1>0. quickTrades[j] \in Trades /\ j \in Stored
  BY DEF StoreTypeOK, Stored
<1>1. ASSUME quickTrades'[j] = quickTrades[j]
      PROVE  Settled(quickTrades[j].status, quickTrades'[j].status)
  BY <1>1 DEF Settled
<1>2. ASSUME NEW c \in Confirmations, NEW now \in Times, CreateIntent(c, now)
      PROVE  quickTrades'[j] = quickTrades[j]
  BY <1>0, <1>2, CreateAddsStored
<1>3. ASSUME NEW c \in Confirmations, AliasRequest(c)
      PROVE  quickTrades'[j] = quickTrades[j]
  BY <1>3 DEF AliasRequest
<1>4. ASSUME NEW i \in Intents, Touches(i)
      PROVE  \/ quickTrades'[j] = quickTrades[j]
             \/ /\ quickTrades'[j] \in Trades
                /\ quickTrades'[j].quote = quickTrades[j].quote
                /\ quickTrades'[j].session = quickTrades[j].session
                /\ quickTrades'[j].createdAt = quickTrades[j].createdAt
                /\ quickTrades[j].sendAttempted => quickTrades'[j].sendAttempted
                /\ StatusAdmitted(quickTrades[j].status, quickTrades'[j].status)
  BY <1>4 DEF Touches
<1>5. StatusAdmitted(quickTrades[j].status, quickTrades'[j].status)
        => Settled(quickTrades[j].status, quickTrades'[j].status)
  BY <1>0, FinalIsSettled DEF Trades
<1> QED
  BY <1>1, <1>2, <1>3, <1>4, <1>5, StoreCases, SentinelAssumption

(* No store operation loses a trade, changes its terms, forgets an         *)
(* attempted send or withdraws a final status.                             *)
THEOREM TradesArePreserved == StoreSpec => TradesPreserved
  BY PreservedStep, StoreTypeCorrect, PTL DEF StoreSpec, TradesPreserved
=============================================================================
