---------------------------- MODULE IntentStore ----------------------------
(***************************************************************************)
(* The durable Quick Trade part of the intent store                        *)
(* (internal/intent/store.go, quicktrade.go): the trades, the index from a *)
(* client request to its trade and the index of consumed quotes.           *)
(*                                                                         *)
(* Store.update takes an exclusive file lock, loads the snapshot, runs one *)
(* mutation and renames a complete new file over the old one, so every     *)
(* operation below is one step.  A mutation that returns an error, or a    *)
(* write that fails before the rename, leaves the file as it was.          *)
(***************************************************************************)
EXTENDS Integers, FiniteSets, TradeStatus

CONSTANTS
  Intents,              \* intent IDs (12 random bytes each)
  QuoteIds,             \* quote IDs
  Quotes,               \* the quotes a confirmation may carry
  Identities,           \* authenticated identities
  Sessions,             \* browser session IDs
  Requests,             \* client request IDs
  Times,                \* instants a caller may pass as `now'
  Hour,                 \* the length of the rolling window
  MaxTradesPerSession, MaxTradesPerHour, MaxConcurrentTrades,   \* DemoLimits
  Updates,              \* the QuickTradeUpdate values callers build
  NoTrade, NoIntent     \* an absent map entry

QuoteRecords == [id: QuoteIds, identity: Identities, expiresAt: Nat,
                 executable: BOOLEAN]

UpdateRecords == [status: Statuses \union {Unset},
                  resultStatus: Results \union {Unset},
                  balanceSync: BalanceSyncs \union {Unset}]

Trades == [identity: Identities, session: Sessions, request: Requests,
           quote: Quotes, status: Statuses, sendAttempted: BOOLEAN,
           resultStatus: Results \union {Unset}, balanceSync: BalanceSyncs,
           createdAt: Times]

Confirmations == [intent: Intents, identity: Identities, session: Sessions,
                  request: Requests, quote: Quotes]

ASSUME IntentsAssumption == IsFiniteSet(Intents)
ASSUME QuotesAssumption == Quotes \subseteq QuoteRecords
(* A quote ID is drawn at random for one quote of one identity.            *)
ASSUME OwnerAssumption ==
  \A p, q \in Quotes : p.id = q.id => p.identity = q.identity
ASSUME UpdatesAssumption == Updates \subseteq UpdateRecords
ASSUME TimesAssumption == Times \subseteq Nat /\ Hour \in Nat
ASSUME LimitsAssumption ==
  /\ MaxTradesPerSession \in Nat \ {0}
  /\ MaxTradesPerHour \in Nat \ {0}
  /\ MaxConcurrentTrades \in Nat \ {0}
ASSUME SentinelAssumption == NoTrade \notin Trades /\ NoIntent \notin Intents

VARIABLES
  quickTrades,      \* intent ID -> trade
  quickRequests,    \* <<identity, client request ID>> -> intent ID
  consumedQuotes    \* quote ID -> intent ID

storeVars == <<quickTrades, quickRequests, consumedQuotes>>

-----------------------------------------------------------------------------
(* What the store can be asked.                                            *)

Stored == {i \in Intents : quickTrades[i] # NoTrade}

GetQuickTradeByRequest(identity, request) == quickRequests[<<identity, request>>]

(* Mutated form: the index of consumed quotes is not consulted.            *)
NoLookupByQuote(quoteId) == NoIntent

GetQuickTradeByQuote(quoteId) == consumedQuotes[quoteId]

SessionTrades(session) == {i \in Stored : quickTrades[i].session = session}

(* Mutated form: a trade exactly one hour old is not counted.              *)
TradesAfter(cutoff) == {i \in Stored : quickTrades[i].createdAt > cutoff}

TradesSince(cutoff) == {i \in Stored : quickTrades[i].createdAt >= cutoff}

ActiveTrades == {i \in Stored : quickTrades[i].status \in Active}

-----------------------------------------------------------------------------
(* ConfirmQuickTrade.                                                      *)

validateConfirmation(c) == c.identity = c.quote.identity /\ c.quote.executable

(* Mutated form: the quote is not looked up again under the lock.          *)
FirstUseOfRequest(c) ==
  GetQuickTradeByRequest(c.identity, c.request) = NoIntent

(* The request is new to the store, and so is the quote.                   *)
FirstUse(c) ==
  /\ GetQuickTradeByRequest(c.identity, c.request) = NoIntent
  /\ GetQuickTradeByQuote(c.quote.id) = NoIntent

WithinDemoLimits(c, now) ==
  /\ Cardinality(SessionTrades(c.session)) < MaxTradesPerSession
  /\ Cardinality(TradesSince(now - Hour)) < MaxTradesPerHour
  /\ Cardinality(ActiveTrades) < MaxConcurrentTrades

CanCreate(c, now) ==
  /\ validateConfirmation(c)
  /\ FirstUse(c)
  /\ now < c.quote.expiresAt
  /\ quickTrades[c.intent] = NoTrade
  /\ WithinDemoLimits(c, now)

(* Mutated form: the balance status is not initialised.                    *)
NewTradeNoBalance(c, now) ==
  [identity |-> c.identity, session |-> c.session, request |-> c.request,
   quote |-> c.quote, status |-> "Created", sendAttempted |-> FALSE,
   resultStatus |-> Unset, balanceSync |-> Unset, createdAt |-> now]

NewTrade(c, now) ==
  [identity |-> c.identity, session |-> c.session, request |-> c.request,
   quote |-> c.quote, status |-> "Created", sendAttempted |-> FALSE,
   resultStatus |-> Unset, balanceSync |-> "pending", createdAt |-> now]

(* Mutated form: the quote is not entered in the index.                    *)
CreateIntentNoIndex(c, now) ==
  /\ CanCreate(c, now)
  /\ quickTrades' = [quickTrades EXCEPT ![c.intent] = NewTrade(c, now)]
  /\ quickRequests' =
       [quickRequests EXCEPT ![<<c.identity, c.request>>] = c.intent]
  /\ UNCHANGED consumedQuotes

CreateIntent(c, now) ==
  /\ CanCreate(c, now)
  /\ quickTrades' = [quickTrades EXCEPT ![c.intent] = NewTrade(c, now)]
  /\ quickRequests' =
       [quickRequests EXCEPT ![<<c.identity, c.request>>] = c.intent]
  /\ consumedQuotes' = [consumedQuotes EXCEPT ![c.quote.id] = c.intent]

(* A new request for a quote that already became a trade: the request is   *)
(* indexed to that trade, and nothing is created.                          *)
CanAlias(c) ==
  /\ validateConfirmation(c)
  /\ GetQuickTradeByRequest(c.identity, c.request) = NoIntent
  /\ GetQuickTradeByQuote(c.quote.id) \in Stored

AliasRequest(c) ==
  /\ CanAlias(c)
  /\ quickRequests' = [quickRequests EXCEPT
       ![<<c.identity, c.request>>] = GetQuickTradeByQuote(c.quote.id)]
  /\ UNCHANGED <<quickTrades, consumedQuotes>>

-----------------------------------------------------------------------------
(* MarkQuickTradeDispatching and UpdateQuickTrade.                         *)

(* Mutated form: the status is not looked at.                              *)
CanDispatchAny(i) == i \in Stored

(* The write-ahead mark: the trade says a send was attempted before the    *)
(* send.  On a trade already marked the operation succeeds and changes     *)
(* nothing.                                                                *)
CanDispatch(i) ==
  /\ i \in Stored
  /\ quickTrades[i].sendAttempted \/ quickTrades[i].status = "Created"

(* Mutated form: the status moves, the mark is forgotten.                  *)
MarkStatusOnly(i) ==
  /\ CanDispatch(i)
  /\ quickTrades' = [quickTrades EXCEPT ![i].status = "PendingSubmit"]
  /\ UNCHANGED <<quickRequests, consumedQuotes>>

MarkQuickTradeDispatching(i) ==
  /\ CanDispatch(i)
  /\ quickTrades' =
       IF quickTrades[i].sendAttempted THEN quickTrades
       ELSE [quickTrades EXCEPT ![i].sendAttempted = TRUE,
                                ![i].status = "PendingSubmit"]
  /\ UNCHANGED <<quickRequests, consumedQuotes>>

copyIfSet(old, new) == IF new = Unset THEN old ELSE new

(* Mutated form: any status may follow any other.                          *)
CanUpdateAny(i, u) == i \in Stored

(* An update naming a status the table refuses is refused as a whole.      *)
CanUpdate(i, u) ==
  /\ i \in Stored
  /\ u.status # Unset => StatusAdmitted(quickTrades[i].status, u.status)

UpdateQuickTrade(i, u) ==
  /\ CanUpdate(i, u)
  /\ quickTrades' = [quickTrades EXCEPT
       ![i].status = copyIfSet(@, u.status),
       ![i].resultStatus = copyIfSet(@, u.resultStatus),
       ![i].balanceSync = copyIfSet(@, u.balanceSync)]
  /\ UNCHANGED <<quickRequests, consumedQuotes>>

-----------------------------------------------------------------------------
StoreInit ==
  /\ quickTrades = [i \in Intents |-> NoTrade]
  /\ quickRequests = [k \in Identities \X Requests |-> NoIntent]
  /\ consumedQuotes = [q \in QuoteIds |-> NoIntent]

StoreNext ==
  \/ \E c \in Confirmations, now \in Times : CreateIntent(c, now)
  \/ \E c \in Confirmations : AliasRequest(c)
  \/ \E i \in Intents : MarkQuickTradeDispatching(i)
  \/ \E i \in Intents, u \in Updates : UpdateQuickTrade(i, u)

StoreSpec == StoreInit /\ [][StoreNext]_storeVars

-----------------------------------------------------------------------------
(* Every map of the snapshot holds well-formed entries.                    *)
StoreTypeOK ==
  /\ quickTrades \in [Intents -> Trades \union {NoTrade}]
  /\ quickRequests \in [Identities \X Requests -> Intents \union {NoIntent}]
  /\ consumedQuotes \in [QuoteIds -> Intents \union {NoIntent}]

(* The indexes agree with the trades in both directions: no entry dangles  *)
(* (the "index is inconsistent" errors of ConfirmQuickTrade and of the two *)
(* lookups never occur), an entry leads to a trade of that quote or of     *)
(* that identity, and every trade belongs to its quote's owner and is      *)
(* found under its own quote and its own request.  So a quote never        *)
(* becomes two trades, and a retried request finds the trade it made.      *)
IndexesAgree ==
  /\ \A q \in QuoteIds : consumedQuotes[q] # NoIntent =>
       /\ consumedQuotes[q] \in Stored
       /\ quickTrades[consumedQuotes[q]].quote.id = q
  /\ \A k \in Identities \X Requests : quickRequests[k] # NoIntent =>
       /\ quickRequests[k] \in Stored
       /\ quickTrades[quickRequests[k]].identity = k[1]
  /\ \A i \in Stored :
       /\ quickTrades[i].identity = quickTrades[i].quote.identity
       /\ consumedQuotes[quickTrades[i].quote.id] = i
       /\ quickRequests[<<quickTrades[i].identity, quickTrades[i].request>>] = i

(* The rolling hourly limit: whatever clock readings the confirmations     *)
(* carried, and in whatever order they reached the store (Confirm reads    *)
(* its clock before it validates and before it waits for the lock), no     *)
(* window of one hour holds more than MaxTradesPerHour trades.             *)
TradesIn(from, to) ==
  {i \in Stored : quickTrades[i].createdAt \in from .. to}

HourlyQuota ==
  \A t \in Times : Cardinality(TradesIn(t, t + Hour)) <= MaxTradesPerHour

(* The concurrency limit: at no time do more than MaxConcurrentTrades      *)
(* trades hold a slot, although only creation checks the limit and every   *)
(* later update may move a trade between statuses.                         *)
ActiveQuota == Cardinality(ActiveTrades) <= MaxConcurrentTrades

(* What no store step may do: lose a trade, change what was agreed in it,  *)
(* forget that a send was attempted, or leave a final status, except that  *)
(* late fill evidence turns Cancelled into Filled.                         *)
Settled(old, new) ==
  old \in Terminal => new = old \/ (old = "Cancelled" /\ new = "Filled")

TradePreserved(i) ==
  quickTrades[i] # NoTrade =>
    /\ quickTrades'[i] # NoTrade
    /\ quickTrades'[i].quote = quickTrades[i].quote
    /\ quickTrades'[i].session = quickTrades[i].session
    /\ quickTrades'[i].createdAt = quickTrades[i].createdAt
    /\ quickTrades[i].sendAttempted => quickTrades'[i].sendAttempted
    /\ Settled(quickTrades[i].status, quickTrades'[i].status)

TradesPreserved == [][\A i \in Intents : TradePreserved(i)]_storeVars
=============================================================================
