----------------------------- MODULE QuickTrade -----------------------------
(***************************************************************************)
(* The Quick Trade path of the web console: browsers ask for quotes and    *)
(* confirm them (internal/quicktrade/application.go), each confirmation in *)
(* its own request goroutine; the durable store is IntentStore; the        *)
(* reconciliation service (internal/tradereconcile) compares a stored      *)
(* trade with the venue and writes what it finds; the process may crash    *)
(* between any two steps and start again with nothing but the store.       *)
(* The venue and the network to it are external.                           *)
(*                                                                         *)
(* A confirmation reads the store twice without its lock, reads the quote  *)
(* cache, asks the venue to validate the quote, and only then persists,    *)
(* marks, sends and records.  Each of these is a step of its own, because  *)
(* other goroutines run between them.                                      *)
(***************************************************************************)
EXTENDS IntentStore, Sequences

CONSTANTS
  Handlers,        \* request goroutines
  Username,        \* the one configured identity of the console
  TTL,             \* the lifetime of a quote
  CacheMax,        \* the capacity of the quote cache
  MaxClock,        \* bound: the clock stops here
  MaxCrashes,      \* bound: crashes in a behaviour
  StoreFails,      \* whether a store operation may fail on its own
  None             \* a local that has no value yet

VARIABLES
  clock,
  cache,       \* QuoteCache: the quotes that can still be confirmed
  issued,      \* the quote IDs handed out, in the order they were cached
  pc, call,    \* Application.Confirm: where each goroutine is, its locals
  rpc, rcall,  \* Service.RecheckTrade, of which Service.mu admits one
  venue,       \* external: what the venue knows of each intent's order
  sends,       \* history: how often each intent's order was sent
  crashes

confirmVars == <<pc, call>>
recheckVars == <<rpc, rcall>>
vars == <<quickTrades, quickRequests, consumedQuotes, clock, cache, issued,
          pc, call, rpc, rcall, venue, sends, crashes>>

(* A goroutine with no confirmation is "idle" when its last answer was a   *)
(* trade or a named refusal, "failed" when it was an internal error (500). *)
Finished == {"idle", "failed"}

ConfirmSteps == {"byQuote", "cache", "validate", "persist", "dispatch",
                 "submit", "await", "record"}

Outcomes == {"ack", "reject", "timeout"}

Calls == [session: Sessions, request: Requests, quoteId: QuoteIds,
          quote: Quotes \union {None}, now: Times,
          intent: Intents \union {NoIntent}, outcome: Outcomes \union {None}]

(* The order states a venue reports, and an order's way there.             *)
OrderStates == {"new", "partial", "filled", "cancelled", "partialCancelled",
                "rejected"}

Done == {"filled", "cancelled", "partialCancelled", "rejected"}

VenueStates == {"none", "flight", "lost"} \union OrderStates

(* What a recheck can conclude from the venue's evidence.                  *)
Resolutions == [status: {"Accepted", "PartiallyFilled", "Filled", "Cancelled",
                         "Rejected", "Unknown"},
                resultStatus: Results]

RecheckSteps == {"idle", "reject", "read", "write", "refresh"}

Rechecks == [intent: Intents, status: Statuses,
             resolved: Resolutions \union {None}]

(* The updates the two writers of a trade can build.                       *)
CallerUpdates ==
  [status: {"Rejected", "Unknown", "Accepted", "PartiallyFilled", "Filled",
            "Cancelled", Unset},
   resultStatus: Results \union {Unset},
   balanceSync: {"PENDING", "SYNCED", "STALE", Unset}]

ASSUME QuickTradeAssumption ==
  /\ Username \in Identities
  /\ TTL \in Nat \ {0} /\ CacheMax \in Nat \ {0}
  /\ MaxClock \in Nat /\ MaxCrashes \in Nat
  /\ Times = 0 .. MaxClock
  /\ StoreFails \in BOOLEAN
  /\ CallerUpdates \subseteq Updates
  /\ None \notin Quotes /\ None \notin Calls /\ None \notin Rechecks
  /\ None \notin Resolutions

-----------------------------------------------------------------------------
(* Quotes.                                                                 *)

(* QuoteCache.prune drops every expired quote; Put and Get both prune.     *)
prune(quotes, now) == {q \in quotes : now < q.expiresAt}

(* The entry that was cached first.                                        *)
IsOldest(quote, quotes) ==
  \E n \in DOMAIN issued :
    /\ issued[n] = quote.id
    /\ \A m \in 1 .. n - 1, other \in quotes : other.id # issued[m]

(* Over capacity, Put evicts the oldest entry.                             *)
Put(quote) ==
  LET kept == prune(cache, clock)
  IN  \/ /\ Cardinality(kept) < CacheMax
         /\ cache' = kept \union {quote}
      \/ /\ Cardinality(kept) >= CacheMax
         /\ \E victim \in kept :
              /\ IsOldest(victim, kept)
              /\ cache' = (kept \ {victim}) \union {quote}

(* Service.Create: a fresh ID for its caller, priced or blocked.  It reads *)
(* its clock before it asks the venue, so the quote may have aged since.   *)
Created(quote) ==
  /\ \A n \in DOMAIN issued : issued[n] # quote.id
  /\ quote.identity = Username
  /\ quote.expiresAt \in TTL .. clock + TTL

(* A blocked quote is put into the cache as well.                          *)
CreateQuote(quote) ==
  /\ Created(quote)
  /\ Put(quote)
  /\ issued' = Append(issued, quote.id)
  /\ UNCHANGED <<storeVars, clock, confirmVars, recheckVars, venue, sends,
                 crashes>>

-----------------------------------------------------------------------------
(* Application.Confirm.                                                    *)

(* The goroutine's answer, which ends its confirmation.                    *)
Answer(h, at) ==
  /\ pc' = [pc EXCEPT ![h] = at]
  /\ call' = [call EXCEPT ![h] = None]

Goto(h, at) == pc' = [pc EXCEPT ![h] = at] /\ UNCHANGED call

(* A request arrives and the store is asked, without its lock, whether it  *)
(* is already indexed; if so the answer is its trade, or a conflict when   *)
(* that trade has another quote.                                           *)
ConfirmByRequest(h, session, request, quoteId) ==
  /\ pc[h] \in Finished
  /\ \/ /\ GetQuickTradeByRequest(Username, request) # NoIntent
        /\ Answer(h, "idle")
     \/ /\ GetQuickTradeByRequest(Username, request) = NoIntent
        /\ pc' = [pc EXCEPT ![h] = "byQuote"]
        /\ call' = [call EXCEPT ![h] =
             [session |-> session, request |-> request, quoteId |-> quoteId,
              quote |-> None, now |-> 0, intent |-> NoIntent,
              outcome |-> None]]
  /\ UNCHANGED <<storeVars, clock, cache, issued, recheckVars, venue, sends,
                 crashes>>

(* The second read without the lock: a consumed quote answers its trade.   *)
ConfirmByQuote(h) ==
  /\ pc[h] = "byQuote"
  /\ \/ /\ GetQuickTradeByQuote(call[h].quoteId) # NoIntent
        /\ Answer(h, "idle")
     \/ /\ GetQuickTradeByQuote(call[h].quoteId) = NoIntent
        /\ Goto(h, "cache")
  /\ UNCHANGED <<storeVars, clock, cache, issued, recheckVars, venue, sends,
                 crashes>>

(* The clock is read here, once, for the store's expiry and window checks. *)
ConfirmGet(h) ==
  /\ pc[h] = "cache"
  /\ cache' = prune(cache, clock)
  /\ \/ /\ \E q \in cache' :
             /\ q.id = call[h].quoteId
             /\ q.identity = Username
             /\ call' = [call EXCEPT ![h].quote = q, ![h].now = clock]
        /\ pc' = [pc EXCEPT ![h] = "validate"]
     \/ /\ \A q \in cache' : q.id # call[h].quoteId \/ q.identity # Username
        /\ Answer(h, "idle")
  /\ UNCHANGED <<storeVars, clock, issued, recheckVars, venue, sends, crashes>>

(* ValidateForConfirm reads a fresh clock and asks the venue for rules,    *)
(* book, capacity and fee; any of them may refuse the quote.               *)
ConfirmValidate(h) ==
  /\ pc[h] = "validate"
  /\ \/ /\ call[h].quote.executable
        /\ clock < call[h].quote.expiresAt
        /\ Goto(h, "persist")
     \/ Answer(h, "idle")
  /\ UNCHANGED <<storeVars, clock, cache, issued, recheckVars, venue, sends,
                 crashes>>

Confirmation(h, i) ==
  [intent |-> i, identity |-> Username, session |-> call[h].session,
   request |-> call[h].request, quote |-> call[h].quote]

(* A fresh intent ID is drawn and ConfirmQuickTrade runs under the lock.   *)
ConfirmPersist(h) ==
  /\ pc[h] = "persist"
  /\ \/ \E i \in Intents :
          /\ CreateIntent(Confirmation(h, i), call[h].now)
          /\ pc' = [pc EXCEPT ![h] = "dispatch"]
          /\ call' = [call EXCEPT ![h].intent = i]
     \/ /\ AliasRequest(Confirmation(h, NoIntent))
        /\ Answer(h, "idle")
     \/ /\ \A i \in Intents : ~CanCreate(Confirmation(h, i), call[h].now)
        /\ ~CanAlias(Confirmation(h, NoIntent))
        /\ Answer(h, "idle")
        /\ UNCHANGED storeVars
  /\ UNCHANGED <<clock, cache, issued, recheckVars, venue, sends, crashes>>

ConfirmDispatch(h) ==
  /\ pc[h] = "dispatch"
  /\ \/ MarkQuickTradeDispatching(call[h].intent) /\ Goto(h, "submit")
     \/ /\ ~CanDispatch(call[h].intent)
        /\ Answer(h, "failed")
        /\ UNCHANGED storeVars
  /\ UNCHANGED <<clock, cache, issued, recheckVars, venue, sends, crashes>>

ConfirmSubmit(h) ==
  /\ pc[h] = "submit"
  /\ venue' = [venue EXCEPT ![call[h].intent] = "flight"]
  /\ sends' = [sends EXCEPT ![call[h].intent] = @ + 1]
  /\ Goto(h, "await")
  /\ UNCHANGED <<storeVars, clock, cache, issued, recheckVars, crashes>>

(* Submit returns an acknowledgement, a definite rejection, or any other   *)
(* error, which says nothing about the order.                              *)
SubmitOutcomes(i) ==
  {"timeout"} \union (IF venue[i] \in OrderStates THEN {"ack"} ELSE {})
              \union (IF venue[i] = "rejected" THEN {"reject"} ELSE {})

ConfirmAwait(h) ==
  /\ pc[h] = "await"
  /\ \E o \in SubmitOutcomes(call[h].intent) :
       call' = [call EXCEPT ![h].outcome = o]
  /\ pc' = [pc EXCEPT ![h] = "record"]
  /\ UNCHANGED <<storeVars, clock, cache, issued, recheckVars, venue, sends,
                 crashes>>

(* Both adapters report an acknowledged order as accepted.                 *)
SubmissionUpdate(outcome) ==
  CASE outcome = "ack" ->
         [status |-> "Accepted", resultStatus |-> Unset, balanceSync |-> Unset]
    [] outcome = "reject" ->
         [status |-> "Rejected", resultStatus |-> "REJECTED",
          balanceSync |-> Unset]
    [] OTHER ->
         [status |-> "Unknown", resultStatus |-> "OUTCOME_UNKNOWN",
          balanceSync |-> Unset]

ConfirmRecord(h) ==
  LET u == SubmissionUpdate(call[h].outcome)
  IN  /\ pc[h] = "record"
      /\ \/ UpdateQuickTrade(call[h].intent, u) /\ Answer(h, "idle")
         \/ /\ ~CanUpdate(call[h].intent, u)
            /\ Answer(h, "failed")
            /\ UNCHANGED storeVars
      /\ UNCHANGED <<clock, cache, issued, recheckVars, venue, sends, crashes>>

(* A store operation of the confirmation fails on its own (lock, disk).    *)
ConfirmStoreFailure(h) ==
  /\ StoreFails
  /\ pc[h] \in {"byQuote", "persist", "dispatch", "record"}
  /\ Answer(h, "failed")
  /\ UNCHANGED <<storeVars, clock, cache, issued, recheckVars, venue, sends,
                 crashes>>

-----------------------------------------------------------------------------
(* Service.RecheckTrade: the recovery loop calls it for every active trade *)
(* and the recheck endpoint for any trade.  It holds Service.mu to the     *)
(* end, but the store's lock only while it writes.                         *)

RecheckBegin(i) ==
  /\ rpc = "idle"
  /\ i \in Stored
  /\ rpc' = IF quickTrades[i].status = "Created" /\ ~quickTrades[i].sendAttempted
            THEN "reject" ELSE "read"
  /\ rcall' = [intent |-> i, status |-> quickTrades[i].status,
               resolved |-> None]
  /\ UNCHANGED <<storeVars, clock, cache, issued, confirmVars, venue, sends,
                 crashes>>

RecoverTrade(i) ==
  /\ i \in ActiveTrades
  /\ RecheckBegin(i)

RecheckEnd == rpc' = "idle" /\ rcall' = None

(* Mutated form: the trade is handed to the Unknown path.                  *)
NotSubmittedUnknown ==
  [status |-> "Unknown", resultStatus |-> "OUTCOME_UNKNOWN",
   balanceSync |-> Unset]

NotSubmitted ==
  [status |-> "Rejected", resultStatus |-> "NOT_SUBMITTED_AFTER_RESTART",
   balanceSync |-> Unset]

(* The trade that was read as never sent is closed.                        *)
RecheckReject ==
  /\ rpc = "reject"
  /\ \/ UpdateQuickTrade(rcall.intent, NotSubmitted)
     \/ ~CanUpdate(rcall.intent, NotSubmitted) /\ UNCHANGED storeVars
  /\ RecheckEnd
  /\ UNCHANGED <<clock, cache, issued, confirmVars, venue, sends, crashes>>

(* Mutated form: an order that is not found was rejected.                  *)
NotFoundIsRejected == [status |-> "Rejected", resultStatus |-> "REJECTED"]

Inconclusive == [status |-> "Unknown", resultStatus |-> "OUTCOME_UNKNOWN"]

(* Mutated form: a partial fill whose rest was cancelled counts as filled. *)
ResolutionRoundsUp(state) ==
  IF state \in {"filled", "partialCancelled"}
  THEN [status |-> "Filled", resultStatus |-> "FILLED"]
  ELSE Inconclusive

(* recheckBybit, recheckDeribit: the status and the result that an order   *)
(* state stands for.                                                       *)
Resolution(state) ==
  CASE state = "new" ->
         [status |-> "Accepted", resultStatus |-> "ACCEPTED"]
    [] state = "partial" ->
         [status |-> "PartiallyFilled", resultStatus |-> "PARTIALLY_FILLED"]
    [] state = "filled" ->
         [status |-> "Filled", resultStatus |-> "FILLED"]
    [] state = "cancelled" ->
         [status |-> "Cancelled", resultStatus |-> "CANCELLED_NO_FILL"]
    [] state = "partialCancelled" ->
         [status |-> "Cancelled", resultStatus |-> "PARTIALLY_FILLED_CANCELLED"]
    [] state = "rejected" ->
         [status |-> "Rejected", resultStatus |-> "REJECTED"]
    [] OTHER -> Inconclusive

Resolve(resolved) ==
  /\ rpc = "read"
  /\ rpc' = "write"
  /\ rcall' = [rcall EXCEPT !.resolved = resolved]
  /\ UNCHANGED <<storeVars, clock, cache, issued, confirmVars, venue, sends,
                 crashes>>

(* The query finds the order the venue has.                                *)
RecheckFind == Resolve(Resolution(venue[rcall.intent]))

(* It finds no order, or a state the code does not know: not yet visible   *)
(* is not the same as not there.                                           *)
RecheckMiss == Resolve(Inconclusive)

(* It fails, and so does the recheck.                                      *)
RecheckReadError ==
  /\ rpc = "read"
  /\ RecheckEnd
  /\ UNCHANGED <<storeVars, clock, cache, issued, confirmVars, venue, sends,
                 crashes>>

(* The status is written only when it differs from the one read at the     *)
(* beginning; the result is always written.                                *)
RecheckUpdate(r) ==
  [status |-> IF r.resolved.status # r.status THEN r.resolved.status
              ELSE Unset,
   resultStatus |-> r.resolved.resultStatus,
   balanceSync |-> IF r.resolved.status \in Terminal THEN "PENDING" ELSE Unset]

RecheckWrite ==
  /\ rpc = "write"
  /\ \/ /\ UpdateQuickTrade(rcall.intent, RecheckUpdate(rcall))
        /\ IF rcall.resolved.status \in Terminal
           THEN rpc' = "refresh" /\ UNCHANGED rcall
           ELSE RecheckEnd
     \/ /\ ~CanUpdate(rcall.intent, RecheckUpdate(rcall))
        /\ RecheckEnd
        /\ UNCHANGED storeVars
  /\ UNCHANGED <<clock, cache, issued, confirmVars, venue, sends, crashes>>

(* The account refresh that follows a final status succeeds or not.        *)
RecheckRefresh ==
  /\ rpc = "refresh"
  /\ \E b \in {"SYNCED", "STALE"} :
       UpdateQuickTrade(rcall.intent, [status |-> Unset, resultStatus |-> Unset,
                                       balanceSync |-> b])
  /\ RecheckEnd
  /\ UNCHANGED <<clock, cache, issued, confirmVars, venue, sends, crashes>>

RecheckStoreFailure ==
  /\ StoreFails
  /\ rpc \in {"reject", "write", "refresh"}
  /\ RecheckEnd
  /\ UNCHANGED <<storeVars, clock, cache, issued, confirmVars, venue, sends,
                 crashes>>

-----------------------------------------------------------------------------
(* The venue (external): an order in flight arrives or is lost; a live     *)
(* order fills, cancels (an IOC order's remainder) or is rejected by the   *)
(* engine; fill evidence may follow a cancellation.                        *)
VenueSteps(state) ==
  CASE state = "flight"    -> {"new", "rejected", "lost"}
    [] state = "new"       -> {"partial", "filled", "cancelled", "rejected"}
    [] state = "partial"   -> {"filled", "partialCancelled"}
    [] state = "cancelled" -> {"filled"}
    [] OTHER               -> {}

VenueStep(i) ==
  /\ \E next \in VenueSteps(venue[i]) : venue' = [venue EXCEPT ![i] = next]
  /\ UNCHANGED <<storeVars, clock, cache, issued, confirmVars, recheckVars,
                 sends, crashes>>

Tick ==
  /\ clock < MaxClock
  /\ clock' = clock + 1
  /\ UNCHANGED <<storeVars, cache, issued, confirmVars, recheckVars, venue,
                 sends, crashes>>

(* The process dies and starts again: goroutines and the cache are gone,   *)
(* the store and whatever is on its way to the venue are not.              *)
Crash ==
  /\ crashes < MaxCrashes
  /\ crashes' = crashes + 1
  /\ pc' = [h \in Handlers |-> "idle"]
  /\ call' = [h \in Handlers |-> None]
  /\ RecheckEnd
  /\ cache' = {}
  /\ UNCHANGED <<storeVars, clock, issued, venue, sends>>

-----------------------------------------------------------------------------
Init ==
  /\ StoreInit
  /\ clock = 0
  /\ cache = {}
  /\ issued = <<>>
  /\ pc = [h \in Handlers |-> "idle"]
  /\ call = [h \in Handlers |-> None]
  /\ rpc = "idle"
  /\ rcall = None
  /\ venue = [i \in Intents |-> "none"]
  /\ sends = [i \in Intents |-> 0]
  /\ crashes = 0

Confirm(h) ==
  \/ \E session \in Sessions, request \in Requests, quoteId \in QuoteIds :
       ConfirmByRequest(h, session, request, quoteId)
  \/ ConfirmByQuote(h)
  \/ ConfirmGet(h)
  \/ ConfirmValidate(h)
  \/ ConfirmPersist(h)
  \/ ConfirmDispatch(h)
  \/ ConfirmSubmit(h)
  \/ ConfirmAwait(h)
  \/ ConfirmRecord(h)
  \/ ConfirmStoreFailure(h)

RecheckStep ==
  \/ RecheckReject
  \/ RecheckFind
  \/ RecheckMiss
  \/ RecheckReadError
  \/ RecheckWrite
  \/ RecheckRefresh
  \/ RecheckStoreFailure

Next ==
  \/ \E quote \in Quotes : CreateQuote(quote)
  \/ \E h \in Handlers : Confirm(h)
  \/ \E i \in Intents : RecheckBegin(i)
  \/ RecheckStep
  \/ \E i \in Intents : VenueStep(i)
  \/ Tick
  \/ Crash

Spec == Init /\ [][Next]_vars

(* Fairness: the recovery loop comes back to every active trade, a recheck *)
(* that began goes on, and a venue that has an order is, again and again,  *)
(* able to say so.  A confirmation that got as far as its intent goes on.  *)
RecheckFairness ==
  /\ \A i \in Intents : SF_vars(RecoverTrade(i))
  /\ WF_vars(RecheckStep)
  /\ \A i \in Intents : SF_vars(RecheckFind /\ rcall.intent = i)

ConfirmProgress(h) ==
  ConfirmDispatch(h) \/ ConfirmSubmit(h) \/ ConfirmAwait(h) \/ ConfirmRecord(h)

FairSpec ==
  /\ Spec
  /\ RecheckFairness
  /\ \A h \in Handlers : WF_vars(ConfirmProgress(h))

-----------------------------------------------------------------------------
(* Every variable holds what its comment says.                             *)
TypeOK ==
  /\ StoreTypeOK
  /\ clock \in Times
  /\ cache \subseteq Quotes
  /\ issued \in Seq(QuoteIds)
  /\ pc \in [Handlers -> Finished \union ConfirmSteps]
  /\ call \in [Handlers -> Calls \union {None}]
  /\ rpc \in RecheckSteps
  /\ rcall \in Rechecks \union {None}
  /\ venue \in [Intents -> VenueStates]
  /\ sends \in [Intents -> Nat]
  /\ crashes \in 0 .. MaxCrashes

(* Confirm sends an intent's order at most once and a quote's order at     *)
(* most once, whatever goroutines confirm the quote, under whatever        *)
(* request IDs, with crashes and retries in between.                       *)
AtMostOneSubmission ==
  /\ \A i \in Intents : sends[i] <= 1
  /\ \A i, j \in Intents :
       /\ sends[i] > 0 /\ sends[j] > 0 /\ i # j
       => quickTrades[i].quote.id # quickTrades[j].quote.id

(* A final status is true of the venue: nothing RecheckTrade or Confirm    *)
(* writes says filled, cancelled or rejected of an order that is not, no   *)
(* matter how old the evidence was when it was written.  The one exception *)
(* is the recovery rule's own verdict, NOT_SUBMITTED_AFTER_RESTART.        *)
FinalStatusIsTrue ==
  \A i \in Stored :
    LET t == quickTrades[i]
    IN  /\ t.status = "Filled" =>
             venue[i] = "filled" /\ t.resultStatus = "FILLED"
        /\ t.status = "Cancelled" =>
             /\ venue[i] \in {"cancelled", "partialCancelled", "filled"}
             /\ t.resultStatus \in {"CANCELLED_NO_FILL",
                                    "PARTIALLY_FILLED_CANCELLED"}
        /\ t.status = "Rejected" =>
             \/ venue[i] = "rejected"
             \/ t.resultStatus = "NOT_SUBMITTED_AFTER_RESTART"

-----------------------------------------------------------------------------
(* Quick Trade implements TradeOnce.  A quote's phase and verdict are read *)
(* off the intent that consumed it.                                        *)

Phase(q) ==
  LET i == consumedQuotes[q]
  IN  IF i = NoIntent THEN "open"
      ELSE IF sends[i] > 0 THEN "sent"
      ELSE IF quickTrades[i].sendAttempted THEN "marked"
      ELSE "reserved"

Verdict(q) ==
  LET i == consumedQuotes[q]
  IN  IF i = NoIntent THEN "none"
      ELSE CASE quickTrades[i].status = "Filled"    -> "filled"
             [] quickTrades[i].status = "Cancelled" -> "cancelled"
             [] quickTrades[i].status = "Rejected"  -> "rejected"
             [] OTHER                               -> "none"

Once == INSTANCE TradeOnce WITH
          phase   <- [q \in QuoteIds |-> Phase(q)],
          verdict <- [q \in QuoteIds |-> Verdict(q)]

(* Every step of the goroutines, of recovery, of the venue and of a crash  *)
(* is a step of TradeOnce or leaves every quote where it was: a quote is   *)
(* reserved, marked and sent once each and in this order, nothing is       *)
(* marked after its trade was closed, and no verdict is withdrawn.         *)
ImplementsTradeOnce == Once!OnceSpec

-----------------------------------------------------------------------------
(* Liveness, under FairSpec.                                               *)

StatusOf(i) == IF i \in Stored THEN quickTrades[i].status ELSE Unset

(* An intent persisted by a confirmation that then died or went on does    *)
(* not stay Created: Confirm dispatches it or recovery closes it.          *)
CreatedIsLeft == \A i \in Intents : StatusOf(i) = "Created" ~> StatusOf(i) # "Created"

(* Once the store has more than the write-ahead mark, recovery carries the *)
(* venue's verdict into it: an Unknown, accepted or partly filled trade    *)
(* whose order is done gets a final status and releases its slot.          *)
DoneIsSettled ==
  \A i \in Intents :
    (StatusOf(i) \in {"Unknown", "Accepted", "PartiallyFilled"}
       /\ venue[i] \in Done)
      ~> StatusOf(i) \in Terminal

-----------------------------------------------------------------------------
(* Statements of the repository's documents that the code does not meet.   *)

(* "Recheck queries exchange state; it does not ... force a failed         *)
(* status": a trade is closed as rejected only when no order was sent for  *)
(* it or the venue rejected the order.                                     *)
RejectedMeansNoOrder ==
  \A i \in Stored :
    quickTrades[i].status = "Rejected" => sends[i] = 0 \/ venue[i] = "rejected"
=============================================================================
