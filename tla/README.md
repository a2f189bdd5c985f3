# VenueWire in TLA+

VenueWire connects to two exchanges, Bybit and Deribit. A command line places
and follows orders over REST, websocket and FIX; a web console lets a
visitor of a public demo turn a quote into one spot order ("Quick Trade"). This
directory models the parts of the program that decide *what is sent to a venue,
how often, and what is remembered of it*, checks them with TLC on small
instances and proves the main safety properties with TLAPS for all instances.

## 1. Inventory

| Component | State | Operations | Talks to |
|---|---|---|---|
| Intent store, quick trades (`internal/intent/quicktrade.go`, `store.go`) | trades by intent, index of requests, index of consumed quotes; one JSON file | confirm, alias of a request, dispatch mark, update, lookups | file system; called by the application and by reconciliation |
| Intent store, plans (`internal/intent/store.go`, `planner.go`) | planned orders, trade cursors; the same file | SavePlan, Claim, Finish, SetCursor; Create, Execute | Deribit client; called by `order plan`, `order execute`, `reconcile` |
| Quick Trade application (`internal/quicktrade/application.go`) | quote cache; locals of each request goroutine | CreateQuote, Confirm | store, quote service, spot adapter |
| Quote service (`internal/quicktrade/quote.go`) | none | Create, ValidateForConfirm | spot adapter (market, capacity, fees) |
| Spot adapters (`internal/spotadapter`) | none | Market, Capacity, Submit | REST and Deribit clients |
| Trade reconciliation (`internal/tradereconcile`) | a mutex | RecheckTrade, Recover | store, venue REST, account refresh |
| Web console server (`internal/webconsole/server.go`, `trade_api.go`) | sessions, their sockets and counts, login limits, rechecks under way | login, logout, requireSession, addConn, removeConn, closeAll, begin, finish | application, broker, account state |
| Browser socket (`internal/webconsole/websocket.go`) | sequence number, control queue | snapshot, event, resync, expiry | broker, page |
| Page (`web/src/App.vue`) | account shown, last sequence number | read a message, poll, reconnect | browser socket, HTTP API |
| Account state (`internal/accountstate`) | snapshots of two accounts, revision, refresh in flight | Refresh, UpdateUSDPrices, Revalue, metrics | venue REST, broker |
| Venue streams of the web console (`cmd/venuewire/web_streams.go`) | bounded channel of refresh triggers | triggerVenue, runWebRefreshTriggers | websocket clients, account state |
| Runtime event broker (`internal/runtimeevent`) | sequence number, subscribers | Publish, SubscribeFrom, resync | browser sockets |
| Order state (`internal/orderstate`) | orders and executions; one JSON file | ApplyOrder, UpsertREST, ApplyExecution, RecordExecution | every trading command |
| Reconciliation of command-line orders (`internal/reconcile`, `internal/deribitreconcile`) | locals | Reconcile | order state, venue REST |
| Bybit websocket clients (`internal/ws`) | connection, bounded queue, backoff | Run (connect, authenticate, subscribe, serve) | sinks of the commands |
| Deribit client and websocket (`internal/deribit`) | token, pending requests, recovery buffer, event queue, order book | Call, Run, Apply | Deribit |
| Deribit FIX session (`internal/deribitfix/session.go`) | sequence numbers, buffer of early messages, journal | Run, Send, gap recovery, resend, SequenceReset | Deribit |
| Deribit FIX commands (`cmd/venuewire/deribit_fix_orders.go`) | channels between callbacks and command | place, amend, cancel | Deribit FIX session, JSON-RPC |
| Bybit FIX session and router (`internal/fix`) | sequence numbers, transport, queues of pending requests | Run, SendApplication, Place, Cancel, Amend, HandleMessage | order state, Bybit |
| Command line (`cmd/venuewire`) | none | one function per command | all of the above |

**What is hard.** Several request goroutines confirm the same quote; the store
is read without its lock before it is written under it; an order is sent between
two writes, so a crash leaves the order's fate open; a timeout says nothing of
the order; a recheck reads a trade, asks the venue and writes its conclusion over
whatever the trade says by then. On the command line several *processes* write
one snapshot file; a fill is reported on two topics, one as a total and one as
an increment; streams break, their queue overflows, and reconciliation repairs
the file with views that are already old. A plan is executed by one process while
another recovers it by its label, which the venue does not keep unique. A FIX
session runs its callbacks with its mutex released while commands send; the server
replays, resets and asks for replays; a request the command has given up may still
be resent. In the web console a change passes through five bounded queues, each
of which drops something when it is full; rechecks, refreshes and sockets are
started by requests that meet a sign-out, an expiry or the shutdown between their
steps. `PROJECT.json` lists the most important of these hazards at their lines, and
section 6 further ones.

**What makes the components correct.** An intent and a quote are sent at most
once; what was sent carries a write-ahead mark; a final status is true at the
venue; quotas hold in every window; a sent order is eventually settled; the
order file says only what happened and does not count an execution twice; the
final status of an order reaches the file although streams fail; a plan is
executed once, and its recorded outcome is true. A FIX write is carried out at
most once and its result is true; no answer is lost in a gap, and requests wait until
a gap is closed. A change of the account is shown by the page in the end; no
socket outlives its session, and every slot is given back.

## 2. Modules

| Module | Models |
|---|---|
| `TradeStatus` | the statuses of a quick trade and the table of its transitions |
| `IntentStore` | the durable store: one action per operation of `quicktrade.go` |
| `TradeOnce` | abstract: an intent is created, marked, sent at most once, and settled |
| `QuickTrade` | application, quote cache, recheck and recovery, crashes, the venue; extends `IntentStore` |
| `IntentStoreProofs`, `QuickTradeProofs` | theorems about the two |
| `OrderState` | the shared order file: transitions, REST merge, executions |
| `OrderFlow` | `order place`, `private-stream` with its websocket client, `reconcile`; extends `OrderState` |
| `OrderFlowProofs` | theorems about it |
| `PlanFlow` | Deribit's `order plan`, `order execute` and `reconcile` as processes over the intent file and the order file; extends `OrderState` |
| `PlanFlowProofs` | theorems about it |
| `DeribitFix` | the Deribit FIX session, message by message, and the server it talks to |
| `DeribitFixWrite` | `place`, `amend` and `cancel` over it, with the read that verifies; extends `DeribitFix` |
| `DeribitFixProofs` | theorems about the two |
| `BybitFix` | the Bybit FIX session and the order router; extends `OrderState` |
| `BybitFixProofs` | theorems about it |
| `AccountState` | the account manager: coalesced refresh, revaluation |
| `VenueStream` | Deribit's private websocket client as the web console runs it |
| `BrowserFeed` | broker, browser socket and page |
| `WebLive` | the three together with the trigger channel and its worker |
| `WebLiveProofs` | theorems about it |
| `WebServer` | sessions, sockets, sign-out, recheck gate, shutdown |
| `WebServerProofs` | theorems about it |
| `MCIntentStore`, `MCQuickTrade`, `MCOrderFlow`, `MCPlanFlow`, `MCDeribitFix`, `MCBybitFix`, `MCWebLive`, `MCWebServer` | instances for TLC |

### IntentStore and QuickTrade

`Store.update` takes a process lock and a file lock, loads, mutates, writes a
temporary file and renames it: each store operation is one action. The variables
`quickTrades`, `quickRequests` and `consumedQuotes` are the three maps of the
file. A trade keeps what the properties tell apart: terms (session, request,
quote, venue), creation time, status, result, send mark and balance status.
Prices, quantities and texts are left out.

`Application.Confirm` is *not* one action. The program counter `pc[h]` of each
request goroutine stops at every point where another goroutine may run:
lookup by request, lookup by quote, cache, validation (venue calls), persist,
dispatch mark, send, answer, record. Its locals are in `call[h]`.
`RecheckTrade` (`rpc`, `rcall`) is split the same way: read the trade, read the
venue, write, refresh the account, write the balance status. `Service.mu`
admits one at a time. `Crash` empties the cache and all locals and keeps the
file. The quote cache is exact: expired entries are pruned, then the oldest entry
is evicted.

The venue is external. An order in flight may be accepted, rejected or
lost; afterwards it is filled and cancelled as an immediate-or-cancel order is.
The answer to `Submit` is an acknowledgement, a rejection or an uncertain error,
as the adapters classify it.

### OrderState and OrderFlow

The file holds for each order its status and its cumulative quantity in lots,
and the set of executions. `FileStore.Update` holds a file lock, so each
operation is one step for all processes; but `Service.Snapshot` returns what
the process loaded after *its own* last update, so `cache[r]` models the snapshot
of each reconciler's process, and `Reconcile` decides from it.
`Reconcile` is one action per read (open orders, recent orders, executions),
one for the snapshot, and one per repair or recorded execution.

`conn` follows the private websocket client: reconcile at startup, connect,
reconcile only if there was a session before, serve. `wire` is what the client is
subscribed to and has not applied; its queue may be full. A sink error, a full
queue or a lost connection drops the rest of `wire`. A restart forgets
`hadSession`.

### PlanFlow

Each process `c` runs one command at a time; `cmd[c]` holds its program counter
and locals. `plan` and `execute` begin with `RecoverUncertain`, `reconcile` is
`Run`: both list the plans once (`listed`, `todo`) and then work from that list,
although other processes write the file meanwhile. For each plan there is one
action for the read of the open orders, one for the read of the history (an order
that closes between the two, or is not yet indexed, is missed), and one for each
write: the review, the order file, the adoption as `Submitted`, each trade. `Execute`
is split at the read, the validation, the claim, the send, the answer, the
read-back and the last write. `Finish` writes whatever its caller concluded
over whatever is on file, as the code does. `Abort` ends a command at any
step: a failed read or write, a signal, a crash. Three transports (HTTP, websocket,
FIX) differ in when they fail before sending and in what they call a
rejection; `PlaceFails` and `PlaceAnswer` have the union of their outcomes.

The plan's ID is the label of its order and the key in the order file. Plans in
`Foreign` may meet an order of someone else with the same label. The last part of
`Run`, the pages of an instrument's trades, is abstracted to what it may
record: any of the trades that exist, for orders on file.

### DeribitFix and DeribitFixWrite

One goroutine reads and handles messages, callers of `Send` write under the same
mutex. `handle` is one action from lock to unlock; a callback (`OnMessage`,
`OnRecovery`) is made with the mutex released and so ends an action, and `phase`
says where `handle` goes on when it returns. `pending` is the buffer of early
messages, `journal` what a ResendRequest is answered from; both have the limits
of the code, and meeting a limit does what the code does. A message is its
type, its number, `PossDupFlag`, and for a report the status of the order and
whether the parser accepts it. The server numbers its messages, replays or resets
over what is asked for, asks for what it misses, and resets on its own over a
report that is never sent. `delivered`, `skipped` and `covered` are history.

`DeribitFixWrite` is `runDeribitFIXWrite` with its three callers: logon, security
list, build, send, wait for the first report or cancel reject of the order,
otherwise unknown. Amend and cancel then read the order over JSON-RPC and
conclude from the read alone. The order at the venue may fill at any time.

### BybitFix

Bybit has no gap fill: every connection begins at number 1, any fault ends it, and
`OnReconnect` reconciles after the next logon. `Run`'s loop is one action for each
message up to the point where the order state is written, since the router's
callers write it too. `Place`, `Cancel` and `Amend` are split at the read of the
state, the write, the queue of pending requests and `SendApplication`, which takes
the transport `Run` may be dropping. A refusal without identifiers is
given to the head of the queue, as `popPending` does. The server is the one of
`fixmock`, and may also refuse, break off, speak on its own or carry out
a request of a connection that is gone.

### AccountState, VenueStream, BrowserFeed and WebLive

A balance is known by how often the venue has changed it, so "up to date" is an
equation. `AccountState` keeps the manager's snapshot with its revision, and `call`
is the refresh that all callers share, from the read of the venue to the moment they
return. `VenueStream` is the read loop of `WSClient`: what comes before the
connection is ready is buffered, what comes after is queued, and a full buffer or queue
ends the connection, whose processor still empties its queue. `BrowserFeed` has the
broker's queue of one subscriber, `handleWebSocket` with its numbers, the page's
requests for a snapshot, and the page's HTTP polls, whose responses may be late. Events
carry no data: the handler reads the snapshot when it sends. `WebLive` joins them by the
trigger channel: `triggerVenue` drops what does not fit, one worker serves both
venues and also rechecks trades (`elsewhere`). `Restart` keeps the page open
and begins a new process, whose revisions start again.

### WebServer

Each request is a goroutine `h`, and each critical section of `sessionStore` and
`recheckCoordinator` is an action; between two of them the goroutine carries the
session it was given, its socket or its stamp. A session that is taken out of the map
(`delete`, `get` on an expired one, `closeAll`) leaves its sockets with the goroutine,
which closes them after the unlock (`toClose`). `ListenAndServe` ends in three
steps: the list `closeAll` copies and works off, the listener, and `Shutdown`, which
waits for requests but not for sockets, as they are hijacked.

## 3. Runs

| Run | Bounds | Shows |
|---|---|---|
| `intent_store` | 2 intents, 2 quotes, 2 requests, 2 identities, small clock | store invariants under any caller, also with clock readings out of order |
| `quick_trade_race` | 2 goroutines, 1 quote, 2 requests, 2 crashes, store failures | the race of two confirmations with recovery: at most one submission, true final statuses, refinement of `TradeOnce` |
| `quick_trade_two` | 2 quotes, 2 intents, cache of 1 | eviction, request reuse, two orders at once: refinement of `TradeOnce` |
| `quick_trade_live` | 1 goroutine, blocked quotes, 2 crashes | under fair recovery no trade stays `Created`, and a trade follows its finished order |
| `order_flow` | 1 order of 2 lots, queue of 2, 2 faults, 1 `reconcile` | what the file says happened; executions added once; late REST answers absorbed |
| `order_flow_live` | 1 order of 2 lots, queue of 1, 3 faults | the final status of an order reaches the file |
| `plan_race` | 1 plan of 1 lot, 2 processes, 4 commands, another order with the label | one send, claimed ahead; `Rejected` and `Submitted` are true; the order file says what happened, also when a recovery meets two matches or the wrong one |
| `deribit_fix` | 1 write of each kind, buffer of 1, journal of 2, report queue of 1, reports with and without a quantity, 4 numbers each way (heartbeats leave the last one to a request), 1 fault | carried out at most once; answers delivered in order or reconciled; writes wait for recovery, which ends; results are true |
| `bybit_fix` | 1 order of 2 lots, 2 session messages each way, 1 fault | every connection speaks in sequence; final statuses are true; a session that has read everything is caught up |
| `web_live` | streams with 2 changes, or a page with 1 change and 1 revaluation; every queue of 1, 1 fault | streams lead to the venue's account; no snapshot goes unannounced; every change is shown in the end |
| `web_server` | 3 requests at a time, 2 sessions, 3 sockets, 1 trade, limits of 2, one tick | limits, counts, no socket without session, rechecks apart, shutdown |
| `forced_reject` | 1 trade | a violation, see below |

Two goroutines are enough for the confirmation race: a third can only repeat
what the second meets (the request or the quote already taken), and the theorem
`SubmittedAtMostOnce` has no bound at all. Two crashes let a recovery itself be
interrupted. Two lots make an order partly filled, and let one lot counted twice
look like a complete fill. One order suffices in `OrderFlow`, since orders share nothing
but the file and the queue. Four commands let a plan be created, executed,
recovered and executed again, two at a time, and let two recoveries follow a
killed executor with views of different age. In `deribit_fix` a buffer of one and a
journal of two make both overflow, and the fault is any of: a lost message in either
direction, a reset nobody asked for, a broken connection; the four numbers leave room
for a gap, its request, the replay and one more answer. In `bybit_fix` one fault
is enough for a second connection, and two lots for a report that comes late. In
`web_live` the streams and the page meet only in the manager's snapshot and are
explored one at a time; queues of one are full at once, and two changes fill the
stream's. In `web_server` three requests are a served socket, a socket being
registered and a sign-out (or an expiry), which is all that can meet at one session;
the third session or trade would only repeat the first two. Deadlock is not checked where all
work may be done and the bounded faults used up: the system may then rest.

One run ends in a violation of a sentence of the documentation; `PROJECT.json`
quotes it:

* `forced_reject`: a recheck that read `Created` before the dispatch mark closes
  the trade as not submitted after the order was sent.

Four more disagreements with the documentation can be followed in the models,
in each case with actions the passing runs take:

* After a crash between send and record, a cancelled order cannot be recorded, because
  `UpdateQuickTrade` (`quicktrade.go:464`) has no way from `PendingSubmit` to
  `Cancelled`; the trade stays active. `docs/3_web/TRADING_CONSOLE_V3_CHANGE_SPEC.md:905`
  (T31): "Persisted intent recoverable; restart does not resend unknown order".
* The order topic sets the cumulative quantity and the execution topic adds the
  same lot again (`orderstate/service.go:145`).
  `docs/1_bybit/05_TEST_PLAN.md:95`: "fills are not double-counted".
* An executor's timeout writes `OutcomeUnknown` without an order ID over the
  `Submitted` that a recovery wrote meanwhile (`intent/store.go:191`), and of two
  recoveries the one with the older view writes last and takes a fill back
  (`deribitreconcile/reconcile.go:124`). The V2 documents want conflicting observations
  queried "instead of silently overwriting", and that an "Old snapshot cannot overwrite
  newer reliable data" (C05).
* A page from before a restart refuses the snapshots of the new process until
  their revision has caught up, since `acceptAccount` (`App.vue:88`) compares revisions only.
  `docs/3_web/TRADING_CONSOLE_V3_CHANGE_SPEC.md:681` wants a changed `instanceId` to lead to
  a new snapshot.

Three more deviations are visible in the models.
A recheck that settles a trade before `Confirm` records the acknowledgement makes
the record fail (`Accepted` after a final status is refused), so the confirmation of
an accepted order ends in an internal error (`ConfirmRecord`). A recheck begun while
the trade was `Unknown` may write `OUTCOME_UNKNOWN` over the result of a trade
settled meanwhile (`RecheckWrite`). And two processes that execute two plans may
both find room under `MaxOpenOrders` (`ExecuteValidate`).

The passing properties are stated so that these known deviations do not hide
others: `FinalStatusIsTrue` excepts trades closed as `NOT_SUBMITTED_AFTER_RESTART`
(`forced_reject`); `DoneIsSettled` speaks of trades past the write-ahead mark
(`Unknown`, `Accepted`, `PartiallyFilled`), from which the table admits every
result; `StatusHappened` does not speak of `Filled`, which a lot counted twice may
cause; `NothingUnannounced` and `ChangeIsShown` except a page older than the
process; `ShutdownLeavesNone` excepts a sign-in that comes behind the list `closeAll`
has copied; `CaughtUp` and `DoneIsKnown` of `BybitFix` except an order whose refused
cancel has left it in `RejectedCancel`, from which no report leads; `StreamsKeepUp` excuses a dropped
trigger, one that joins a refresh which has already read the venue, and a failed read.

The runs check the type invariants of the Quick Trade, plan and Deribit FIX models.
Those of `IntentStore`, `OrderFlow`, `WebServer`, `BybitFix` and `WebLive` are proved, and so
not among the runs' properties.

## 4. Fairness

`quick_trade_live` assumes strong fairness of recovery for each trade, since
`Service.mu` may be held by the recheck of another one whenever it is the trade's
turn, and of a recheck's successful read of the venue; and weak fairness of the other
steps of a recheck that has begun and of a confirmation that has begun:
`runQuickTradeRecovery` (`cmd/venuewire/web_command.go`)
runs `Recover` at startup and then on a ticker, and each call rechecks every
active trade. The venue is assumed to answer in the end; crashes are
finitely many. Nothing is assumed of browsers.

`order_flow_live` assumes that the stream process and its reconciliation go on:
`PrivateClient.Run` is an endless loop with a capped backoff, and a process
that ends is started again. Faults are finitely many. Nothing is assumed of
`order place`, of `reconcile` or of the venue. Changes between the startup
reconciliation and the first subscription are excepted, because the code reads
them only after the next reconnect.

`deribit_fix` assumes that `Run` reads what has arrived and handles it, that its
callbacks return, and that the server reads and answers; `bybit_fix` the same
of `Run`, its ticker and the server. Nothing is assumed of the callers of `Send`, of fills or
of the timeouts. Faults are finitely many.

`web_live` assumes that the interval of `Manager.Run` fires, that some read of the venue
succeeds in the end, that the manager goes on once it has read, and that the socket and the
page go on. Nothing is assumed of the streams, the trigger worker or the browser's polls:
`ChangeIsShown` holds without them. Faults are finitely many.

## 5. Proofs

All theorems hold for every value of the constants that satisfies the named
assumptions (`IntentStore`: quotas and bounds are natural numbers and the null
values are not records; `QuickTrade`: the configured identity is an identity, TTL
and cache capacity are positive, the updates the callers build are among those
the store is offered; `OrderState`: at least one lot, null values are not
records; `PlanFlow`: the limit and the bound are natural numbers, null values are not
records; `BybitFix`: the bounds are natural numbers and the absent update is none of the
updates; `DeribitFix`: the limits of the buffer and the journal are positive, the bounds natural
numbers, and the absent message is not a message; `DeribitFixWrite`: the queue of reports holds at least one;
`AccountState`, `VenueStream`, `BrowserFeed`, `WebLive`: the bounds are natural
numbers, every queue holds at least one message, the absent account is not a record and
is what an empty page shows; `WebServer`: the bounds are natural numbers, the limits, the lifetime and the spacing
positive, there is a trade to recheck, and the goroutine of the shutdown is not a handler).

* `StoreTypeCorrect`, `IndexesAlwaysAgree`, `ActiveQuotaHolds`,
  `HourlyQuotaHolds`, `TradesArePreserved`: the store alone, under any caller.
  The indexes and the trades must be taken together: a dangling index entry
  would let a quote be used twice. `ActiveQuotaHolds` rests on the status table
  never leading back to an active status from a settled one;
  `HourlyQuotaHolds` on the fact that a new trade is counted at its own clock
  reading, with all trades of the hour before it, and on a careful look at readings
  that arrive late.
* `QuickTradeUsesStore`: every step of the composed system is a step of the store
  or leaves it alone, so the store's theorems carry over.
* `SubmittedAtMostOnce`: at most one send for each intent and each quote.
  "At most one send" is not inductive. `SubmissionInv` adds that the indexes agree,
  that each goroutine past the persist step owns a stored intent, that no two
  own the same one, that an owner before the send step owns an unsent intent, and
  that whatever was sent carries the mark. The created flag of
  `ConfirmQuickTrade` gives ownership; a crash only removes owners.
* `FinalStatusesAreTrue`: a final status is true at the venue. `TruthInv` adds what
  the writers carry: a rejection that `Submit` returned is still the venue's when it is
  recorded; while a recheck reads and writes, nothing but the venue's rejection
  can have closed its trade since it began; and what it read is still true when it
  writes, since an order that is done stays so. It rests on `SubmissionInv`, which says
  that an order is unknown to the venue until its owner sends it.
* `QuickTradeImplementsTradeOnce`: the refinement, step by step. A confirmation that
  creates is the reservation, `MarkDispatched` the mark, the send the send, and every
  update the table admits is a verdict or leaves one in place; all else stutters.
* `TypeCorrect`, `FlowTypeCorrect`: type invariants of the two compositions.
* `ExecutionsCountedOnce`: no execution is added twice. The invariant `FlowInv`
  says that an execution that was counted is on file, that the file never forgets
  one, that only orders that were seen are repaired, and that an open order has
  lots left.
* `FileTellsWhatHappened`: what the order file says happened. `HappenedInv` says it also of
  everything on its way to the file, the stream's messages and the reads of every
  reconciler however old, and that the venue moves on in a way that keeps them true.
* `LateAnswersAbsorbed`: an `order place` whose answer comes behind the stream's news does not
  fail on it. From the same invariant: every status the file may have by then is one
  the REST merge takes.

* `PlanTypeCorrect`, `PlansPlacedOnce`, `ClaimIsWrittenAhead`, `RejectionsAreTrue`,
  `SubmissionsAreTrue`: planned orders, with any number of plans, processes,
  commands and shared labels. `PlanInv` says that at most one process holds the
  claim of a plan and that the plan's status shows it; that a holder before the send
  has an unsent plan, and the venue knows the order of a plan only if it was
  sent; and that every view a recovery holds is one the venue has at most moved
  on from. The last part is what makes a `Submitted` written late still true; the
  first is needed because `Finish` looks at nothing, so that only the claim keeps
  two executors apart.
* `PlanFileIsTrue`: no status and no lot in the order file is made up. `FileInv` is stated
  of each record with the order that bears it out, which may be someone else's with the same label,
  and of executions whose order is not on file yet. It uses the views of `PlanInv`.

* `DeribitTypeCorrect`, `AnswersComeInOrder`, `NoAnswerIsMissed`, `WritesPauseUntilWhole`: the
  Deribit FIX session. `SessionOK` says that whatever is on the way, buffered
  or in the hands of `OnMessage` is a copy of the message with its number in the server's log, or a reset that
  stays within that log; that every message of the journal is under its own number; and
  that something buffered or passed over means a recovery. `OrderInv` says that delivered numbers
  are increasing and below the next expected one, and that an answer that is missing was passed over and
  not yet reconciled. So a copy that comes twice is behind, and `recovering`, which `Send`
  looks at, is all that the action property needs.
* `WriteIsCarriedOutOnce`: `OnceInv` says that all copies of the write, on the way and in the journal,
  have one number, that the server is past that number once the venue has carried it out, and that there
  is no copy before the command attempts the write, nor ever when it returns "not sent".
* `ResultsAreTrue`: every report of the session is about this write or a fill of its
  order, but one: the report that an unasked reset passes over, which nobody sent. `EvidenceInv` follows
  each report of the log, on the way, in the buffer, in `OnMessage` and in the command's channel, and says
  that it is borne out by the venue, or is behind the next expected number, or has a reset in front of it; so
  what reaches the channel is borne out. A cancel reject is only there when the write was taken and refused,
  and no copy of it is left that the server would still take. `ResultInv` says of each result what it rests on,
  and the venue does not undo it.

* `NumbersStartWithLogon`: on a Bybit connection the client's messages count on from a Logon
  with number 1. `LinkInv` adds that the client's next number is the server's plus what is on
  the way, and that a transport is published only behind its logon: so a
  caller of `SendApplication` cannot speak before it.
* `FinalStatusesAreTheVenues`: a final status in the file is the venue's. `TruthInv` says that every
  copy of an order (in the file, in a caller between its read and its write, in a
  message, in the update being applied, in the reconciliation's view) is one the venue has at most
  moved on from; `RestInv` keeps the types of the rest (with both, `FixTypeCorrect`).
* `NothingIsMissed`: a logged-on session that has read everything knows every fill and, but for a
  cancel that keeps its status, every order as the venue has it. This is the longest argument.
  `ServeInv` ties the server's numbers to the client's, unless there is a gap that will end the
  connection; `PlacedKnown` says that what may reach the venue is on file already, so that the
  reconciliation asks for it; `CoverInv` says of every order and every fill that it is
  on file, in a report on the wire, in the hands of `Run`, or ahead of a
  reconciliation that has not read yet, and that the last report of an order on the wire
  is the venue's latest.

* `EveryChangeIsAnnounced`: a page with nothing on its way shows the manager's snapshot.
  `ToldInv` says that a connected page shows it or that one of the messengers is at work: the
  call about to announce, an event or a marker in the subscriber's queue, an envelope with this snapshot or a
  marker, a request of the page. A queue that overflows keeps its marker, a gap turns into a
  request. `AheadInv` is what makes `acceptAccount` harmless: no account that the page, its
  connection or a late response holds is newer than the snapshot, unless of an older process.
* `StreamsKeepSnapshot`: a ready stream with nothing left to do has brought the snapshot up to date.
  `StreamCover` follows a change along the wire, the client's queue, the trigger channel and the refresh;
  `SubscribedInv` says that the client is ready only when the server is subscribed, so that a change
  is put on the wire; and `ReadInv` that reads and snapshots only go forward, so that a
  refresh which read early cannot store over a newer one.
* `LiveTypeCorrect`: the types of the four modules; no queue passes its capacity.

* `ServerTypeCorrect`, `NoSocketWithoutSession`, `RechecksAreApart`: the console's
  server, with any number of requests, sessions, sockets and trades.
  `NoOrphan` alone is not inductive. `Inv` adds that a goroutine remembers the session it was given, that no two
  goroutines have one socket, and that only a goroutine on its way to close sockets has
  taken any out of the store. So a session that goes leaves each of its sockets with the
  goroutine that took it out, nobody else's socket is lost with it, and a
  socket that is not yet registered is refused by `addConn`.
  `GateInv` says of the recheck gate that a goroutine that rechecks is the only one
  for its trade, that the trade carries the mark, and that the goroutine's stamp is the one `begin`
  accepted; and that a trade without the mark has that stamp as its last. So a later
  `begin` compares with the right one, although stamps are taken before the mutex.
* `SlotsAreReturned`, `SocketsWithinLimits`: `SlotInv` says that the count is the number of registered
  sockets, that sessions outside the map have none, and that each registered socket has a
  goroutine that will remove it. The two places that give a slot back (`removeConn` and
  taking a session out of the map) both look whether the socket is still registered.
* `ShutdownClosesSockets`: `ShutInv` follows the list of `closeAll`: a session from before the
  shutdown is out of the map or still on the list, and when the listener closes, list and
  sockets are worked off. A registration that comes late is refused, as its session is gone.

Only model-checked: the liveness properties (`CreatedIsLeft`, `DoneIsSettled` and `DoneIsKnown`,
`RecoveryEnds` and `ChangeIsShown`), since liveness under fairness is out of the prover's
reach. Every invariant and every action property that a passing run checks is proved.

## 6. What is not modelled

* Prices, quantities, fees and their rounding; request signing, JSON and FIX
  encodings; logging, configuration, the forms and tables of the page.
* A recheck's several venue reads are one read at one instant. The code's answer
  for contradictory evidence (unknown) is among the outcomes.
* A power failure that undoes a rename; `Crash` is the end of the process.
* In `OrderFlow` the two messages of one fill are adjacent, in either order;
  conditional orders, amendments and the cancel command (which writes no state)
  are left out.
* In `PlanFlow` the cursor and the order of the trade pages, `ApplyUserChanges` of
  Deribit's stream, `order amend` and `order cancel`; the risk limits other than
  the count of open orders.
* FIX: the codec; Deribit's mock server and the demonstration that runs against it.
  A write is one step that fails or succeeds, so a write that blocks for ever,
  holding the mutex, is not among the behaviours.
* The web console: the limiter of sign-ins, the read-only handlers, the execution
  metrics and the health record, Bybit's stream (a trigger like any other), a second venue or a second
  browser (they share only the trigger channel and the counts).
* Deribit's order book, request correlation and token refresh.

Hazards seen in the code and covered by no property, beside those `PROJECT.json` lists:

* A crash between the final status and the balance update leaves `BalanceSyncStatus`
  pending, since `Recover` skips settled trades (`tradereconcile/service.go:133`).
* One context of 20 seconds bounds a whole recovery round, so slow rechecks of the
  first trades starve the later ones (`web_command.go:155`).
* The rename is not followed by a directory sync (`intent/store.go:257`).
* Two reconcilers set one cursor; the slower one's write is refused and ends its
  command (`intent/store.go:138`).
* While a Deribit FIX session recovers, its ticker sends no heartbeat, and at no time
  does it notice that the server has fallen silent (`deribitfix/session.go:197`).
* A polite Logout makes Bybit's `Run` return nil, and nobody reconnects
  (`fix/session.go:226`).
* A response for the venue selected before is accepted after the user has selected
  the other one (`App.vue:136`).
* A session that expires and is never asked for again stays in the map
  (`webconsole/server.go:501`).

## 7. Plan

Done: the modules of section 2 and the proofs of section 5. In order of importance:

1. `TradePages`: the trade cursor, pages of trades that share a timestamp, two
   reconcilers on one cursor; `ApplyUserChanges` in `PlanFlow`.
2. The limiter of sign-ins in `WebServer`; a second venue in `BrowserFeed`.
3. `OrderBook`: change identifiers, snapshot and resync.
4. `Fills` and `QuotePricing`: the arithmetic as operators against
   reference definitions.
