------------------------------ MODULE WebLive -------------------------------
(***************************************************************************)
(* The live side of the web console: a change of the account at the venue  *)
(* reaches the page through the private stream (VenueStream), the bounded  *)
(* channel of refresh triggers and its one worker (cmd/venuewire/          *)
(* web_streams.go), the account manager (AccountState), the event broker   *)
(* and a browser socket (BrowserFeed).  Connections break, reads fail,     *)
(* queues fill, and the server is restarted under an open page.            *)
(***************************************************************************)
EXTENDS AccountState, VenueStream, BrowserFeed

CONSTANTS
  Scenarios,       \* what a behaviour has: the streams, a page, and how many
                   \* changes and revaluations
  TriggerSize,     \* capacity of the channel accountRefresh
  MaxOther,        \* bound: triggers of the other venue, and trade rechecks
  MaxIdle,         \* bound: refreshes begun when the snapshot is up to date
  MaxFaults        \* bound: broken connections, failed reads, time-outs, restarts

ASSUME LiveLimits ==
  /\ Scenarios \subseteq [streams: BOOLEAN, page: BOOLEAN, changes: 0 .. MaxChanges,
                          revalues: 0 .. MaxRevalues]
  /\ TriggerSize \in Nat \ {0} /\ {MaxOther, MaxIdle, MaxFaults} \subseteq Nat
  /\ NoPage = NoAccount

VARIABLES
  scenario,        \* does runWebVenueStreams run, is the page open, its bounds
  triggers,        \* accountRefresh: venues waiting for the worker
  elsewhere,       \* the worker refreshes the other venue, or rechecks trades
  other, idles, faults,   \* what has been used of the bounds
  excused          \* history: since the last read a trigger was lost or useless

workerVars == <<scenario, triggers, elsewhere>>

boundVars == <<other, idles, faults>>

vars == <<accountVars, streamVars, feedVars, workerVars, boundVars, excused>>

Init ==
  /\ scenario \in Scenarios
  /\ AccountInit /\ StreamInit /\ FeedInit
  /\ triggers = <<>> /\ elsewhere = FALSE
  /\ other = 0 /\ idles = 0 /\ faults = 0 /\ excused = FALSE

Queued(venue) == \E i \in DOMAIN triggers : triggers[i] = venue

Fault == faults < MaxFaults /\ faults' = faults + 1 /\ UNCHANGED <<other, idles>>

-----------------------------------------------------------------------------
(* Triggers.                                                               *)

(* triggerVenue: a full channel drops the trigger.                         *)
triggerVenue(venue) ==
  triggers' = IF Len(triggers) < TriggerSize THEN Append(triggers, venue) ELSE triggers

TriggerLost == Len(triggers) = TriggerSize /\ ~Queued("this")

(* The private stream asks for a refresh.                                  *)
StreamTriggers ==
  /\ triggerVenue("this")
  /\ excused' = (excused \/ TriggerLost)

(* Mutated form: a stream that becomes ready triggers nothing.             *)
OnReadyIgnored == UNCHANGED <<triggers, excused>>

OnReady == StreamTriggers

AnswerArrives ==
  /\ ReadsAnswer
  /\ IF LastAnswer THEN OnReady ELSE UNCHANGED <<triggers, excused>>
  /\ UNCHANGED <<accountVars, feedVars, scenario, elsewhere, boundVars>>

NotificationArrives ==
  /\ ReadsNotification
  /\ UNCHANGED <<accountVars, feedVars, workerVars, boundVars, excused>>

SinkTriggers ==
  /\ SinkTakes /\ StreamTriggers
  /\ UNCHANGED <<accountVars, feedVars, scenario, elsewhere, boundVars>>

OtherTriggers ==
  /\ scenario.streams /\ other < MaxOther /\ other' = other + 1
  /\ triggerVenue("other")
  /\ UNCHANGED <<accountVars, streamVars, feedVars, scenario, elsewhere, idles, faults, excused>>

-----------------------------------------------------------------------------
(* runWebRefreshTriggers, one goroutine.                                   *)

WorkerFree == ~elsewhere /\ caller["trigger"] = "idle"

WorkerTakes ==
  /\ WorkerFree /\ triggers # <<>> /\ Head(triggers) = "this"
  /\ triggers' = Tail(triggers)
  /\ Refresh("trigger")
  /\ excused' = (excused \/ call.at \notin {"none", "reading"})
  /\ UNCHANGED <<streamVars, feedVars, scenario, elsewhere, boundVars>>

WorkerTakesOther ==
  /\ WorkerFree /\ triggers # <<>> /\ Head(triggers) = "other"
  /\ triggers' = Tail(triggers) /\ elsewhere' = TRUE
  /\ UNCHANGED <<accountVars, streamVars, feedVars, scenario, boundVars, excused>>

WorkerRechecks ==
  /\ WorkerFree /\ scenario.streams /\ other < MaxOther /\ other' = other + 1
  /\ elsewhere' = TRUE
  /\ UNCHANGED <<accountVars, streamVars, feedVars, scenario, triggers, idles, faults, excused>>

WorkerReturns ==
  /\ elsewhere /\ elsewhere' = FALSE
  /\ UNCHANGED <<accountVars, streamVars, feedVars, scenario, triggers, boundVars, excused>>

-----------------------------------------------------------------------------
(* The manager.                                                            *)

UpToDate == snap # NoAccount /\ snap.bal = venueAccount

(* The ticker of Run, or the user's refresh.                               *)
RefreshBegins ==
  /\ Refresh("interval")
  /\ IF UpToDate THEN idles < MaxIdle /\ idles' = idles + 1 ELSE UNCHANGED idles
  /\ UNCHANGED <<streamVars, feedVars, workerVars, other, faults, excused>>

RefreshSucceeds ==
  /\ RefreshReads(TRUE) /\ excused' = FALSE
  /\ UNCHANGED <<streamVars, feedVars, workerVars, boundVars>>

ReadFails ==
  /\ RefreshReads(FALSE) /\ Fault /\ excused' = TRUE
  /\ UNCHANGED <<streamVars, feedVars, workerVars>>

GivesUp(c) ==
  /\ WaitTimesOut(c) /\ Fault
  /\ UNCHANGED <<streamVars, feedVars, workerVars, excused>>

ManagerStep ==
  /\ RefreshStores \/ RefreshFails \/ RefreshEnds
  /\ UNCHANGED <<streamVars, feedVars, workerVars, boundVars, excused>>

(* OnEvent publishes to the broker.                                        *)
Announce ==
  /\ \E event \in {"account.updated", "venue.health.updated"} :
       RefreshAnnounces(event) /\ Publish(event)
  /\ UNCHANGED <<streamVars, sock, seq, toBrowser, asked, controls, lastSeq, view,
                 response, workerVars, boundVars, excused>>

PriceChanges ==
  /\ Revalue /\ revalues < scenario.revalues
  /\ UNCHANGED <<streamVars, feedVars, workerVars, boundVars, excused>>

AnnounceValuation ==
  /\ PublishValuation /\ Publish("valuation.updated")
  /\ UNCHANGED <<streamVars, sock, seq, toBrowser, asked, controls, lastSeq, view,
                 response, workerVars, boundVars, excused>>

-----------------------------------------------------------------------------
(* The venue, the browser, and what goes wrong.                            *)

VenueChanges ==
  /\ AccountChanges /\ venueAccount <= scenario.changes /\ ServerNotifies
  /\ UNCHANGED <<conn, srv, answered, codQueryDone, subscribed, ready, buffered, queued,
                 leftover, feedVars, workerVars, boundVars, excused>>

StreamStep ==
  /\ (scenario.streams /\ StreamDials) \/ ServerServes \/ ServerAnswers
  /\ UNCHANGED <<accountVars, feedVars, workerVars, boundVars, excused>>

StreamIsLost ==
  /\ StreamBreaks /\ Fault
  /\ UNCHANGED <<accountVars, feedVars, workerVars, excused>>

SocketStep ==
  /\ \/ (scenario.page /\ SocketConnects) \/ FirstSnapshot(snap) \/ SendEvent(snap)
     \/ AnswerResync(snap) \/ ReadControl \/ PageReads
  /\ UNCHANGED <<accountVars, streamVars, workerVars, boundVars, excused>>

SocketIsLost ==
  /\ SocketCloses /\ Fault
  /\ UNCHANGED <<accountVars, streamVars, workerVars, excused>>

PollStep ==
  /\ (scenario.page /\ PagePolls(snap)) \/ PollReturns
  /\ UNCHANGED <<accountVars, streamVars, workerVars, boundVars, excused>>

(* The page stays open and reconnects to the new process.                  *)
Restart ==
  /\ AccountRestart /\ StreamRestart /\ Closed /\ Fault
  /\ triggers' = <<>> /\ elsewhere' = FALSE /\ excused' = FALSE
  /\ UNCHANGED <<scenario, view, response>>

Next ==
  \/ AnswerArrives \/ NotificationArrives \/ SinkTriggers \/ OtherTriggers
  \/ WorkerTakes \/ WorkerTakesOther \/ WorkerRechecks \/ WorkerReturns
  \/ RefreshBegins \/ RefreshSucceeds \/ ReadFails \/ (\E c \in Refreshers : GivesUp(c))
  \/ ManagerStep \/ Announce \/ PriceChanges \/ AnnounceValuation
  \/ VenueChanges \/ StreamStep \/ StreamIsLost
  \/ SocketStep \/ SocketIsLost \/ PollStep \/ Restart

(* The ticker fires, a goroutine that can go on does, and the socket's     *)
(* select serves each of its channels; what the page asks for is answered. *)
Fairness ==
  /\ WF_vars(RefreshBegins) /\ WF_vars(RefreshSucceeds)
  /\ WF_vars(ManagerStep) /\ WF_vars(Announce)
  /\ WF_vars(SocketStep)

Spec == Init /\ [][Next]_vars

FairSpec == Spec /\ Fairness

-----------------------------------------------------------------------------
(* Every variable has its type, and no queue holds more than its channel:  *)
(* the subscriber's, the triggers', the controls', the stream's two.       *)
TypeOK ==
  /\ AccountTypeOK /\ StreamTypeOK
  /\ triggers \in Seq({"this", "other"}) /\ Len(triggers) <= TriggerSize
  /\ Len(events) <= BufferSize /\ controls <= ControlSize
  /\ Len(toBrowser) <= WireSize
  /\ view \in Accounts \union {NoAccount} /\ response \in Accounts \union {NoAccount}

Quiet ==
  /\ sock = "live" /\ events = <<>> /\ toBrowser = <<>> /\ asked = 0 /\ controls = 0
  /\ call.at # "stored" /\ ~repriced

(* When nothing is on its way to a connected page, the page shows the      *)
(* manager's snapshot (or a newer one): a snapshot replaced between the    *)
(* subscription and the first message, or announced when the queue was     *)
(* full, is not forgotten.  A page from before a restart is excepted:      *)
(* acceptAccount compares revisions of two processes.                      *)
NothingUnannounced ==
  Quiet /\ snap # NoAccount => view # NoPage /\ (view = snap \/ view.inst # inst)

Settled ==
  /\ ready /\ wire = <<>> /\ buffered = 0 /\ queued = 0 /\ leftover = 0
  /\ triggers = <<>> /\ caller["trigger"] = "idle" /\ call.at = "none"

(* With the private stream ready and everything it sent worked off, the    *)
(* snapshot is the venue's account, whenever the change came: before the   *)
(* subscription, between it and its answer, or behind it.  Excused is only *)
(* what the code accepts: a trigger dropped from a channel full of the     *)
(* other venue's, one that joined a refresh which had read the venue, and  *)
(* a refresh that failed.                                                  *)
StreamsKeepUp == Settled /\ ~excused => snap # NoAccount /\ snap.bal = venueAccount

(* A change at the venue is shown by the page in the end, through broken   *)
(* streams, lost triggers, failed reads, full queues and lost sockets: the *)
(* interval refresh is enough.  Only a page older than the process may     *)
(* refuse it.                                                              *)
ChangeIsShown ==
  \A b \in 1 .. MaxChanges + 1 :
    scenario.page /\ venueAccount >= b
      ~> view # NoPage /\ (view.bal >= b \/ view.inst # inst)
=============================================================================
