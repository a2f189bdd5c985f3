------------------------------ MODULE BybitFix ------------------------------
(***************************************************************************)
(* The Bybit FIX session (internal/fix/session.go) and the order router    *)
(* that uses it (internal/fix/orders.go), on the order state of OrderState.*)
(* Bybit has no gap fill: every connection starts again at number 1, any   *)
(* fault ends it, and OnReconnect reconciles after the next logon.  The    *)
(* Run loop, its callbacks, and the callers of Place, Cancel and Amend     *)
(* interleave.  The router is modelled with one process on its state, and  *)
(* OnReconnect with what recovery_test.go gives it, Reconcile, as one read *)
(* and one repair (OrderFlow has its steps).                               *)
(***************************************************************************)
EXTENDS OrderState, Sequences, SequencesExt

CONSTANTS
  MaxIn, MaxOut,     \* bounds: numbers used for session traffic, per connection
  MaxFaults,         \* bound: breaks, gaps, silences, failed dials and reads
  NoUpdate

ASSUME FixLimits ==
  /\ {MaxIn, MaxOut, MaxFaults} \subseteq Nat
  /\ NoUpdate \notin [order: Orders, update: OrderUpdates, n: 0 .. Qty]

VARIABLES
  run,          \* Run: "dial", "logon", "up", "backoff" or "stopped"
  again,        \* Run's attempt > 0
  active, outSeq, inSeq, loggedOn,
  probe,        \* testRequestOutstanding
  quiet,        \* heartbeat intervals without traffic
  phase, cur,   \* what the Run loop is doing, and the update it applies
  view,         \* what OnReconnect has read of the venue
  pendingCancel, pendingAmend,
  op,           \* where the caller of each request is, with its snapshot
  link, toServer, toClient,      \* external: the connection
  srvOn, srvIn, srvOut, late,    \* external: the server, late requests
  venue, faults                  \* external: the orders

loop == <<run, again, active, loggedOn, probe, quiet, phase, cur, view>>
lists == <<pendingCancel, pendingAmend>>
server == <<srvOn, srvIn, srvOut, late>>
vars == <<orders, executions, loop, outSeq, inSeq, lists, op, link, toServer,
          toClient, server, venue, faults>>

Kinds == {"place", "cancel", "amend"}

Requests == [type: {"D", "F", "XAR"}, order: Orders]

Callers == Kinds \X Orders

Open == {"New", "PartiallyFilled"}

Done == {"Filled", "Cancelled", "Rejected"}

(* What the venue answers; it is numbered when it is sent.  A refusal may  *)
(* come without the identifiers of its order.                              *)
Report(o, status, cum, n) ==
  [type |-> "8", order |-> o, status |-> status, cum |-> cum, n |-> n,
   accepted |-> TRUE, ids |-> TRUE, seq |-> 0]

Ack(type, o, accepted, ids) ==
  [type |-> type, order |-> o, status |-> "Unknown", cum |-> NoCum, n |-> 0,
   accepted |-> accepted, ids |-> ids, seq |-> 0]

Session(type) ==
  [type |-> type, order |-> NoOrder, status |-> "Unknown", cum |-> NoCum, n |-> 0,
   accepted |-> TRUE, ids |-> FALSE, seq |-> 0]

Nowhere == [at |-> "idle", view |-> NoOrder]

Init ==
  /\ StateInit
  /\ run = "dial" /\ again = FALSE /\ active = FALSE /\ loggedOn = FALSE
  /\ outSeq = 1 /\ inSeq = 1 /\ probe = FALSE /\ quiet = 0
  /\ phase = "idle" /\ cur = NoUpdate /\ view = [o \in Orders |-> NoOrder]
  /\ pendingCancel = <<>> /\ pendingAmend = <<>>
  /\ op = [c \in Callers |-> Nowhere]
  /\ link = "down" /\ toServer = <<>> /\ toClient = <<>>
  /\ srvOn = FALSE /\ srvIn = 1 /\ srvOut = 1 /\ late = {}
  /\ venue = [o \in Orders |-> [status |-> "none", cum |-> 0]]
  /\ faults = 0

-----------------------------------------------------------------------------
(* Sending.  A write on a broken connection fails, or fills a buffer that  *)
(* nobody reads; the number is used up when the write succeeds.            *)

WriteOutcomes == IF link = "up" THEN {TRUE} ELSE BOOLEAN

Send(type, o) ==
  /\ outSeq' = outSeq + 1
  /\ toServer' = IF link = "up"
                   THEN Append(toServer, [type |-> type, order |-> o, seq |-> outSeq])
                   ELSE toServer

NotSent == UNCHANGED <<outSeq, toServer>>

InFlight ==
  {[type |-> m.type, order |-> m.order] : m \in Range(toServer)} \intersect Requests

(* runOnce returns and its deferred functions forget and close the         *)
(* transport; Run goes on to `next'.  Requests on the way may still arrive.*)
Ends(next) ==
  /\ run' = next /\ again' = TRUE
  /\ active' = FALSE /\ loggedOn' = FALSE /\ probe' = FALSE /\ quiet' = 0
  /\ phase' = "idle" /\ cur' = NoUpdate /\ view' = [o \in Orders |-> NoOrder]
  /\ link' = "down" /\ toServer' = <<>> /\ toClient' = <<>>
  /\ srvOn' = FALSE /\ srvIn' = 1 /\ srvOut' = 1 /\ late' = late \union InFlight

-----------------------------------------------------------------------------
(* Run and runOnce.                                                        *)

RunRest == UNCHANGED <<stateVars, lists, op, venue>>

Backoff ==
  /\ run = "backoff" /\ run' = "dial"
  /\ UNCHANGED <<again, active, loggedOn, probe, quiet, phase, cur, view, outSeq,
                 inSeq, link, toServer, toClient, server, faults>>
  /\ RunRest

(* Mutated form: the transport is published before the logon is sent.      *)
DialAndActivate ==
  /\ run = "dial" /\ run' = "logon" /\ link' = "up" /\ active' = TRUE
  /\ outSeq' = 1 /\ inSeq' = 1
  /\ UNCHANGED <<again, loggedOn, probe, quiet, phase, cur, view, toServer,
                 toClient, server, faults>>
  /\ RunRest

(* A new connection starts both numberings again.                          *)
Dial ==
  /\ run = "dial"
  /\ \/ /\ run' = "logon" /\ link' = "up"
        /\ outSeq' = 1 /\ inSeq' = 1
        /\ UNCHANGED <<again, faults>>
     \/ /\ faults < MaxFaults /\ faults' = faults + 1
        /\ run' = "backoff" /\ again' = TRUE
        /\ UNCHANGED <<link, outSeq, inSeq>>
  /\ UNCHANGED <<active, loggedOn, probe, quiet, phase, cur, view, toServer,
                 toClient, server>>
  /\ RunRest

Logon ==
  /\ run = "logon"
  /\ \E ok \in WriteOutcomes :
       IF ok THEN /\ Send("A", NoOrder) /\ run' = "up" /\ active' = TRUE
                  /\ UNCHANGED <<again, loggedOn, probe, quiet, phase, cur, view,
                                 link, toClient, server>>
       ELSE Ends("backoff") /\ UNCHANGED outSeq
  /\ UNCHANGED <<inSeq, faults>>
  /\ RunRest

InLoop == run = "up" /\ phase = "idle"

(* The loop ends on an error of the reader, and with its context, when it  *)
(* says goodbye first.                                                     *)
ReadFails ==
  /\ InLoop /\ link = "broken"
  /\ Ends("backoff")
  /\ UNCHANGED <<outSeq, inSeq, faults>>
  /\ RunRest

ContextDone ==
  /\ run # "stopped" /\ phase = "idle"
  /\ Ends("stopped")
  /\ UNCHANGED <<outSeq, inSeq, faults>>
  /\ RunRest

(* A message of the loop itself: a failed write ends the session.          *)
LoopSends(type, goesOn) ==
  \E ok \in WriteOutcomes :
    IF ok THEN Send(type, NoOrder) /\ goesOn
    ELSE Ends("backoff") /\ UNCHANGED outSeq

(* The ticker: a heartbeat when nothing was sent for an interval, after    *)
(* two silent ones a TestRequest, after three the end.                     *)
TickSends(type) ==
  LoopSends(type, /\ probe' = (probe \/ type = "1")
                  /\ UNCHANGED <<run, again, active, loggedOn, quiet, phase, cur, view,
                                 link, toClient, server>>)

Tick ==
  /\ InLoop /\ loggedOn
  /\ \/ quiet > 0 /\ outSeq <= MaxOut /\ TickSends("0")
     \/ quiet = 2 /\ ~probe /\ TickSends("1")
     \/ quiet = 3 /\ Ends("backoff") /\ UNCHANGED outSeq
  /\ UNCHANGED <<inSeq, faults>>
  /\ RunRest

-----------------------------------------------------------------------------
(* One inbound message.                                                    *)

PopPending(list) == IF list = <<>> THEN <<>> ELSE Tail(list)

(* The order a refusal is about: the one a cancel refusal identifies, or   *)
(* else the oldest request not yet answered.                               *)
Correlated(m, list) ==
  IF m.type = "XCA" /\ m.ids THEN m.order
  ELSE IF list = <<>> THEN NoOrder ELSE Head(list)

Update(o, status, cum, n) ==
  [order |-> o, update |-> [status |-> status, cum |-> cum], n |-> n]

(* handleExecutionReport: "pending new" does not take a status back.       *)
ReportUpdate(m) ==
  LET known == Current(m.order).status
      status == IF m.status = "PendingSubmit" /\ m.order \in Known
                  THEN known ELSE m.status
  IN Update(m.order, status, m.cum, m.n)

(* handleCancelAck and handleAmendAck: a copy of the order is read here    *)
(* and written back by Apply.                                              *)
RefusalUpdate(m, o) ==
  IF m.accepted THEN NoUpdate
  ELSE Update(o, IF m.type = "XCA" THEN "RejectedCancel" ELSE orders[o].status,
              orders[o].cum, 0)

Handling(update) ==
  /\ cur' = update /\ phase' = IF update = NoUpdate THEN "idle" ELSE "apply"
  /\ toClient' = Tail(toClient) /\ quiet' = 0
  /\ UNCHANGED <<run, again, active, loggedOn, probe, view, link, server>>

HandleReport(m) ==
  /\ m.type = "8"
  /\ Handling(ReportUpdate(m)) /\ NotSent /\ UNCHANGED lists

HandleAck(m) ==
  LET cancel == m.type = "XCA"
      o == Correlated(m, IF cancel THEN pendingCancel ELSE pendingAmend)
  IN /\ m.type \in {"XCA", "XAA"}
     /\ pendingCancel' = IF cancel THEN PopPending(pendingCancel) ELSE pendingCancel
     /\ pendingAmend' = IF cancel THEN pendingAmend ELSE PopPending(pendingAmend)
     /\ IF ~m.accepted /\ o \notin Known THEN Ends("backoff") /\ UNCHANGED outSeq
        ELSE Handling(RefusalUpdate(m, o)) /\ NotSent

Stay(flags) ==
  /\ loggedOn' = flags.loggedOn /\ probe' = flags.probe /\ phase' = flags.phase
  /\ toClient' = Tail(toClient) /\ quiet' = 0
  /\ UNCHANGED <<run, again, active, cur, view, link, server>>

Here == [loggedOn |-> loggedOn, probe |-> probe, phase |-> "idle"]

(* Mutated form: a reconnected session goes on without reconciling.        *)
ReconnectOnly(m) ==
  m.type = "A" /\ NotSent /\ Stay([Here EXCEPT !.loggedOn = TRUE])

(* The logon is answered: after the first connection, OnReconnect runs     *)
(* before the session counts as logged on.                                 *)
HandleLogon(m) ==
  /\ m.type = "A" /\ NotSent
  /\ IF ~loggedOn /\ again THEN Stay([Here EXCEPT !.phase = "reconcile"])
     ELSE Stay([Here EXCEPT !.loggedOn = TRUE])

HandleSession(m) ==
  \/ HandleLogon(m)
  \/ m.type = "0" /\ NotSent /\ Stay([Here EXCEPT !.probe = FALSE])
  \/ m.type = "1" /\ LoopSends("0", Stay(Here))
  \/ m.type = "5" /\ Ends("stopped") /\ UNCHANGED outSeq
  \/ m.type = "3" /\ Ends("backoff") /\ UNCHANGED outSeq

Receive ==
  /\ InLoop /\ toClient # <<>>
  /\ LET m == Head(toClient) IN
       \/ /\ m.seq = inSeq /\ (loggedOn \/ m.type \in {"A", "5"})
          /\ \/ HandleReport(m)
             \/ HandleAck(m)
             \/ HandleSession(m) /\ UNCHANGED lists
       \/ /\ m.seq # inSeq \/ (~loggedOn /\ m.type \notin {"A", "5"})
          /\ Ends("backoff") /\ UNCHANGED <<outSeq, lists>>
  /\ inSeq' = IF Head(toClient).seq = inSeq THEN inSeq + 1 ELSE inSeq
  /\ UNCHANGED <<stateVars, op, venue, faults>>

(* ApplyOrder of the handler; an error it returns ends the session, and a  *)
(* report's execution is then not recorded.                                *)
Apply ==
  /\ run = "up" /\ phase = "apply"
  /\ IF CanApplyOrder(cur.order, cur.update)
     THEN /\ ApplyOrder(cur.order, cur.update)
          /\ phase' = IF cur.n = 0 THEN "idle" ELSE "record"
          /\ cur' = IF cur.n = 0 THEN NoUpdate ELSE cur
          /\ UNCHANGED <<run, again, active, loggedOn, probe, quiet, view, link,
                         toServer, toClient, server>>
     ELSE Ends("backoff") /\ UNCHANGED stateVars
  /\ UNCHANGED <<outSeq, inSeq, lists, op, venue, faults>>

Record ==
  /\ run = "up" /\ phase = "record"
  /\ RecordExecution(cur.order, cur.n)
  /\ phase' = "idle" /\ cur' = NoUpdate
  /\ UNCHANGED <<run, again, active, loggedOn, probe, quiet, view, outSeq, inSeq,
                 lists, op, link, toServer, toClient, server, venue, faults>>

(* OnReconnect reads the venue, or fails to and ends the session.          *)
ReconcileReads ==
  /\ run = "up" /\ phase = "reconcile"
  /\ \/ /\ phase' = "repair"
        /\ view' = [o \in Orders |-> IF venue[o].status = "none" THEN NoOrder
                                     ELSE venue[o]]
        /\ UNCHANGED <<run, again, active, loggedOn, probe, quiet, cur, link,
                       toServer, toClient, server, faults>>
     \/ faults < MaxFaults /\ faults' = faults + 1 /\ Ends("backoff")
  /\ UNCHANGED <<outSeq, inSeq>>
  /\ RunRest

(* It repairs what the transitions allow and records every execution, and  *)
(* the session counts as logged on.                                        *)
ReconcileRepairs ==
  /\ run = "up" /\ phase = "repair"
  /\ orders' = [o \in Orders |->
       IF view[o] # NoOrder /\ CanApplyOrder(o, view[o])
         THEN mergeOrder(Current(o), view[o]) ELSE orders[o]]
  /\ executions' = executions \union
       {f \in Fills : view[f[1]] # NoOrder /\ f[2] <= view[f[1]].cum}
  /\ phase' = "idle" /\ loggedOn' = TRUE /\ view' = [o \in Orders |-> NoOrder]
  /\ UNCHANGED <<run, again, active, probe, quiet, cur, outSeq, inSeq, lists, op,
                 link, toServer, toClient, server, venue, faults>>

-----------------------------------------------------------------------------
(* The router's callers.                                                   *)

CallRest == UNCHANGED <<loop, inSeq, link, toClient, server, venue, faults>>

At(kind, o) == op[<<kind, o>>].at

Goes(kind, o, at) == op' = [op EXCEPT ![<<kind, o>>] = [Nowhere EXCEPT !.at = at]]

PendingSubmit == [status |-> "PendingSubmit", cum |-> NoCum]

PlacePersist(o) ==
  /\ At("place", o) = "idle" /\ o \notin Known
  /\ ApplyOrder(o, PendingSubmit)
  /\ Goes("place", o, "send")
  /\ UNCHANGED <<outSeq, toServer, lists>>
  /\ CallRest

(* Mutated form: an order that could not be sent is recorded as rejected.  *)
PlaceRejects(o) ==
  /\ At("place", o) = "uncertain"
  /\ \/ ApplyOrder(o, [PendingSubmit EXCEPT !.status = "Rejected"])
     \/ /\ ~CanApplyOrder(o, [PendingSubmit EXCEPT !.status = "Rejected"])
        /\ UNCHANGED stateVars
  /\ Goes("place", o, "done")
  /\ UNCHANGED <<outSeq, toServer, lists>>
  /\ CallRest

(* A failed submission is noted, unless the order has moved on.            *)
PlaceUncertain(o) ==
  /\ At("place", o) = "uncertain"
  /\ \/ ApplyOrder(o, PendingSubmit)
     \/ ~CanApplyOrder(o, PendingSubmit) /\ UNCHANGED stateVars
  /\ Goes("place", o, "done")
  /\ UNCHANGED <<outSeq, toServer, lists>>
  /\ CallRest

(* markPendingCancel reads a copy of the order, and writes it back.        *)
CancelReads(o) ==
  /\ At("cancel", o) = "idle" /\ o \in Known
  /\ op' = [op EXCEPT ![<<"cancel", o>>] = [at |-> "mark", view |-> orders[o]]]
  /\ UNCHANGED <<stateVars, outSeq, toServer, lists>>
  /\ CallRest

(* Mutated form: the copy is written back whatever the order is by now.    *)
MarkAnyway(o) ==
  /\ At("cancel", o) = "mark"
  /\ orders' = [orders EXCEPT ![o] =
       [status |-> "PendingCancel", cum |-> op[<<"cancel", o>>].view.cum]]
  /\ Goes("cancel", o, "append")
  /\ UNCHANGED <<executions, outSeq, toServer, lists>>
  /\ CallRest

CancelMarks(o) ==
  LET update == [status |-> "PendingCancel", cum |-> op[<<"cancel", o>>].view.cum]
  IN /\ At("cancel", o) = "mark"
     /\ \/ ApplyOrder(o, update) /\ Goes("cancel", o, "append")
        \/ ~CanApplyOrder(o, update) /\ Goes("cancel", o, "done") /\ UNCHANGED stateVars
     /\ UNCHANGED <<outSeq, toServer, lists>>
     /\ CallRest

(* The request is queued for correlation before it is sent, and stays      *)
(* queued when the send fails.                                             *)
CancelQueues(o) ==
  /\ At("cancel", o) = "append"
  /\ pendingCancel' = Append(pendingCancel, o)
  /\ Goes("cancel", o, "send")
  /\ UNCHANGED <<stateVars, outSeq, toServer, pendingAmend>>
  /\ CallRest

AmendQueues(o) ==
  /\ At("amend", o) = "idle"
  /\ pendingAmend' = Append(pendingAmend, o)
  /\ Goes("amend", o, "send")
  /\ UNCHANGED <<stateVars, outSeq, toServer, pendingCancel>>
  /\ CallRest

RequestType(kind) ==
  CASE kind = "place" -> "D" [] kind = "cancel" -> "F" [] kind = "amend" -> "XAR"

(* SendApplication, at any time a transport is active.  A request whose    *)
(* write failed may have reached the venue all the same.                   *)
SendApplication(kind, o) ==
  /\ At(kind, o) = "send"
  /\ \/ /\ active /\ Send(RequestType(kind), o) /\ Goes(kind, o, "done")
        /\ UNCHANGED late
     \/ /\ ~active \/ link = "broken"
        /\ NotSent
        /\ late' \in {late} \union
             (IF active THEN {late \union {[type |-> RequestType(kind), order |-> o]}}
              ELSE {})
        /\ Goes(kind, o, IF kind = "place" THEN "uncertain" ELSE "done")
  /\ UNCHANGED <<stateVars, lists, loop, inSeq, link, toClient, srvOn, srvIn, srvOut,
                 venue, faults>>

-----------------------------------------------------------------------------
(* The server, as the mock (internal/fixmock) and the session see it.      *)

VenueRest == UNCHANGED <<stateVars, loop, outSeq, inSeq, lists, op, link>>

(* Messages go to the session that is logged on, if any.  A number may be  *)
(* used by one that never arrives; the next heartbeat shows it at last.    *)
Numbered(messages) ==
  [i \in DOMAIN messages |-> [messages[i] EXCEPT !.seq = srvOut + i - 1]]

Emit(messages) ==
  \/ /\ ~(srvOn' /\ link = "up")
     /\ UNCHANGED <<srvOut, toClient, faults>>
  \/ /\ srvOn' /\ link = "up"
     /\ toClient' = toClient \o Numbered(messages)
     /\ srvOut' = srvOut + Len(messages)
     /\ UNCHANGED faults
  \/ /\ srvOn' /\ link = "up" /\ faults < MaxFaults
     /\ toClient' = toClient \o Tail(Numbered(Append(messages, Session("0"))))
     /\ srvOut' = srvOut + Len(messages) + 1
     /\ faults' = faults + 1

(* What the venue does with a request, and answers.                        *)
Carries(request, venueAfter, messages) ==
  /\ venue' = [venue EXCEPT ![request.order] = venueAfter]
  /\ Emit(messages)

CarryOut(request) ==
  LET o == request.order
      v == venue[o]
      cancelled == [v EXCEPT !.status = "Cancelled"]
  IN \/ /\ request.type = "D" /\ v.status = "none"
        /\ \/ Carries(request, [status |-> "New", cum |-> 0],
                      <<Report(o, "PendingSubmit", 0, 0), Report(o, "New", 0, 0)>>)
           \/ Carries(request, [status |-> "Rejected", cum |-> 0],
                      <<Report(o, "Rejected", NoCum, 0)>>)
     \/ /\ request.type = "F" /\ v.status \in Open
        /\ Carries(request, cancelled,
                   <<Ack("XCA", o, TRUE, TRUE), Report(o, "Cancelled", v.cum, 0)>>)
     \/ /\ request.type = "F"
        /\ \E ids \in BOOLEAN : Carries(request, v, <<Ack("XCA", o, FALSE, ids)>>)
     \/ /\ request.type = "XAR" /\ v.status \in Open
        /\ Carries(request, v,
                   <<Ack("XAA", o, TRUE, TRUE), Report(o, v.status, v.cum, 0)>>)
     \/ /\ request.type = "XAR"
        /\ Carries(request, v, <<Ack("XAA", o, FALSE, FALSE)>>)

ServerTakesRequest ==
  /\ toServer # <<>> /\ Head(toServer).seq = srvIn /\ srvOn
  /\ [type |-> Head(toServer).type, order |-> Head(toServer).order] \in Requests
  /\ toServer' = Tail(toServer) /\ srvIn' = srvIn + 1
  /\ UNCHANGED <<srvOn, late>>
  /\ CarryOut(Head(toServer))
  /\ VenueRest

(* A request of a connection that is gone arrives after all, or is lost.   *)
ServerTakesLate ==
  \E request \in late :
    /\ late' = late \ {request}
    /\ UNCHANGED <<srvOn, srvIn, toServer>>
    /\ \/ CarryOut(request)
       \/ UNCHANGED <<venue, srvOut, toClient, faults>>
    /\ VenueRest

ServerTakesAdmin ==
  /\ toServer # <<>> /\ Head(toServer).seq = srvIn
  /\ toServer' = Tail(toServer) /\ srvIn' = srvIn + 1
  /\ LET type == Head(toServer).type IN
       \/ type = "A" /\ srvOn' = TRUE /\ Emit(<<Session("A")>>)
       \/ type = "A" /\ srvOn' = TRUE /\ faults < MaxFaults /\ Emit(<<Session("5")>>)
       \/ type = "0" /\ UNCHANGED <<srvOn, srvOut, toClient, faults>>
       \/ type = "1" /\ UNCHANGED srvOn /\ Emit(<<Session("0")>>)
  /\ UNCHANGED <<late, venue>>
  /\ VenueRest

(* A TestRequest, or by a fault a reject or a logout nobody asked for.     *)
ServerSpeaks ==
  /\ srvOn /\ srvOut <= MaxIn
  /\ UNCHANGED <<srvOn, srvIn, late, venue, toServer>>
  /\ \/ Emit(<<Session("1")>>)
     \/ /\ faults < MaxFaults /\ faults' = faults + 1 /\ link = "up"
        /\ \E type \in {"3", "5"} : toClient' = toClient \o Numbered(<<Session(type)>>)
        /\ srvOut' = srvOut + 1
  /\ VenueRest

VenueFills(o) ==
  /\ venue[o].status \in Open
  /\ LET n == venue[o].cum + 1
         status == IF n = Qty THEN "Filled" ELSE "PartiallyFilled"
     IN /\ UNCHANGED <<srvOn, srvIn, late, toServer>>
        /\ venue' = [venue EXCEPT ![o] = [status |-> status, cum |-> n]]
        /\ Emit(<<Report(o, status, n, n)>>)
  /\ VenueRest

(* The connection breaks; what has arrived may still be read.              *)
Breaks ==
  /\ link = "up" /\ faults < MaxFaults
  /\ faults' = faults + 1 /\ link' = "broken"
  /\ toServer' = <<>> /\ late' = late \union InFlight /\ srvOn' = FALSE
  /\ UNCHANGED <<stateVars, loop, outSeq, inSeq, lists, op, toClient, srvIn, srvOut,
                 venue>>

(* A heartbeat interval passes with nothing sent and nothing received.     *)
Silence ==
  /\ run = "up" /\ quiet < 3
  /\ quiet = 0 => faults < MaxFaults
  /\ faults' = IF quiet = 0 THEN faults + 1 ELSE faults
  /\ quiet' = quiet + 1
  /\ UNCHANGED <<stateVars, run, again, active, loggedOn, probe, phase, cur, view,
                 outSeq, inSeq, lists, op, link, toServer, toClient, server, venue>>

-----------------------------------------------------------------------------
SessionStep ==
  \/ Backoff \/ Dial \/ Logon \/ ReadFails \/ Receive \/ Apply \/ Record
  \/ ReconcileReads \/ ReconcileRepairs

CallerStep(o) ==
  \/ PlacePersist(o) \/ PlaceUncertain(o)
  \/ CancelReads(o) \/ CancelMarks(o) \/ CancelQueues(o) \/ AmendQueues(o)
  \/ \E kind \in Kinds : SendApplication(kind, o)

ServerStep == ServerTakesRequest \/ ServerTakesAdmin

(* Once Run has returned, the behaviour is over.                           *)
Next ==
  /\ run # "stopped"
  /\ \/ SessionStep \/ Tick \/ ContextDone
     \/ \E o \in Orders : CallerStep(o) \/ VenueFills(o)
     \/ ServerStep \/ ServerTakesLate \/ ServerSpeaks
     \/ Breaks \/ Silence

Spec == Init /\ [][Next]_vars

(* The goroutine of Run and the server go on; faults are finitely many.    *)
FairSpec ==
  Spec /\ WF_vars(SessionStep) /\ WF_vars(Tick) /\ WF_vars(ServerStep)

-----------------------------------------------------------------------------
(* Every variable holds what its comment says.                             *)
TypeOK ==
  /\ StateTypeOK
  /\ run \in {"dial", "logon", "up", "backoff", "stopped"}
  /\ {again, active, loggedOn, probe, srvOn} \subseteq BOOLEAN
  /\ {outSeq, inSeq, srvIn, srvOut} \subseteq Nat \ {0}
  /\ quiet \in 0 .. 3 /\ faults \in 0 .. MaxFaults
  /\ phase \in {"idle", "apply", "record", "reconcile", "repair"}
  /\ cur = NoUpdate \/ (cur.order \in Orders /\ cur.update \in OrderUpdates)
  /\ {pendingCancel, pendingAmend} \subseteq Seq(Orders)
  /\ \A c \in Callers : op[c].view \in OrderRecords \union {NoOrder}
  /\ link \in {"up", "broken", "down"} /\ late \subseteq Requests

(* Every connection speaks in sequence from its Logon with number 1,       *)
(* although callers of SendApplication run while Run drops a transport,    *)
(* restarts the numbers and publishes the next one: what is on the way     *)
(* continues what the server has taken.                                    *)
NumberedFromLogon ==
  \A i \in DOMAIN toServer :
    /\ toServer[i].seq = srvIn + i - 1
    /\ (toServer[i].seq = 1) <=> (toServer[i].type = "A")

(* A final status in the file is the venue's, whatever stale copies the    *)
(* callers and the handlers of refusals write back.                        *)
FinalIsTrue ==
  \A o \in Known : orders[o].status \in Done => venue[o].status = orders[o].status

(* A logged-on session with nothing left to read has missed nothing: every *)
(* fill is recorded, and every order is as the venue has it, except where  *)
(* a cancel that is pending or refused keeps the status.  This spans       *)
(* broken connections, gaps, reports refused by the transitions and orders *)
(* sent before the reconciliation.                                         *)
CaughtUp ==
  (InLoop /\ loggedOn /\ link = "up" /\ toClient = <<>>) =>
    /\ \A f \in Fills : f[2] <= venue[f[1]].cum => f \in executions
    /\ \A o \in Known :
         (venue[o].status # "none"
            /\ orders[o].status \notin {"PendingCancel", "RejectedCancel"})
           => orders[o] = venue[o]

(* Once the venue is done with an order the file says so, unless the       *)
(* session was stopped or a refused cancel has frozen the order: lost      *)
(* connections, gaps, silence and refused reports only delay it.           *)
DoneIsKnown ==
  \A o \in Orders :
    venue[o].status \in Done
      ~> (Current(o).status \in Done \union {"RejectedCancel"} \/ run = "stopped")
=============================================================================
