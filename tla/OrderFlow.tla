----------------------------- MODULE OrderFlow ------------------------------
(***************************************************************************)
(* Orders of the Bybit command line: `order place' processes               *)
(* (cmd/venuewire/rest_commands.go), the `private-stream' process with its *)
(* websocket client (internal/ws/private_client.go) and its reconciliation *)
(* at start and after each reconnect (internal/reconcile), and `reconcile' *)
(* commands, all sharing the snapshot file of OrderState.  The venue and   *)
(* its streams are external.                                               *)
(***************************************************************************)
EXTENDS OrderState, Sequences

CONSTANTS
  QueueSize,       \* events the stream client buffers
  MaxFaults,       \* bound: disconnects, failed reads and restarts
  MaxReconciles,   \* bound: `reconcile' commands
  Stream, Command  \* the two reconcilers: of the stream, of `reconcile'

Reconcilers == {Stream, Command}

VARIABLES
  venue,        \* external: status and filled lots of each order
  place,        \* where each `order place' command is
  conn,         \* the private-stream process
  hadSession,   \* Run's local: a session was served before
  wire,         \* events subscribed to and not yet applied
  rec,          \* Reconcile's locals, of each reconciler
  cache,        \* Service.snapshot of each reconciler's process
  missed,       \* history: changed while nobody listened, and not read since
  counted,      \* history: how often each execution was added to an order
  faults, reconciles

vars == <<orders, executions, venue, place, conn, hadSession, wire, rec, cache,
          missed, counted, faults, reconciles>>

VenueStatuses == {"none", "flight", "lost", "refused", "New", "PartiallyFilled",
                  "Filled", "Cancelled", "Rejected"}

Visible == {"New", "PartiallyFilled", "Filled", "Cancelled", "Rejected"}

Open == {"New", "PartiallyFilled"}

Done == {"Filled", "Cancelled", "Rejected"}

PlaceSteps == {"idle", "persisted", "sent", "ack", "uncertain", "rejected",
               "done", "failed"}

OrderViews == [status: Visible, cum: 0 .. Qty]

Events == [kind: {"order"}, order: Orders, status: Visible, cum: 0 .. Qty, n: {0}]
            \union [kind: {"execution"}, order: Orders, status: {"Unknown"},
                     cum: {0}, n: 1 .. Qty]

ConnStates == {"startup", "down", "reconcile", "serving"}

RecSteps == {"idle", "open", "recent", "executions", "snapshot", "repair", "record"}

RecLocals == [at: RecSteps, remote: [Orders -> OrderViews \union {NoOrder}],
              execs: SUBSET Fills, todo: SUBSET Orders]

Snapshots == [orders: [Orders -> OrderRecords \union {NoOrder}], execs: SUBSET Fills]

Idle == [at |-> "idle", remote |-> [o \in Orders |-> NoOrder], execs |-> {},
         todo |-> {}]

Empty == [orders |-> [o \in Orders |-> NoOrder], execs |-> {}]

-----------------------------------------------------------------------------
(* The venue.                                                              *)

OrderEvent(o, view) ==
  [kind |-> "order", order |-> o, status |-> view.status, cum |-> view.cum, n |-> 0]

ExecutionEvent(o, n) ==
  [kind |-> "execution", order |-> o, status |-> "Unknown", cum |-> 0, n |-> n]

Subscribed == conn \in {"reconcile", "serving"}

(* An event goes to whoever is subscribed.  What happens before the first  *)
(* subscription of a process is not announced to it.                       *)
Announce(o, events) ==
  /\ wire' = IF Subscribed THEN wire \o events ELSE wire
  /\ missed' = IF Subscribed \/ hadSession THEN missed ELSE missed \union {o}

VenueSet(o, view) == venue' = [venue EXCEPT ![o] = view]

VenueRest == UNCHANGED <<stateVars, place, conn, hadSession, rec, cache, counted,
                         faults, reconciles>>

(* An order is answered at the door, lost, or reaches the engine, which    *)
(* may still reject it.                                                    *)
VenueTurnAway(o) ==
  /\ venue[o].status = "flight"
  /\ \E s \in {"lost", "refused"} : VenueSet(o, [status |-> s, cum |-> 0])
  /\ UNCHANGED <<wire, missed>>
  /\ VenueRest

VenueAccept(o) ==
  /\ venue[o].status = "flight"
  /\ \E s \in {"New", "Rejected"} :
       LET view == [status |-> s, cum |-> 0]
       IN  VenueSet(o, view) /\ Announce(o, <<OrderEvent(o, view)>>)
  /\ VenueRest

(* The two topics of a fill are not ordered with each other.               *)
VenueFill(o) ==
  /\ venue[o].status \in Open
  /\ LET n    == venue[o].cum + 1
         view == [status |-> IF n = Qty THEN "Filled" ELSE "PartiallyFilled",
                  cum |-> n]
     IN  /\ VenueSet(o, view)
         /\ \/ Announce(o, <<OrderEvent(o, view), ExecutionEvent(o, n)>>)
            \/ Announce(o, <<ExecutionEvent(o, n), OrderEvent(o, view)>>)
  /\ VenueRest

VenueCancel(o) ==
  /\ venue[o].status \in Open
  /\ LET view == [status |-> "Cancelled", cum |-> venue[o].cum]
     IN  VenueSet(o, view) /\ Announce(o, <<OrderEvent(o, view)>>)
  /\ VenueRest

-----------------------------------------------------------------------------
(* `order place': the pending order is persisted, sent, and the answer     *)
(* persisted again.                                                        *)

PlaceRest == UNCHANGED <<conn, hadSession, wire, rec, cache, missed, counted,
                         faults, reconciles>>

Pending == [status |-> "PendingSubmit", cum |-> NoCum]

PlacePersist(o) ==
  /\ place[o] = "idle"
  /\ UpsertREST(o, Pending)
  /\ place' = [place EXCEPT ![o] = "persisted"]
  /\ UNCHANGED venue
  /\ PlaceRest

PlaceSend(o) ==
  /\ place[o] = "persisted"
  /\ venue' = [venue EXCEPT ![o].status = "flight"]
  /\ place' = [place EXCEPT ![o] = "sent"]
  /\ UNCHANGED stateVars
  /\ PlaceRest

(* The answer: an acknowledgement, an API error, a failure that leaves the *)
(* outcome open, or none because the process ended.                        *)
PlaceAnswers(o) ==
  {"uncertain", "done"}
    \union (IF venue[o].status \in Visible THEN {"ack"} ELSE {})
    \union (IF venue[o].status = "refused" THEN {"rejected"} ELSE {})

PlaceAnswer(o) ==
  /\ place[o] = "sent"
  /\ \E a \in PlaceAnswers(o) : place' = [place EXCEPT ![o] = a]
  /\ UNCHANGED <<stateVars, venue>>
  /\ PlaceRest

(* Mutated form: an uncertain submission is recorded as rejected.          *)
AnswerRejectsUncertain(a) ==
  [status |-> IF a = "ack" THEN "PendingSubmit" ELSE "Rejected", cum |-> NoCum]

AnswerUpdate(a) ==
  [status |-> IF a = "rejected" THEN "Rejected" ELSE "PendingSubmit", cum |-> NoCum]

PlaceRecord(o) ==
  /\ place[o] \in {"ack", "uncertain", "rejected"}
  /\ \/ /\ CanUpsertREST(o, AnswerUpdate(place[o]))
        /\ UpsertREST(o, AnswerUpdate(place[o]))
        /\ place' = [place EXCEPT ![o] = "done"]
     \/ /\ ~CanUpsertREST(o, AnswerUpdate(place[o]))
        /\ place' = [place EXCEPT ![o] = "failed"]
        /\ UNCHANGED stateVars
  /\ UNCHANGED venue
  /\ PlaceRest

-----------------------------------------------------------------------------
(* Reconciler.Reconcile.  The reads see the venue at different instants,   *)
(* and each repair is an update of its own on a file others write too.     *)

RecSet(r, locals) == rec' = [rec EXCEPT ![r] = locals]

RecRest == UNCHANGED <<venue, place, hadSession, wire, faults>>

(* Service.mutate: after an update a process keeps the file it then loads; *)
(* between its own updates it does not see what others write.              *)
Loaded(r) == cache' = [cache EXCEPT ![r] = [orders |-> orders', execs |-> executions']]

Read(r, next, locals) ==
  /\ RecSet(r, [locals EXCEPT !.at = next])
  /\ UNCHANGED <<stateVars, conn, cache, counted, reconciles>>
  /\ RecRest

(* The open orders, then the recently closed ones; the newer of two views  *)
(* of an order is kept.                                                    *)
ReconcileOpen(r) ==
  /\ rec[r].at = "open"
  /\ Read(r, "recent", [rec[r] EXCEPT !.remote = [o \in Orders |->
       IF venue[o].status \in Open THEN venue[o] ELSE NoOrder]])
  /\ UNCHANGED missed

ReconcileRecent(r) ==
  /\ rec[r].at = "recent"
  /\ Read(r, "executions", [rec[r] EXCEPT !.remote = [o \in Orders |->
       IF venue[o].status \in Done THEN venue[o] ELSE @[o]]])
  /\ missed' = IF r = Stream THEN {} ELSE missed

ReconcileExecutions(r) ==
  /\ rec[r].at = "executions"
  /\ Read(r, "snapshot",
       [rec[r] EXCEPT !.execs = {f \in Fills : f[2] <= venue[f[1]].cum}])
  /\ UNCHANGED missed

(* State.Snapshot decides what is repaired and which executions are new.   *)
ReconcileSnapshot(r) ==
  /\ rec[r].at = "snapshot"
  /\ Read(r, "repair",
       [rec[r] EXCEPT !.execs = @ \ cache[r].execs,
          !.todo = {o \in Orders : rec[r].remote[o] \notin {NoOrder, cache[r].orders[o]}}])
  /\ UNCHANGED missed

(* An order that differed from the snapshot is repaired, or left visible.  *)
ReconcileRepair(r, o) ==
  /\ rec[r].at = "repair"
  /\ o \in rec[r].todo
  /\ \/ ApplyOrder(o, rec[r].remote[o]) /\ Loaded(r)
     \/ ~CanApplyOrder(o, rec[r].remote[o]) /\ UNCHANGED <<stateVars, cache>>
  /\ RecSet(r, [rec[r] EXCEPT !.todo = @ \ {o}])
  /\ UNCHANGED <<conn, missed, counted, reconciles>>
  /\ RecRest

ReconcileRepaired(r) ==
  /\ rec[r].at = "repair"
  /\ rec[r].todo = {}
  /\ Read(r, "record", rec[r])
  /\ UNCHANGED missed

Count(o, n) ==
  counted' = IF Adds(o, n) THEN [counted EXCEPT ![<<o, n>>] = @ + 1] ELSE counted

(* The missing executions, oldest first: recorded when the order lists     *)
(* contained the order, otherwise added; what fails is left visible.       *)
ReconcileRecord(r, o, n) ==
  /\ rec[r].at = "record"
  /\ <<o, n>> \in rec[r].execs
  /\ \A k \in 1 .. Qty : <<o, k>> \in rec[r].execs => n <= k
  /\ \/ /\ rec[r].remote[o] # NoOrder
        /\ \/ RecordExecution(o, n) /\ Loaded(r)
           \/ ~CanRecordExecution(o, n) /\ UNCHANGED <<stateVars, cache>>
        /\ UNCHANGED counted
     \/ /\ rec[r].remote[o] = NoOrder
        /\ \/ ApplyExecution(o, n) /\ Loaded(r)
           \/ ~CanApplyExecution(o, n) /\ UNCHANGED <<stateVars, cache>>
        /\ Count(o, n)
  /\ RecSet(r, [rec[r] EXCEPT !.execs = @ \ {<<o, n>>}])
  /\ UNCHANGED <<conn, missed, reconciles>>
  /\ RecRest

(* The report is done: the stream process goes on to connect or to serve,  *)
(* the command ends.                                                       *)
ReconcileDone(r) ==
  /\ rec[r].at = "record"
  /\ rec[r].execs = {}
  /\ RecSet(r, Idle)
  /\ \/ /\ r = Stream
        /\ conn' = IF conn = "startup" THEN "down" ELSE "serving"
        /\ UNCHANGED cache
     \/ /\ r = Command
        /\ cache' = [cache EXCEPT ![r] = Empty]
        /\ UNCHANGED conn
  /\ UNCHANGED <<stateVars, missed, counted, reconciles>>
  /\ RecRest

(* The `reconcile' command loads the file and reconciles.                  *)
ReconcileCommand ==
  /\ reconciles < MaxReconciles
  /\ rec[Command].at = "idle"
  /\ RecSet(Command, [Idle EXCEPT !.at = "open"])
  /\ reconciles' = reconciles + 1
  /\ UNCHANGED <<stateVars, conn, missed, counted>>
  /\ Loaded(Command)
  /\ RecRest

-----------------------------------------------------------------------------
(* `private-stream': reconcile, connect, subscribe, reconcile unless this  *)
(* is the first session, serve.                                            *)

StreamRest == UNCHANGED <<venue, place, missed, reconciles>>

StreamStart ==
  /\ conn = "startup"
  /\ rec[Stream].at = "idle"
  /\ RecSet(Stream, [Idle EXCEPT !.at = "open"])
  /\ UNCHANGED <<stateVars, conn, hadSession, wire, counted, faults>>
  /\ Loaded(Stream)
  /\ StreamRest

(* Mutated form: a reconnect does not reconcile.                           *)
ConnectOnly ==
  /\ conn = "down"
  /\ wire' = <<>>
  /\ conn' = "serving"
  /\ hadSession' = TRUE
  /\ UNCHANGED <<stateVars, rec, cache, counted, faults>>
  /\ StreamRest

Connect ==
  /\ conn = "down"
  /\ wire' = <<>>
  /\ \/ /\ hadSession
        /\ conn' = "reconcile"
        /\ RecSet(Stream, [Idle EXCEPT !.at = "open"])
     \/ /\ ~hadSession
        /\ conn' = "serving"
        /\ UNCHANGED rec
  /\ hadSession' = TRUE
  /\ UNCHANGED <<stateVars, cache, counted, faults>>
  /\ StreamRest

(* The connection and every event not yet applied are given up.            *)
GiveUp == conn' = "down" /\ wire' = <<>>

(* The sink applies one event; an error it returns ends the session.       *)
DeliverOrder ==
  /\ conn = "serving"
  /\ wire # <<>>
  /\ LET e == Head(wire)
         u == [status |-> e.status, cum |-> e.cum]
     IN  /\ e.kind = "order"
         /\ \/ /\ ApplyOrder(e.order, u)
               /\ Loaded(Stream)
               /\ wire' = Tail(wire)
               /\ UNCHANGED conn
            \/ /\ ~CanApplyOrder(e.order, u)
               /\ GiveUp
               /\ UNCHANGED <<stateVars, cache>>
  /\ UNCHANGED <<hadSession, rec, counted, faults>>
  /\ StreamRest

DeliverExecution ==
  /\ conn = "serving"
  /\ wire # <<>>
  /\ LET e == Head(wire)
     IN  /\ e.kind = "execution"
         /\ \/ /\ ApplyExecution(e.order, e.n)
               /\ Loaded(Stream)
               /\ wire' = Tail(wire)
               /\ UNCHANGED conn
            \/ /\ ~CanApplyExecution(e.order, e.n)
               /\ GiveUp
               /\ UNCHANGED <<stateVars, cache>>
         /\ Count(e.order, e.n)
  /\ UNCHANGED <<hadSession, rec, faults>>
  /\ StreamRest

(* The bounded queue is full: the session is given up, not the event.      *)
Overflow ==
  /\ conn = "serving"
  /\ Len(wire) > QueueSize
  /\ GiveUp
  /\ UNCHANGED <<stateVars, hadSession, rec, cache, counted, faults>>
  /\ StreamRest

Disconnect ==
  /\ faults < MaxFaults
  /\ conn = "serving"
  /\ GiveUp
  /\ faults' = faults + 1
  /\ UNCHANGED <<stateVars, hadSession, rec, cache, counted>>
  /\ StreamRest

(* A read of the reconciliation after a reconnect fails.                   *)
ReadFails ==
  /\ faults < MaxFaults
  /\ conn = "reconcile"
  /\ rec[Stream].at \in {"open", "recent", "executions"}
  /\ GiveUp
  /\ RecSet(Stream, Idle)
  /\ faults' = faults + 1
  /\ UNCHANGED <<stateVars, hadSession, cache, counted>>
  /\ StreamRest

(* The process ends, by a crash or a failed start, and is started again.   *)
Restart ==
  /\ faults < MaxFaults
  /\ faults' = faults + 1
  /\ conn' = "startup"
  /\ wire' = <<>>
  /\ hadSession' = FALSE
  /\ RecSet(Stream, Idle)
  /\ cache' = [cache EXCEPT ![Stream] = Empty]
  /\ UNCHANGED <<stateVars, counted>>
  /\ StreamRest

-----------------------------------------------------------------------------
Init ==
  /\ StateInit
  /\ venue = [o \in Orders |-> [status |-> "none", cum |-> 0]]
  /\ place = [o \in Orders |-> "idle"]
  /\ conn = "startup"
  /\ hadSession = FALSE
  /\ wire = <<>>
  /\ rec = [r \in Reconcilers |-> Idle]
  /\ cache = [r \in Reconcilers |-> Empty]
  /\ missed = {}
  /\ counted = [f \in Fills |-> 0]
  /\ faults = 0
  /\ reconciles = 0

VenueNext(o) ==
  VenueTurnAway(o) \/ VenueAccept(o) \/ VenueFill(o) \/ VenueCancel(o)

PlaceNext(o) ==
  PlacePersist(o) \/ PlaceSend(o) \/ PlaceAnswer(o) \/ PlaceRecord(o)

ReconcileNext(r) ==
  \/ ReconcileOpen(r)
  \/ ReconcileRecent(r)
  \/ ReconcileExecutions(r)
  \/ ReconcileSnapshot(r)
  \/ \E o \in Orders : ReconcileRepair(r, o)
  \/ ReconcileRepaired(r)
  \/ \E o \in Orders, n \in 1 .. Qty : ReconcileRecord(r, o, n)
  \/ ReconcileDone(r)

StreamNext ==
  StreamStart \/ Connect \/ DeliverOrder \/ DeliverExecution \/ Overflow

Fault == Disconnect \/ ReadFails \/ Restart

Next ==
  \/ \E o \in Orders : VenueNext(o) \/ PlaceNext(o)
  \/ \E r \in Reconcilers : ReconcileNext(r)
  \/ ReconcileCommand
  \/ StreamNext
  \/ Fault

Spec == Init /\ [][Next]_vars

(* Fairness: the stream process and its reconciliation go on.  Faults are  *)
(* finitely many, so the venue can be read in the end.                     *)
FairSpec == Spec /\ WF_vars(StreamNext) /\ WF_vars(ReconcileNext(Stream))

-----------------------------------------------------------------------------
(* Every variable holds what its comment says.                             *)
TypeOK ==
  /\ StateTypeOK
  /\ venue \in [Orders -> [status: VenueStatuses, cum: 0 .. Qty]]
  /\ place \in [Orders -> PlaceSteps]
  /\ conn \in ConnStates
  /\ hadSession \in BOOLEAN
  /\ wire \in Seq(Events)
  /\ rec \in [Reconcilers -> RecLocals]
  /\ cache \in [Reconcilers -> Snapshots]
  /\ missed \subseteq Orders
  /\ counted \in [Fills -> Nat]
  /\ faults \in Nat /\ reconciles \in Nat

(* What the file says of an order happened: whatever the streams, the late *)
(* REST answers and two reconcilers with old views write over each other,  *)
(* no order is called cancelled, rejected, live or partly filled that is   *)
(* not or was not.  (Filled is not claimed: quantities of a stream and of a*)
(* snapshot may both be added.)                                            *)
StatusHappened ==
  \A o \in Known :
    LET s == orders[o].status
        v == venue[o]
    IN  /\ s = "New" => v.status \in Visible \ {"Rejected"}
        /\ s = "PartiallyFilled" => v.cum > 0
        /\ s = "Cancelled" => v.status = "Cancelled"
        /\ s = "Rejected" => v.status \in {"Rejected", "refused"}

(* An execution is added to its order at most once, although it may come   *)
(* by the stream, again after a reconnect, and from two reconcilers.       *)
CountedOnce == \A f \in Fills : counted[f] <= 1

(* A REST answer that comes after the streams have moved the order on is   *)
(* absorbed, never an error of the command that placed the order.          *)
LateAnswerAbsorbed == \A o \in Orders : place[o] # "failed"

(* Once the venue is done with an order, the file gets a final status for  *)
(* it: lost connections, full queues, failed reads, refused events and     *)
(* restarts delay it only.  Excepted are changes between the startup       *)
(* reconciliation and the first subscription, which no one reads.          *)
DoneIsKnown ==
  \A o \in Orders :
    (venue[o].status \in Done /\ o \notin missed)
      ~> (Current(o).status \in Done)
=============================================================================
