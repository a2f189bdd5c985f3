--------------------------- MODULE OrderFlowProofs ---------------------------
(***************************************************************************)
(* The order flow of the command line keeps its types, adds no execution   *)
(* twice, says of no order what did not happen to it, and takes every late *)
(* answer, for any number of orders, lots, faults and reconcile commands.  *)
(***************************************************************************)
EXTENDS OrderFlow, SequenceTheorems, TLAPS

(* An execution that was added is on file, and was added once.             *)
CountedIsRecorded ==
  \A f \in Fills : counted[f] # 0 => counted[f] = 1 /\ f \in executions

(* An open order has lots left.                                            *)
OpenIsUnfilled == \A o \in Orders : venue[o].status \in Open => venue[o].cum < Qty

(* Only orders that the lists contained are to be repaired.                *)
SeenOnly(locals) ==
  locals.todo # {} => /\ locals.at = "repair"
                      /\ \A o \in locals.todo : locals.remote[o] # NoOrder

TodoIsSeen == \A r \in Reconcilers : SeenOnly(rec[r])

FlowInv == TypeOK /\ CountedIsRecorded /\ OpenIsUnfilled /\ TodoIsSeen

-----------------------------------------------------------------------------
(* The operations of the snapshot file.                                    *)

(* ApplyOrder leaves a well-formed file and the executions alone.          *)
LEMMA ApplyOrderKeeps ==
  ASSUME StateTypeOK, NEW o \in Orders, NEW u \in OrderUpdates, ApplyOrder(o, u)
  PROVE  StateTypeOK' /\ executions' = executions
<1>1. Current(o) \in OrderRecords
  BY DEF StateTypeOK, Current, Known, OrderRecords, OrderStatuses
<1>2. mergeOrder(Current(o), u) \in OrderRecords
  BY <1>1 DEF mergeOrder, OrderRecords, OrderUpdates
<1> QED
  BY <1>2 DEF ApplyOrder, StateTypeOK

(* So does UpsertREST.                                                     *)
LEMMA UpsertRESTKeeps ==
  ASSUME StateTypeOK, NEW o \in Orders, NEW u \in OrderUpdates, UpsertREST(o, u)
  PROVE  StateTypeOK' /\ executions' = executions
<1>1. CASE ApplyOrder(o, u)
  BY <1>1, ApplyOrderKeeps
<1>2. CASE UNCHANGED stateVars
  BY <1>2 DEF stateVars, StateTypeOK
<1> QED
  BY <1>1, <1>2 DEF UpsertREST

(* ApplyExecution leaves a well-formed file, forgets no execution, and     *)
(* records the one it adds.                                                *)
LEMMA ApplyExecutionKeeps ==
  ASSUME StateTypeOK, NEW o \in Orders, NEW n \in 1 .. Qty, ApplyExecution(o, n)
  PROVE  /\ StateTypeOK'
         /\ executions \subseteq executions'
         /\ Adds(o, n) => <<o, n>> \in executions'
<1>1. CASE Duplicate(o, n) /\ UNCHANGED stateVars
  BY <1>1 DEF stateVars, StateTypeOK, Adds
<1>2. CASE Adds(o, n)
  <2> DEFINE cum == orders[o].cum + 1
             new == [status |-> StatusAfterFill(orders[o].status, cum), cum |-> cum]
  <2>1. orders[o] \in OrderRecords
    BY <1>2 DEF Adds, Known, StateTypeOK
  <2>2. new \in OrderRecords
    BY <2>1 DEF StatusAfterFill, OrderRecords, OrderStatuses
  <2>3. orders' = [orders EXCEPT ![o] = new] /\ executions' = executions \union {<<o, n>>}
    BY <1>2 DEF ApplyExecution, Adds
  <2>4. <<o, n>> \in Fills
    BY DEF Fills
  <2> HIDE DEF new
  <2> QED
    BY <2>2, <2>3, <2>4 DEF StateTypeOK
<1> QED
  BY <1>1, <1>2 DEF ApplyExecution

(* RecordExecution leaves a well-formed file and forgets no execution.     *)
LEMMA RecordExecutionKeeps ==
  ASSUME StateTypeOK, NEW o \in Orders, NEW n \in 1 .. Qty, RecordExecution(o, n)
  PROVE  StateTypeOK' /\ executions \subseteq executions'
BY DEF RecordExecution, StateTypeOK, Fills

(* What a process loads after an update is a snapshot.                     *)
LEMMA LoadedKeeps ==
  ASSUME StateTypeOK', cache \in [Reconcilers -> Snapshots], NEW r \in Reconcilers,
         Loaded(r)
  PROVE  cache' \in [Reconcilers -> Snapshots]
<1>1. [orders |-> orders', execs |-> executions'] \in Snapshots
  BY DEF StateTypeOK, Snapshots
<1> QED
  BY <1>1 DEF Loaded

-----------------------------------------------------------------------------
(* Records that are put together in the flow.                              *)

(* The views the venue shows are updates the file accepts in form.         *)
LEMMA ViewsAreUpdates == OrderViews \subseteq OrderUpdates
  BY OrderStateAssumption DEF OrderViews, OrderUpdates, Visible, OrderStatuses

(* So are the updates of `order place'.                                    *)
LEMMA PlaceUpdates ==
  Pending \in OrderUpdates /\ \A a : AnswerUpdate(a) \in OrderUpdates
  BY DEF Pending, AnswerUpdate, OrderUpdates, OrderStatuses

(* Locals that are not in use.                                             *)
LEMMA IdleLocals ==
  /\ Idle \in RecLocals
  /\ [Idle EXCEPT !.at = "open"] \in RecLocals
  /\ Empty \in Snapshots
  BY DEF Idle, RecLocals, RecSteps, Empty, Snapshots

(* Events carry a view or the number of a lot.                             *)
LEMMA EventTypes ==
  ASSUME NEW o \in Orders
  PROVE  /\ \A v \in OrderViews : OrderEvent(o, v) \in Events
         /\ \A n \in 1 .. Qty : ExecutionEvent(o, n) \in Events
  BY DEF OrderEvent, ExecutionEvent, Events, OrderViews

(* Announced events reach the wire, or nobody.                             *)
LEMMA AnnounceKeeps ==
  ASSUME wire \in Seq(Events), missed \subseteq Orders, NEW o \in Orders,
         NEW events \in Seq(Events), Announce(o, events)
  PROVE  wire' \in Seq(Events) /\ missed' \subseteq Orders
<1>1. wire \o events \in Seq(Events)
  BY ConcatProperties
<1> QED
  BY <1>1 DEF Announce

(* Count adds at most one, and only for an execution that is added.        *)
LEMMA CountKeeps ==
  ASSUME TypeOK, CountedIsRecorded, NEW o \in Orders, NEW n \in 1 .. Qty,
         Count(o, n), executions \subseteq executions',
         Adds(o, n) => <<o, n>> \in executions'
  PROVE  counted' \in [Fills -> Nat] /\ CountedIsRecorded'
<1> DEFINE f == <<o, n>>
<1>1. f \in Fills
  BY DEF Fills
<1>2. CASE Adds(o, n)
  <2>1. counted[f] = 0
    BY <1>1, <1>2 DEF Adds, Duplicate, CountedIsRecorded
  <2>2. counted' = [counted EXCEPT ![f] = counted[f] + 1]
    BY <1>2 DEF Count
  <2>3. f \in executions'
    BY <1>2
  <2>4. counted \in [Fills -> Nat]
    BY DEF TypeOK
  <2> HIDE DEF f
  <2>5. counted' \in [Fills -> Nat]
    BY <1>1, <2>2, <2>4
  <2>6. counted'[f] = 1 /\ \A g \in Fills \ {f} : counted'[g] = counted[g]
    BY <1>1, <2>1, <2>2, <2>4
  <2> QED
    BY <2>3, <2>5, <2>6 DEF CountedIsRecorded
<1>3. CASE ~Adds(o, n)
  BY <1>3 DEF Count, TypeOK, CountedIsRecorded
<1> QED
  BY <1>2, <1>3

-----------------------------------------------------------------------------
(* One step of each actor keeps the types and the counts.                  *)

(* The venue moves an order.                                               *)
LEMMA VenueKeeps ==
  ASSUME FlowInv, NEW o \in Orders, VenueNext(o)
  PROVE  FlowInv'
<1> USE DEF FlowInv
<1> DEFINE VenueType == venue \in [Orders -> [status: VenueStatuses, cum: 0 .. Qty]]
<1>1. SUFFICES /\ VenueType' /\ OpenIsUnfilled'
               /\ wire' \in Seq(Events) /\ missed' \subseteq Orders
  BY DEF TypeOK, CountedIsRecorded, TodoIsSeen, StateTypeOK, VenueNext, VenueTurnAway,
         VenueAccept, VenueFill, VenueCancel, VenueRest, stateVars
<1>2. CASE VenueTurnAway(o)
  BY <1>2, OrderStateAssumption
     DEF VenueTurnAway, VenueSet, TypeOK, VenueStatuses, OpenIsUnfilled, Open
<1>3. ASSUME NEW v \in OrderViews, VenueSet(o, v), v.status \in Open => v.cum < Qty
      PROVE  VenueType' /\ OpenIsUnfilled'
  BY <1>3 DEF VenueSet, TypeOK, OrderViews, Visible, VenueStatuses, OpenIsUnfilled
<1>4. ASSUME NEW v \in OrderViews, Announce(o, <<OrderEvent(o, v)>>)
      PROVE  wire' \in Seq(Events) /\ missed' \subseteq Orders
  <2>1. OrderEvent(o, v) \in Events
    BY EventTypes
  <2>2. <<OrderEvent(o, v)>> \in Seq(Events)
    BY <2>1
  <2> QED
    BY <1>4, <2>2, AnnounceKeeps DEF TypeOK
<1>5. CASE VenueAccept(o)
  <2>1. PICK s \in {"New", "Rejected"} :
          /\ VenueSet(o, [status |-> s, cum |-> 0])
          /\ Announce(o, <<OrderEvent(o, [status |-> s, cum |-> 0])>>)
    BY <1>5 DEF VenueAccept
  <2>2. [status |-> s, cum |-> 0] \in OrderViews
    BY OrderStateAssumption DEF OrderViews, Visible
  <2> QED
    BY <1>3, <1>4, <2>1, <2>2, OrderStateAssumption
<1>6. CASE VenueCancel(o)
  <2>1. [status |-> "Cancelled", cum |-> venue[o].cum] \in OrderViews
    BY DEF TypeOK, OrderViews, Visible
  <2> QED
    BY <1>3, <1>4, <1>6, <2>1 DEF VenueCancel, Open
<1>7. CASE VenueFill(o)
  <2> DEFINE n == venue[o].cum + 1
             v == [status |-> IF n = Qty THEN "Filled" ELSE "PartiallyFilled",
                   cum |-> n]
  <2>1. n \in 1 .. Qty
    BY <1>7, OrderStateAssumption DEF VenueFill, OpenIsUnfilled, TypeOK
  <2>2. v \in OrderViews /\ (v.status \in Open => v.cum < Qty)
    <3>1. n # Qty => n < Qty
      BY <2>1, OrderStateAssumption
    <3> QED
      BY <2>1, <3>1 DEF OrderViews, Visible, Open
  <2>3. /\ VenueSet(o, v)
        /\ \/ Announce(o, <<OrderEvent(o, v), ExecutionEvent(o, n)>>)
           \/ Announce(o, <<ExecutionEvent(o, n), OrderEvent(o, v)>>)
    BY <1>7 DEF VenueFill
  <2> HIDE DEF n, v
  <2>4. OrderEvent(o, v) \in Events /\ ExecutionEvent(o, n) \in Events
    BY <2>1, <2>2, EventTypes
  <2>5. /\ <<OrderEvent(o, v), ExecutionEvent(o, n)>> \in Seq(Events)
        /\ <<ExecutionEvent(o, n), OrderEvent(o, v)>> \in Seq(Events)
    BY <2>4
  <2>6. wire' \in Seq(Events) /\ missed' \subseteq Orders
    BY <2>3, <2>5, AnnounceKeeps DEF TypeOK
  <2> QED
    BY <1>3, <2>2, <2>3, <2>6
<1> QED
  BY <1>2, <1>5, <1>6, <1>7 DEF VenueNext

(* `order place' takes a step.                                             *)
LEMMA PlaceKeeps ==
  ASSUME FlowInv, NEW o \in Orders, PlaceNext(o)
  PROVE  FlowInv'
<1> USE DEF FlowInv
<1> DEFINE VenueType == venue \in [Orders -> [status: VenueStatuses, cum: 0 .. Qty]]
<1>1. SUFFICES /\ StateTypeOK' /\ executions' = executions
               /\ VenueType' /\ OpenIsUnfilled' /\ place' \in [Orders -> PlaceSteps]
  BY DEF TypeOK, CountedIsRecorded, TodoIsSeen, PlaceNext, PlacePersist, PlaceSend,
         PlaceAnswer, PlaceRecord, PlaceRest
<1>2. CASE PlacePersist(o)
  <2>1. StateTypeOK' /\ executions' = executions
    BY <1>2, PlaceUpdates, UpsertRESTKeeps DEF PlacePersist, TypeOK
  <2> QED
    BY <1>2, <2>1 DEF PlacePersist, TypeOK, PlaceSteps, OpenIsUnfilled
<1>3. CASE PlaceSend(o)
  BY <1>3 DEF PlaceSend, TypeOK, PlaceSteps, VenueStatuses, OpenIsUnfilled, Open,
              StateTypeOK, stateVars
<1>4. CASE PlaceAnswer(o)
  BY <1>4 DEF PlaceAnswer, PlaceAnswers, TypeOK, PlaceSteps, OpenIsUnfilled,
              StateTypeOK, stateVars
<1>5. CASE PlaceRecord(o)
  <2>1. StateTypeOK' /\ executions' = executions
    BY <1>5, PlaceUpdates, UpsertRESTKeeps
       DEF PlaceRecord, TypeOK, StateTypeOK, stateVars
  <2> QED
    BY <1>5, <2>1 DEF PlaceRecord, TypeOK, PlaceSteps, OpenIsUnfilled
<1> QED
  BY <1>2, <1>3, <1>4, <1>5 DEF PlaceNext

(* What replaces the locals of a reconciler by well-formed ones keeps the  *)
(* locals well formed.                                                     *)
LEMMA RecSetKeeps ==
  ASSUME FlowInv, NEW r \in Reconcilers, NEW locals \in RecLocals, SeenOnly(locals),
         RecSet(r, locals)
  PROVE  rec' \in [Reconcilers -> RecLocals] /\ TodoIsSeen'
<1>1. /\ rec \in [Reconcilers -> RecLocals]
      /\ rec' = [rec EXCEPT ![r] = locals]
  BY DEF RecSet, FlowInv, TypeOK
<1>2. \A q \in Reconcilers : rec'[q] = IF q = r THEN locals ELSE rec[q]
  BY <1>1
<1> QED
  BY <1>1, <1>2 DEF FlowInv, TodoIsSeen

(* A read of a reconciler changes its locals only.                         *)
LEMMA ReadKeeps ==
  ASSUME FlowInv, NEW r \in Reconcilers, NEW next \in RecSteps,
         NEW locals \in RecLocals, Read(r, next, locals), missed' \subseteq Orders,
         SeenOnly([locals EXCEPT !.at = next])
  PROVE  FlowInv'
<1>1. [locals EXCEPT !.at = next] \in RecLocals
  BY DEF RecLocals
<1>2. rec' \in [Reconcilers -> RecLocals] /\ TodoIsSeen'
  BY <1>1, RecSetKeeps DEF Read
<1> QED
  BY <1>2 DEF Read, RecRest, stateVars, FlowInv, TypeOK, CountedIsRecorded,
              OpenIsUnfilled, StateTypeOK

(* Executions are recorded and orders repaired in the file: the counts     *)
(* follow, and the locals stay well formed.                                *)
LEMMA WriteKeeps ==
  ASSUME FlowInv, NEW r \in Reconcilers, NEW locals \in RecLocals, SeenOnly(locals),
         RecSet(r, locals), StateTypeOK', cache' \in [Reconcilers -> Snapshots],
         counted' \in [Fills -> Nat], CountedIsRecorded',
         UNCHANGED <<conn, missed, reconciles>>, RecRest
  PROVE  FlowInv'
<1>1. rec' \in [Reconcilers -> RecLocals] /\ TodoIsSeen'
  BY RecSetKeeps
<1> QED
  BY <1>1 DEF RecRest, FlowInv, TypeOK, OpenIsUnfilled

(* A step of Reconcile that reads.                                         *)
LEMMA ReconcileReadsKeep ==
  ASSUME FlowInv, NEW r \in Reconcilers,
         \/ ReconcileOpen(r) \/ ReconcileRecent(r) \/ ReconcileExecutions(r)
         \/ ReconcileSnapshot(r) \/ ReconcileRepaired(r)
  PROVE  FlowInv'
<1>1. /\ rec[r] \in RecLocals
      /\ rec[r].remote \in [Orders -> OrderViews \union {NoOrder}]
      /\ rec[r].execs \in SUBSET Fills
      /\ SeenOnly(rec[r])
  BY DEF FlowInv, TypeOK, RecLocals, TodoIsSeen
<1>2. missed \subseteq Orders
  BY DEF FlowInv, TypeOK
<1>3. \A o \in Orders : venue[o].status \in Visible => venue[o] \in OrderViews
  BY DEF FlowInv, TypeOK, OrderViews
<1>4. CASE ReconcileOpen(r)
  <2> DEFINE remote == [o \in Orders |->
               IF venue[o].status \in Open THEN venue[o] ELSE NoOrder]
             locals == [rec[r] EXCEPT !.remote = remote]
  <2>1. remote \in [Orders -> OrderViews \union {NoOrder}]
    BY <1>3 DEF Open, Visible
  <2>2. Read(r, "recent", locals) /\ missed' = missed /\ rec[r].at = "open"
    BY <1>4 DEF ReconcileOpen
  <2> HIDE DEF remote
  <2>3. locals \in RecLocals /\ SeenOnly([locals EXCEPT !.at = "recent"])
    BY <1>1, <2>1, <2>2 DEF RecLocals, SeenOnly
  <2> HIDE DEF locals
  <2> QED
    BY <1>2, <2>2, <2>3, ReadKeeps DEF RecSteps
<1>5. CASE ReconcileRecent(r)
  <2> DEFINE remote == [o \in Orders |->
               IF venue[o].status \in Done THEN venue[o] ELSE rec[r].remote[o]]
             locals == [rec[r] EXCEPT !.remote = remote]
  <2>1. remote \in [Orders -> OrderViews \union {NoOrder}]
    BY <1>1, <1>3 DEF Done, Visible
  <2>2. /\ Read(r, "executions", locals)
        /\ missed' \subseteq Orders
        /\ rec[r].at = "recent"
    BY <1>2, <1>5 DEF ReconcileRecent
  <2> HIDE DEF remote
  <2>3. locals \in RecLocals /\ SeenOnly([locals EXCEPT !.at = "executions"])
    BY <1>1, <2>1, <2>2 DEF RecLocals, SeenOnly
  <2> HIDE DEF locals
  <2> QED
    BY <2>2, <2>3, ReadKeeps DEF RecSteps
<1>6. CASE ReconcileExecutions(r)
  <2> DEFINE execs == {f \in Fills : f[2] <= venue[f[1]].cum}
             locals == [rec[r] EXCEPT !.execs = execs]
  <2>1. Read(r, "snapshot", locals) /\ missed' = missed /\ rec[r].at = "executions"
    BY <1>6 DEF ReconcileExecutions
  <2>2. execs \in SUBSET Fills
    OBVIOUS
  <2> HIDE DEF execs
  <2>3. locals \in RecLocals /\ SeenOnly([locals EXCEPT !.at = "snapshot"])
    BY <1>1, <2>1, <2>2 DEF RecLocals, SeenOnly
  <2> HIDE DEF locals
  <2> QED
    BY <1>2, <2>1, <2>3, ReadKeeps DEF RecSteps
<1>7. CASE ReconcileSnapshot(r)
  <2> DEFINE todo == {o \in Orders : rec[r].remote[o] \notin {NoOrder, cache[r].orders[o]}}
             locals == [rec[r] EXCEPT !.execs = rec[r].execs \ cache[r].execs,
                                      !.todo = todo]
  <2>1. Read(r, "repair", locals) /\ missed' = missed
    BY <1>7 DEF ReconcileSnapshot
  <2>2. todo \in SUBSET Orders /\ \A o \in todo : rec[r].remote[o] # NoOrder
    OBVIOUS
  <2> HIDE DEF todo
  <2>3. locals \in RecLocals /\ SeenOnly([locals EXCEPT !.at = "repair"])
    BY <1>1, <2>2 DEF RecLocals, SeenOnly
  <2> HIDE DEF locals
  <2> QED
    BY <1>2, <2>1, <2>3, ReadKeeps DEF RecSteps
<1>8. CASE ReconcileRepaired(r)
  <2>1. Read(r, "record", rec[r]) /\ missed' = missed /\ rec[r].todo = {}
    BY <1>8 DEF ReconcileRepaired
  <2>2. SeenOnly([rec[r] EXCEPT !.at = "record"])
    BY <1>1, <2>1 DEF RecLocals, SeenOnly
  <2> QED
    BY <1>1, <1>2, <2>1, <2>2, ReadKeeps DEF RecSteps
<1> QED
  BY <1>4, <1>5, <1>6, <1>7, <1>8

(* A step of Reconcile that repairs or records.                            *)
LEMMA ReconcileWritesKeep ==
  ASSUME FlowInv, NEW r \in Reconcilers,
         \/ \E o \in Orders : ReconcileRepair(r, o)
         \/ \E o \in Orders, n \in 1 .. Qty : ReconcileRecord(r, o, n)
  PROVE  FlowInv'
<1>1. /\ rec[r] \in RecLocals
      /\ rec[r].remote \in [Orders -> OrderViews \union {NoOrder}]
      /\ rec[r].execs \in SUBSET Fills
      /\ rec[r].todo \in SUBSET Orders
      /\ SeenOnly(rec[r])
  BY DEF FlowInv, TypeOK, RecLocals, TodoIsSeen
<1>2. StateTypeOK /\ cache \in [Reconcilers -> Snapshots] /\ counted \in [Fills -> Nat]
  BY DEF FlowInv, TypeOK
<1>3. CountedIsRecorded
  BY DEF FlowInv
<1>4. ASSUME NEW o \in Orders, ReconcileRepair(r, o) PROVE FlowInv'
  <2> DEFINE locals == [rec[r] EXCEPT !.todo = rec[r].todo \ {o}]
  <2>1. rec[r].remote[o] \in OrderUpdates
    BY <1>1, <1>4, ViewsAreUpdates DEF ReconcileRepair, SeenOnly
  <2>2. /\ StateTypeOK' /\ executions' = executions
        /\ cache' \in [Reconcilers -> Snapshots]
    <3>1. CASE ApplyOrder(o, rec[r].remote[o]) /\ Loaded(r)
      BY <1>2, <2>1, <3>1, ApplyOrderKeeps, LoadedKeeps
    <3>2. CASE UNCHANGED <<stateVars, cache>>
      BY <1>2, <3>2 DEF stateVars, StateTypeOK
    <3> QED
      BY <1>4, <3>1, <3>2 DEF ReconcileRepair
  <2>3. /\ RecSet(r, locals) /\ counted' = counted
        /\ UNCHANGED <<conn, missed, reconciles>> /\ RecRest
    BY <1>4 DEF ReconcileRepair
  <2>4. locals \in RecLocals /\ SeenOnly(locals)
    BY <1>1 DEF RecLocals, SeenOnly
  <2>5. counted' \in [Fills -> Nat] /\ CountedIsRecorded'
    BY <1>2, <1>3, <2>2, <2>3 DEF CountedIsRecorded
  <2> HIDE DEF locals
  <2> QED
    BY <2>2, <2>3, <2>4, <2>5, WriteKeeps
<1>5. ASSUME NEW o \in Orders, NEW n \in 1 .. Qty, ReconcileRecord(r, o, n)
      PROVE  FlowInv'
  <2> DEFINE locals == [rec[r] EXCEPT !.execs = rec[r].execs \ {<<o, n>>}]
  <2>1. /\ RecSet(r, locals) /\ UNCHANGED <<conn, missed, reconciles>> /\ RecRest
    BY <1>5 DEF ReconcileRecord
  <2>2. locals \in RecLocals /\ SeenOnly(locals)
    BY <1>1 DEF RecLocals, SeenOnly
  <2> HIDE DEF locals
  <2>3. CASE RecordExecution(o, n) /\ Loaded(r) /\ UNCHANGED counted
    <3>1. StateTypeOK' /\ executions \subseteq executions'
      BY <1>2, <2>3, RecordExecutionKeeps
    <3>2. counted' \in [Fills -> Nat] /\ CountedIsRecorded'
      BY <1>2, <1>3, <2>3, <3>1 DEF CountedIsRecorded
    <3> QED
      BY <1>2, <2>1, <2>2, <2>3, <3>1, <3>2, LoadedKeeps, WriteKeeps
  <2>4. CASE ApplyExecution(o, n) /\ Loaded(r) /\ Count(o, n)
    <3>1. /\ StateTypeOK' /\ executions \subseteq executions'
          /\ Adds(o, n) => <<o, n>> \in executions'
      BY <1>2, <2>4, ApplyExecutionKeeps
    <3>2. counted' \in [Fills -> Nat] /\ CountedIsRecorded'
      BY <2>4, <3>1, CountKeeps DEF FlowInv
    <3> QED
      BY <1>2, <2>1, <2>2, <2>4, <3>1, <3>2, LoadedKeeps, WriteKeeps
  <2>5. CASE UNCHANGED <<stateVars, cache, counted>>
    <3>1. /\ StateTypeOK' /\ cache' \in [Reconcilers -> Snapshots]
          /\ counted' \in [Fills -> Nat] /\ CountedIsRecorded'
      BY <1>2, <1>3, <2>5 DEF stateVars, StateTypeOK, CountedIsRecorded
    <3> QED
      BY <2>1, <2>2, <3>1, WriteKeeps
  <2>6. \/ RecordExecution(o, n) /\ Loaded(r) /\ UNCHANGED counted
        \/ ApplyExecution(o, n) /\ Loaded(r) /\ Count(o, n)
        \/ UNCHANGED <<stateVars, cache, counted>>
    BY <1>5 DEF ReconcileRecord, Count, CanApplyExecution
  <2> QED
    BY <2>3, <2>4, <2>5, <2>6
<1> QED
  BY <1>4, <1>5

(* The process around Reconcile: its start, its end and the faults.        *)
LEMMA ProcessesKeep ==
  ASSUME FlowInv,
         \/ \E r \in Reconcilers : ReconcileDone(r)
         \/ ReconcileCommand \/ StreamStart \/ Connect \/ Overflow \/ Fault
  PROVE  FlowInv'
<1> USE DEF FlowInv
<1>1. SeenOnly(Idle) /\ SeenOnly([Idle EXCEPT !.at = "open"])
  BY DEF SeenOnly, Idle
<1>2. Stream \in Reconcilers /\ Command \in Reconcilers
  BY DEF Reconcilers
<1>3. ASSUME NEW r \in Reconcilers, UNCHANGED stateVars, Loaded(r) \/ UNCHANGED cache
               \/ cache' = [cache EXCEPT ![r] = Empty]
      PROVE  StateTypeOK' /\ cache' \in [Reconcilers -> Snapshots]
  <2>1. StateTypeOK'
    BY <1>3 DEF stateVars, StateTypeOK, TypeOK
  <2>2. cache \in [Reconcilers -> Snapshots]
    BY DEF TypeOK
  <2>3. CASE cache' = [cache EXCEPT ![r] = Empty]
    BY <2>1, <2>2, <2>3, IdleLocals
  <2> QED
    BY <1>3, <2>1, <2>2, <2>3, LoadedKeeps
<1>4. ASSUME NEW r \in Reconcilers,
             \/ RecSet(r, Idle) \/ RecSet(r, [Idle EXCEPT !.at = "open"])
             \/ UNCHANGED rec
      PROVE  rec' \in [Reconcilers -> RecLocals] /\ TodoIsSeen'
  <2>1. CASE UNCHANGED rec
    BY <2>1 DEF TypeOK, TodoIsSeen
  <2> QED
    BY <1>1, <1>4, <2>1, IdleLocals, RecSetKeeps
<1>5. <<>> \in Seq(Events)
  OBVIOUS
<1>6. ASSUME NEW r \in Reconcilers, ReconcileDone(r) PROVE FlowInv'
  BY <1>3, <1>4, <1>6
     DEF ReconcileDone, RecRest, TypeOK, ConnStates, CountedIsRecorded, stateVars,
         OpenIsUnfilled
<1>7. CASE ReconcileCommand
  <2>1. StateTypeOK' /\ cache' \in [Reconcilers -> Snapshots]
    BY <1>2, <1>3, <1>7 DEF ReconcileCommand
  <2>2. rec' \in [Reconcilers -> RecLocals] /\ TodoIsSeen'
    BY <1>2, <1>4, <1>7 DEF ReconcileCommand
  <2> QED
    BY <1>7, <2>1, <2>2
       DEF ReconcileCommand, RecRest, TypeOK, CountedIsRecorded, stateVars,
           OpenIsUnfilled
<1>8. CASE StreamStart
  BY <1>2, <1>3, <1>4, <1>8
     DEF StreamStart, StreamRest, TypeOK, CountedIsRecorded, stateVars, OpenIsUnfilled
<1>9. CASE Connect
  <2>1. StateTypeOK' /\ cache' \in [Reconcilers -> Snapshots]
    BY <1>2, <1>3, <1>9 DEF Connect
  <2>2. rec' \in [Reconcilers -> RecLocals] /\ TodoIsSeen'
    BY <1>2, <1>4, <1>9 DEF Connect
  <2> QED
    BY <1>5, <1>9, <2>1, <2>2
       DEF Connect, StreamRest, TypeOK, ConnStates, CountedIsRecorded, stateVars,
           OpenIsUnfilled
<1>10. CASE Overflow
  BY <1>2, <1>3, <1>4, <1>5, <1>10
     DEF Overflow, GiveUp, StreamRest, TypeOK, ConnStates, CountedIsRecorded,
         stateVars, OpenIsUnfilled
<1>11. CASE Disconnect
  BY <1>2, <1>3, <1>4, <1>5, <1>11
     DEF Disconnect, GiveUp, StreamRest, TypeOK, ConnStates, CountedIsRecorded,
         stateVars, OpenIsUnfilled
<1>12. CASE ReadFails
  BY <1>2, <1>3, <1>4, <1>5, <1>12
     DEF ReadFails, GiveUp, StreamRest, TypeOK, ConnStates, CountedIsRecorded,
         stateVars, OpenIsUnfilled
<1>13. CASE Restart
  <2>1. StateTypeOK' /\ cache' \in [Reconcilers -> Snapshots]
    BY <1>2, <1>3, <1>13 DEF Restart
  <2>2. rec' \in [Reconcilers -> RecLocals] /\ TodoIsSeen'
    BY <1>2, <1>4, <1>13 DEF Restart
  <2>3. CountedIsRecorded' /\ OpenIsUnfilled'
    BY <1>13 DEF Restart, StreamRest, stateVars, CountedIsRecorded, OpenIsUnfilled
  <2>4. TypeOK'
    <3>1. conn' = "startup" /\ hadSession' = FALSE /\ wire' = <<>> /\ faults' = faults + 1
      BY <1>13 DEF Restart
    <3>2. conn' \in ConnStates /\ hadSession' \in BOOLEAN
      BY <3>1 DEF ConnStates
    <3>3. wire' \in Seq(Events) /\ faults' \in Nat
      BY <1>5, <3>1 DEF TypeOK
    <3> QED
      BY <1>13, <2>1, <2>2, <3>2, <3>3 DEF Restart, StreamRest, TypeOK
  <2> QED
    BY <2>2, <2>3, <2>4
<1> QED
  BY <1>6, <1>7, <1>8, <1>9, <1>10, <1>11, <1>12, <1>13 DEF Fault

(* The sink of the stream applies an event, or the session ends.           *)
LEMMA DeliverKeeps ==
  ASSUME FlowInv, DeliverOrder \/ DeliverExecution
  PROVE  FlowInv'
<1> USE DEF FlowInv
<1> DEFINE e == Head(wire)
<1>1. Stream \in Reconcilers
  BY DEF Reconcilers
<1>2. wire \in Seq(Events) /\ wire # <<>>
  BY DEF DeliverOrder, DeliverExecution, TypeOK
<1>3. e \in Events /\ Tail(wire) \in Seq(Events) /\ <<>> \in Seq(Events)
  BY <1>2, HeadTailProperties
<1> HIDE DEF e
<1>4. StateTypeOK /\ cache \in [Reconcilers -> Snapshots]
  BY DEF TypeOK
<1>5. ASSUME StateTypeOK', cache' \in [Reconcilers -> Snapshots],
             counted' \in [Fills -> Nat], CountedIsRecorded',
             GiveUp \/ (wire' = Tail(wire) /\ UNCHANGED conn),
             UNCHANGED <<hadSession, rec, faults>>, StreamRest
      PROVE  FlowInv'
  BY <1>3, <1>5 DEF GiveUp, StreamRest, TypeOK, ConnStates, OpenIsUnfilled, TodoIsSeen
<1>6. ASSUME UNCHANGED <<stateVars, cache>>
      PROVE  StateTypeOK' /\ cache' \in [Reconcilers -> Snapshots]
  BY <1>4, <1>6 DEF stateVars, StateTypeOK
<1>7. CASE DeliverOrder
  <2> DEFINE u == [status |-> e.status, cum |-> e.cum]
  <2>1. /\ e.kind = "order"
        /\ \/ /\ ApplyOrder(e.order, u) /\ Loaded(Stream)
              /\ wire' = Tail(wire) /\ UNCHANGED conn
           \/ GiveUp /\ UNCHANGED <<stateVars, cache>>
        /\ UNCHANGED <<hadSession, rec, counted, faults>> /\ StreamRest
    BY <1>7 DEF DeliverOrder, e
  <2>2. u \in OrderUpdates /\ e.order \in Orders
    <3>1. u \in OrderViews /\ e.order \in Orders
      BY <1>3, <2>1 DEF Events, OrderViews
    <3> QED  BY <3>1, ViewsAreUpdates
  <2> HIDE DEF u
  <2>3. /\ StateTypeOK' /\ cache' \in [Reconcilers -> Snapshots]
        /\ executions' = executions
    BY <1>1, <1>4, <1>6, <2>1, <2>2, ApplyOrderKeeps, LoadedKeeps DEF stateVars
  <2>4. counted' \in [Fills -> Nat] /\ CountedIsRecorded'
    BY <2>1, <2>3 DEF TypeOK, CountedIsRecorded
  <2> QED
    BY <1>5, <2>1, <2>3, <2>4
<1>8. CASE DeliverExecution
  <2>1. /\ e.kind = "execution"
        /\ \/ /\ ApplyExecution(e.order, e.n) /\ Loaded(Stream)
              /\ wire' = Tail(wire) /\ UNCHANGED conn
           \/ /\ ~CanApplyExecution(e.order, e.n)
              /\ GiveUp /\ UNCHANGED <<stateVars, cache>>
        /\ Count(e.order, e.n)
        /\ UNCHANGED <<hadSession, rec, faults>> /\ StreamRest
    BY <1>8 DEF DeliverExecution, e
  <2>2. e.order \in Orders /\ e.n \in 1 .. Qty
    BY <1>3, <2>1 DEF Events
  <2>3. /\ StateTypeOK' /\ cache' \in [Reconcilers -> Snapshots]
        /\ executions \subseteq executions'
        /\ Adds(e.order, e.n) => <<e.order, e.n>> \in executions'
    <3>1. CASE ApplyExecution(e.order, e.n) /\ Loaded(Stream)
      BY <1>1, <1>4, <2>2, <3>1, ApplyExecutionKeeps, LoadedKeeps
    <3>2. CASE ~CanApplyExecution(e.order, e.n) /\ UNCHANGED <<stateVars, cache>>
      BY <1>6, <3>2 DEF stateVars, CanApplyExecution
    <3> QED
      BY <2>1, <3>1, <3>2
  <2>4. counted' \in [Fills -> Nat] /\ CountedIsRecorded'
    BY <2>1, <2>2, <2>3, CountKeeps
  <2> QED
    BY <1>5, <2>1, <2>3, <2>4
<1> QED
  BY <1>7, <1>8

-----------------------------------------------------------------------------
(* The inductive invariant holds in every reachable state.                 *)
THEOREM FlowInvHolds == Spec => []FlowInv
<1>1. Init => FlowInv
  <2> SUFFICES ASSUME Init PROVE FlowInv
    OBVIOUS
  <2>1. StateTypeOK
    BY DEF Init, StateInit, StateTypeOK
  <2>2. rec \in [Reconcilers -> RecLocals] /\ cache \in [Reconcilers -> Snapshots]
    BY IdleLocals DEF Init
  <2>3. venue \in [Orders -> [status: VenueStatuses, cum: 0 .. Qty]]
    BY OrderStateAssumption DEF Init, VenueStatuses
  <2>4. wire \in Seq(Events) /\ counted \in [Fills -> Nat]
    BY DEF Init
  <2>5. CountedIsRecorded /\ OpenIsUnfilled
    BY DEF Init, CountedIsRecorded, OpenIsUnfilled, Open
  <2>6. TodoIsSeen
    BY DEF Init, TodoIsSeen, SeenOnly, Idle
  <2> QED
    BY <2>1, <2>2, <2>3, <2>4, <2>5, <2>6
       DEF Init, FlowInv, TypeOK, PlaceSteps, ConnStates
<1>2. FlowInv /\ [Next]_vars => FlowInv'
  <2> SUFFICES ASSUME FlowInv, [Next]_vars PROVE FlowInv'
    OBVIOUS
  <2>1. CASE UNCHANGED vars
    BY <2>1 DEF vars, FlowInv, TypeOK, CountedIsRecorded, OpenIsUnfilled, TodoIsSeen,
                StateTypeOK
  <2>2. CASE Next
    BY <2>2, VenueKeeps, PlaceKeeps, ReconcileReadsKeep, ReconcileWritesKeep,
       ProcessesKeep, DeliverKeeps
       DEF Next, ReconcileNext, StreamNext
  <2> QED
    BY <2>1, <2>2
<1> QED
  BY <1>1, <1>2, PTL DEF Spec

(* Every variable of the order flow keeps its type: what the stream, the   *)
(* commands and two reconcilers write to the snapshot file is well formed. *)
THEOREM FlowTypeCorrect == Spec => []TypeOK
<1>1. FlowInv => TypeOK
  BY DEF FlowInv
<1> QED
  BY <1>1, FlowInvHolds, PTL

(* ApplyExecution adds no execution twice, whatever is redelivered and     *)
(* however many reconcilers record it.                                     *)
THEOREM ExecutionsCountedOnce == Spec => []CountedOnce
<1>1. FlowInv => CountedOnce
  BY DEF FlowInv, TypeOK, CountedIsRecorded, CountedOnce
<1> QED
  BY <1>1, FlowInvHolds, PTL

-----------------------------------------------------------------------------
(* What the file says happened.                                            *)

(* What StatusHappened asks of one status and its order at the venue.      *)
HappenedTo(status, v) ==
  /\ status = "New" => v.status \in Visible \ {"Rejected"}
  /\ status = "PartiallyFilled" => v.cum > 0
  /\ status = "Cancelled" => v.status = "Cancelled"
  /\ status = "Rejected" => v.status \in {"Rejected", "refused"}

(* The venue knows nothing of an order before it is sent, and fills none   *)
(* that it has not accepted.                                               *)
UnsentUnknown ==
  \A o \in Orders :
    /\ place[o] \in {"idle", "persisted"} => venue[o].status = "none"
    /\ venue[o].status \in {"none", "flight"} => venue[o].cum = 0

(* An order that the venue calls partly filled has a lot filled.           *)
PartlyIsFilled ==
  \A o \in Orders : venue[o].status = "PartiallyFilled" => venue[o].cum > 0

(* A rejection the command was answered with was the venue's.              *)
AnswersHappened ==
  \A o \in Orders : place[o] = "rejected" => venue[o].status = "refused"

(* The events that tell what happened to the orders of v.                  *)
TrueEvents(v) ==
  {e \in Events : /\ e.kind = "order" => HappenedTo(e.status, v[e.order])
                  /\ e.kind = "execution" => v[e.order].cum > 0}

WireHappened == wire \in Seq(TrueEvents(venue))

(* What a reconciler has read happened, however old it is.                 *)
TrueReads(locals, v) ==
  /\ \A o \in Orders :
       locals.remote[o] # NoOrder => HappenedTo(locals.remote[o].status, v[o])
  /\ \A f \in Fills : f \in locals.execs => v[f[1]].cum > 0

ReadsHappened == \A r \in Reconcilers : TrueReads(rec[r], venue)

(* So did what the file says.                                              *)
TrueFile(file, v) ==
  \A o \in Orders : file[o] # NoOrder => HappenedTo(file[o].status, v[o])

HappenedInv ==
  /\ UnsentUnknown /\ PartlyIsFilled /\ AnswersHappened
  /\ WireHappened /\ ReadsHappened /\ TrueFile(orders, venue)

-----------------------------------------------------------------------------
(* What happened stays so.                                                 *)

(* An order at the venue that goes from v to w.                            *)
GoesOn(v, w) ==
  /\ \A s : HappenedTo(s, v) => HappenedTo(s, w)
  /\ v.cum > 0 => w.cum > 0
  /\ v.status = "refused" => w.status = "refused"

(* An order that is left alone has gone on.                                *)
LEMMA StaysPut == \A v : GoesOn(v, v)
BY DEF GoesOn

(* The steps of an order at the venue.                                     *)
LEMMA VenueStepsGoOn ==
  ASSUME NEW v, NEW w, v.cum \in Nat, w.cum \in Nat, w.cum >= v.cum,
         \/ v.status \in {"none", "flight"}
         \/ v.status \in Open /\ w.status \in Visible \ {"Rejected"}
  PROVE  GoesOn(v, w)
BY DEF GoesOn, HappenedTo, Open, Visible

(* No step takes back what happened to an order.                           *)
LEMMA VenueGoesOn ==
  ASSUME FlowInv, UnsentUnknown, [Next]_vars, NEW p \in Orders
  PROVE  GoesOn(venue[p], venue'[p])
<1> DEFINE Cums == 0 .. Qty
<1>0. venue \in [Orders -> [status: VenueStatuses, cum: Cums]]
  BY DEF FlowInv, TypeOK
<1>1. ASSUME UNCHANGED venue
      PROVE  GoesOn(venue[p], venue'[p])
  BY <1>1, StaysPut
<1>2. ASSUME NEW o \in Orders, VenueNext(o)
      PROVE  GoesOn(venue[p], venue'[p])
  <2>1. p # o => venue'[p] = venue[p]
    BY <1>0, <1>2
       DEF VenueNext, VenueTurnAway, VenueAccept, VenueFill, VenueCancel, VenueSet
  <2>2. GoesOn(venue[o], venue'[o])
    <3>1. venue[o].cum \in Nat
      BY <1>0, OrderStateAssumption
    <3>2. CASE VenueTurnAway(o) \/ VenueAccept(o)
      <4>1. venue[o].status = "flight" /\ venue'[o].cum = 0
        BY <1>0, <3>2 DEF VenueTurnAway, VenueAccept, VenueSet
      <4>2. venue[o].cum = 0
        BY <4>1 DEF UnsentUnknown
      <4> QED
        BY <4>1, <4>2, VenueStepsGoOn
    <3>3. CASE VenueFill(o) \/ VenueCancel(o)
      <4>1. /\ venue[o].status \in Open
            /\ venue'[o].cum \in Nat /\ venue'[o].cum >= venue[o].cum
            /\ venue'[o].status \in Visible \ {"Rejected"}
        BY <1>0, <3>1, <3>3 DEF VenueFill, VenueCancel, VenueSet, Visible
      <4> QED
        BY <3>1, <4>1, VenueStepsGoOn
    <3> QED
      BY <1>2, <3>2, <3>3 DEF VenueNext
  <2> QED
    BY <2>1, <2>2, StaysPut
<1>3. ASSUME NEW o \in Orders, PlaceSend(o)
      PROVE  GoesOn(venue[p], venue'[p])
  <2>1. p # o => venue'[p] = venue[p]
    BY <1>0, <1>3 DEF PlaceSend
  <2>2. /\ venue[o].status = "none"
        /\ venue'[o].cum = venue[o].cum /\ venue[o].cum \in Nat
    BY <1>0, <1>3, OrderStateAssumption DEF PlaceSend, UnsentUnknown
  <2> QED
    BY <2>1, <2>2, StaysPut, VenueStepsGoOn
<1>4. ASSUME NEW o \in Orders, PlaceNext(o), ~PlaceSend(o)
      PROVE  UNCHANGED venue
  BY <1>4 DEF PlaceNext, PlacePersist, PlaceAnswer, PlaceRecord
<1>5. ASSUME NEW r \in Reconcilers, ReconcileNext(r)
      PROVE  UNCHANGED venue
  BY <1>5 DEF ReconcileNext, ReconcileOpen, ReconcileRecent, ReconcileExecutions,
     ReconcileSnapshot, ReconcileRepair, ReconcileRepaired, ReconcileRecord,
     ReconcileDone, Read, RecRest
<1>6. ASSUME ReconcileCommand \/ StreamNext \/ Fault \/ UNCHANGED vars
      PROVE  UNCHANGED venue
  BY <1>6 DEF ReconcileCommand, RecRest, StreamNext, StreamStart, Connect,
     DeliverOrder, DeliverExecution, Overflow, Fault, Disconnect, ReadFails, Restart,
     StreamRest, vars
<1> QED
  BY <1>1, <1>2, <1>3, <1>4, <1>5, <1>6 DEF Next

(* So whatever told the truth of an order goes on telling it.              *)
LEMMA TruthLasts ==
  ASSUME FlowInv, HappenedInv, [Next]_vars
  PROVE  /\ TrueEvents(venue) \subseteq TrueEvents(venue')
         /\ wire \in Seq(TrueEvents(venue'))
         /\ \A r \in Reconcilers : TrueReads(rec[r], venue')
         /\ TrueFile(orders, venue')
<1>1. \A p \in Orders : GoesOn(venue[p], venue'[p])
  BY VenueGoesOn DEF HappenedInv
<1>2. TrueEvents(venue) \subseteq TrueEvents(venue')
  <2>1. \A e \in Events : e.order \in Orders
    BY DEF Events
  <2> QED
    BY <1>1, <2>1 DEF TrueEvents, GoesOn
<1>3. wire \in Seq(TrueEvents(venue'))
  <2> DEFINE S == TrueEvents(venue)
             T == TrueEvents(venue')
  <2>1. wire \in Seq(S) /\ S \subseteq T
    BY <1>2 DEF HappenedInv, WireHappened
  <2> HIDE DEF S, T
  <2>2. wire \in Seq(T)
    BY <2>1
  <2> QED
    BY <2>2 DEF T
<1>4. \A r \in Reconcilers : TrueReads(rec[r], venue')
  <2>1. \A f \in Fills : f[1] \in Orders
    BY DEF Fills
  <2> QED
    BY <1>1, <2>1 DEF HappenedInv, ReadsHappened, TrueReads, GoesOn
<1>5. TrueFile(orders, venue')
  BY <1>1 DEF HappenedInv, TrueFile, GoesOn
<1> QED
  BY <1>2, <1>3, <1>4, <1>5

-----------------------------------------------------------------------------
(* What the operations of the file write happened, if what they are given  *)
(* did.                                                                    *)

(* ApplyOrder writes what is true when its update is.                      *)
LEMMA ApplyOrderTells ==
  ASSUME StateTypeOK, NEW o \in Orders, NEW u, ApplyOrder(o, u), NEW v,
         TrueFile(orders, v), HappenedTo(u.status, v[o])
  PROVE  TrueFile(orders', v)
<1>1. orders'[o].status = u.status
  BY DEF ApplyOrder, mergeOrder, StateTypeOK
<1>2. \A p \in Orders : p # o => orders'[p] = orders[p]
  BY DEF ApplyOrder, StateTypeOK
<1> QED
  BY <1>1, <1>2 DEF TrueFile

(* So does UpsertREST, which may leave the order as it is.                 *)
LEMMA UpsertRESTTells ==
  ASSUME StateTypeOK, NEW o \in Orders, NEW u, UpsertREST(o, u), NEW v,
         TrueFile(orders, v), HappenedTo(u.status, v[o])
  PROVE  TrueFile(orders', v)
BY ApplyOrderTells DEF UpsertREST, stateVars

(* ApplyExecution writes a fill of an order that was filled.               *)
LEMMA ApplyExecutionTells ==
  ASSUME StateTypeOK, NEW o \in Orders, NEW n, ApplyExecution(o, n), NEW v,
         TrueFile(orders, v), v[o].cum > 0
  PROVE  TrueFile(orders', v)
<1>1. CASE UNCHANGED stateVars
  BY <1>1 DEF stateVars
<1>2. CASE Adds(o, n)
  <2> DEFINE status == StatusAfterFill(orders[o].status, orders[o].cum + 1)
  <2>1. orders'[o].status = status /\ \A p \in Orders : p # o => orders'[p] = orders[p]
    BY <1>2 DEF ApplyExecution, Adds, StateTypeOK
  <2>2. HappenedTo(status, v[o])
    BY DEF StatusAfterFill, HappenedTo
  <2> HIDE DEF status
  <2> QED
    BY <2>1, <2>2 DEF TrueFile
<1> QED
  BY <1>1, <1>2 DEF ApplyExecution

-----------------------------------------------------------------------------
(* One step of each actor tells nothing that did not happen.               *)

(* The venue announces what it does.                                       *)
LEMMA VenueTells ==
  ASSUME FlowInv, HappenedInv, NEW o \in Orders, VenueNext(o)
  PROVE  HappenedInv'
<1> DEFINE Cums == 0 .. Qty
<1>1. venue \in [Orders -> [status: VenueStatuses, cum: Cums]]
  BY DEF FlowInv, TypeOK
<1>2. [Next]_vars
  BY DEF Next
<1>3. /\ TrueEvents(venue) \subseteq TrueEvents(venue')
      /\ wire \in Seq(TrueEvents(venue'))
      /\ \A r \in Reconcilers : TrueReads(rec[r], venue')
      /\ TrueFile(orders, venue')
  BY <1>2, TruthLasts
<1>4. UNCHANGED <<orders, place, rec>>
  BY DEF VenueNext, VenueTurnAway, VenueAccept, VenueFill, VenueCancel, VenueRest, stateVars
<1>5. UnsentUnknown' /\ AnswersHappened'
  <2>1. /\ \A p \in Orders : p # o => venue'[p] = venue[p]
        /\ venue[o].status \notin {"none", "refused"}
        /\ venue'[o].status \notin {"none", "flight"}
    BY <1>1 DEF VenueNext, VenueTurnAway, VenueAccept, VenueFill, VenueCancel,
                VenueSet, Open
  <2> QED
    BY <1>4, <2>1 DEF HappenedInv, UnsentUnknown, AnswersHappened
<1>6. WireHappened'
  <2> DEFINE T == TrueEvents(venue')
  <2>1. ASSUME NEW v \in OrderViews, VenueSet(o, v)
        PROVE  /\ HappenedTo(v.status, v) => OrderEvent(o, v) \in T
               /\ \A n \in 1 .. Qty : v.cum > 0 => ExecutionEvent(o, n) \in T
    <3>1. venue'[o] = v
      BY <1>1, <2>1 DEF VenueSet
    <3>2. OrderEvent(o, v) \in Events /\ \A n \in 1 .. Qty : ExecutionEvent(o, n) \in Events
      BY EventTypes
    <3> QED
      BY <3>1, <3>2 DEF OrderEvent, ExecutionEvent, TrueEvents
  <2>2. ASSUME NEW events \in Seq(T), Announce(o, events)
        PROVE  wire' \in Seq(T)
    <3>1. wire \o events \in Seq(T)
      BY <1>3, <2>2, ConcatProperties
    <3> QED
      BY <1>3, <2>2, <3>1 DEF Announce
  <2> HIDE DEF T
  <2>3. CASE VenueTurnAway(o)
    BY <1>3, <2>3 DEF VenueTurnAway, T, WireHappened
  <2>4. CASE VenueAccept(o)
    <3>1. PICK s \in {"New", "Rejected"} :
            /\ VenueSet(o, [status |-> s, cum |-> 0])
            /\ Announce(o, <<OrderEvent(o, [status |-> s, cum |-> 0])>>)
      BY <2>4 DEF VenueAccept
    <3> DEFINE v == [status |-> s, cum |-> 0]
    <3>2. v \in OrderViews /\ HappenedTo(v.status, v)
      BY OrderStateAssumption DEF OrderViews, Visible, HappenedTo
    <3>3. VenueSet(o, v) /\ Announce(o, <<OrderEvent(o, v)>>)
      BY <3>1
    <3> HIDE DEF v
    <3>4. <<OrderEvent(o, v)>> \in Seq(T)
      BY <2>1, <3>2, <3>3
    <3>5. wire' \in Seq(T)
      BY <2>2, <3>3, <3>4
    <3> QED
      BY <3>5 DEF T, WireHappened
  <2>5. CASE VenueCancel(o)
    <3> DEFINE v == [status |-> "Cancelled", cum |-> venue[o].cum]
    <3>2. v \in OrderViews /\ HappenedTo(v.status, v)
      BY <1>1 DEF OrderViews, Visible, HappenedTo
    <3>3. VenueSet(o, v) /\ Announce(o, <<OrderEvent(o, v)>>)
      BY <2>5 DEF VenueCancel
    <3> HIDE DEF v
    <3>4. <<OrderEvent(o, v)>> \in Seq(T)
      BY <2>1, <3>2, <3>3
    <3>5. wire' \in Seq(T)
      BY <2>2, <3>3, <3>4
    <3> QED
      BY <3>5 DEF T, WireHappened
  <2>6. CASE VenueFill(o)
    <3> DEFINE n == venue[o].cum + 1
               v == [status |-> IF n = Qty THEN "Filled" ELSE "PartiallyFilled",
                     cum |-> n]
    <3>1. n \in 1 .. Qty
      BY <1>1, <2>6, OrderStateAssumption DEF VenueFill, FlowInv, OpenIsUnfilled
    <3>2. v \in OrderViews /\ HappenedTo(v.status, v) /\ v.cum > 0
      BY <3>1 DEF OrderViews, Visible, HappenedTo
    <3>3. /\ VenueSet(o, v)
          /\ \/ Announce(o, <<OrderEvent(o, v), ExecutionEvent(o, n)>>)
             \/ Announce(o, <<ExecutionEvent(o, n), OrderEvent(o, v)>>)
      BY <2>6 DEF VenueFill
    <3> HIDE DEF n, v
    <3>4. /\ <<OrderEvent(o, v), ExecutionEvent(o, n)>> \in Seq(T)
          /\ <<ExecutionEvent(o, n), OrderEvent(o, v)>> \in Seq(T)
      <4>1. OrderEvent(o, v) \in T /\ ExecutionEvent(o, n) \in T
        BY <2>1, <3>1, <3>2, <3>3
      <4> QED
        BY <4>1
    <3>5. wire' \in Seq(T)
      BY <2>2, <3>3, <3>4
    <3> QED
      BY <3>5 DEF T, WireHappened
  <2> QED
    BY <2>3, <2>4, <2>5, <2>6 DEF VenueNext
<1>7. PartlyIsFilled'
  <2>1. venue'[o].status = "PartiallyFilled" => venue'[o].cum = venue[o].cum + 1
    BY <1>1 DEF VenueNext, VenueTurnAway, VenueAccept, VenueFill, VenueCancel, VenueSet
  <2>2. \A p \in Orders : p # o => venue'[p] = venue[p]
    BY <1>1 DEF VenueNext, VenueTurnAway, VenueAccept, VenueFill, VenueCancel, VenueSet
  <2>3. venue[o].cum \in Nat
    BY <1>1, OrderStateAssumption
  <2> QED
    BY <2>1, <2>2, <2>3 DEF HappenedInv, PartlyIsFilled
<1> QED
  BY <1>3, <1>4, <1>5, <1>6, <1>7 DEF HappenedInv, ReadsHappened

(* `order place' writes down the answer it was given.                      *)
LEMMA PlaceTells ==
  ASSUME FlowInv, HappenedInv, NEW o \in Orders, PlaceNext(o)
  PROVE  HappenedInv'
<1> DEFINE Cums == 0 .. Qty
<1>1. /\ venue \in [Orders -> [status: VenueStatuses, cum: Cums]]
      /\ place \in [Orders -> PlaceSteps] /\ StateTypeOK
  BY DEF FlowInv, TypeOK
<1>2. [Next]_vars
  BY DEF Next
<1>3. /\ wire \in Seq(TrueEvents(venue'))
      /\ \A r \in Reconcilers : TrueReads(rec[r], venue')
      /\ TrueFile(orders, venue')
  BY <1>2, TruthLasts
<1>4. UNCHANGED <<wire, rec>>
  BY DEF PlaceNext, PlacePersist, PlaceSend, PlaceAnswer, PlaceRecord, PlaceRest
<1>5. UnsentUnknown' /\ AnswersHappened'
  <2>1. \A p \in Orders : p # o => venue'[p] = venue[p] /\ place'[p] = place[p]
    BY <1>1 DEF PlaceNext, PlacePersist, PlaceSend, PlaceAnswer, PlaceRecord
  <2>2. CASE PlaceSend(o)
    <3>1. venue'[o].status = "flight" /\ venue'[o].cum = venue[o].cum /\ place'[o] = "sent"
          /\ place[o] = "persisted"
      BY <1>1, <2>2 DEF PlaceSend
    <3> QED
      BY <2>1, <3>1 DEF HappenedInv, UnsentUnknown, AnswersHappened
  <2>3. CASE PlacePersist(o) \/ PlaceAnswer(o) \/ PlaceRecord(o)
    <3>1. /\ venue' = venue
          /\ place'[o] \in {"idle", "persisted"} => place[o] \in {"idle", "persisted"}
          /\ place'[o] = "rejected" => venue[o].status = "refused"
      BY <1>1, <2>3 DEF PlacePersist, PlaceAnswer, PlaceAnswers, PlaceRecord
    <3> QED
      BY <2>1, <3>1 DEF HappenedInv, UnsentUnknown, AnswersHappened
  <2> QED
    BY <2>2, <2>3 DEF PlaceNext
<1>6. TrueFile(orders', venue')
  <2>1. CASE PlacePersist(o)
    <3>1. HappenedTo(Pending.status, venue'[o])
      BY DEF Pending, HappenedTo
    <3> QED
      BY <1>1, <1>3, <2>1, <3>1, UpsertRESTTells DEF PlacePersist
  <2>2. CASE PlaceSend(o) \/ PlaceAnswer(o)
    BY <1>3, <2>2 DEF PlaceSend, PlaceAnswer, stateVars
  <2>3. CASE PlaceRecord(o)
    <3>1. HappenedTo(AnswerUpdate(place[o]).status, venue'[o])
      BY <2>3 DEF PlaceRecord, AnswerUpdate, HappenedTo, HappenedInv, AnswersHappened
    <3> QED
      BY <1>1, <1>3, <2>3, <3>1, UpsertRESTTells DEF PlaceRecord, stateVars
  <2> QED
    BY <2>1, <2>2, <2>3 DEF PlaceNext
<1>7. PartlyIsFilled'
  BY <1>1 DEF HappenedInv, PartlyIsFilled, PlaceNext, PlacePersist, PlaceSend,
              PlaceAnswer, PlaceRecord
<1> QED
  BY <1>3, <1>4, <1>5, <1>6, <1>7 DEF HappenedInv, ReadsHappened, WireHappened

(* What a process other than the venue and `order place' does tells the    *)
(* truth when its locals, its events and the file do.                      *)
LEMMA OthersTell ==
  ASSUME HappenedInv, UNCHANGED <<venue, place>>, WireHappened', ReadsHappened',
         TrueFile(orders', venue)
  PROVE  HappenedInv'
BY DEF HappenedInv, UnsentUnknown, PartlyIsFilled, AnswersHappened

(* The locals of one reconciler are replaced.                              *)
LEMMA RecSetTells ==
  ASSUME FlowInv, HappenedInv, UNCHANGED venue, NEW r \in Reconcilers, NEW locals,
         RecSet(r, locals), TrueReads(locals, venue)
  PROVE  ReadsHappened'
<1>1. \A q \in Reconcilers : rec'[q] = IF q = r THEN locals ELSE rec[q]
  BY DEF RecSet, FlowInv, TypeOK
<1> QED
  BY <1>1 DEF HappenedInv, ReadsHappened

(* A reconciler that has read nothing.                                     *)
LEMMA IdleTells ==
  TrueReads(Idle, venue) /\ TrueReads([Idle EXCEPT !.at = "open"], venue)
BY DEF Idle, TrueReads

(* A step of Reconcile.                                                    *)
LEMMA ReconcileTells ==
  ASSUME FlowInv, HappenedInv, NEW r \in Reconcilers, ReconcileNext(r)
  PROVE  HappenedInv'
<1>1. /\ rec[r] \in RecLocals
      /\ rec[r].remote \in [Orders -> OrderViews \union {NoOrder}]
      /\ rec[r].execs \in SUBSET Fills
      /\ StateTypeOK
      /\ SeenOnly(rec[r])
  BY DEF FlowInv, TypeOK, RecLocals, TodoIsSeen
<1>2. TrueReads(rec[r], venue) /\ TrueFile(orders, venue)
  BY DEF HappenedInv, ReadsHappened
<1>3. UNCHANGED <<venue, place, wire>>
  BY DEF ReconcileNext, ReconcileOpen, ReconcileRecent, ReconcileExecutions,
     ReconcileSnapshot, ReconcileRepair, ReconcileRepaired, ReconcileRecord,
     ReconcileDone, Read, RecRest
<1>4. WireHappened'
  BY <1>3 DEF HappenedInv, WireHappened
<1>5. ASSUME NEW locals, RecSet(r, locals), TrueReads(locals, venue),
             TrueFile(orders', venue)
      PROVE  HappenedInv'
  BY <1>3, <1>4, <1>5, RecSetTells, OthersTell
<1>6. ASSUME NEW next, NEW locals \in RecLocals, Read(r, next, locals),
             TrueReads(locals, venue)
      PROVE  HappenedInv'
  <2>1. TrueReads([locals EXCEPT !.at = next], venue)
    BY <1>6 DEF RecLocals, TrueReads
  <2> QED
    BY <1>2, <1>5, <1>6, <2>1 DEF Read, stateVars
<1>7. \A o \in Orders : venue[o].status \in Visible => venue[o] \in OrderViews
  BY DEF FlowInv, TypeOK, OrderViews
<1>8. CASE ReconcileOpen(r)
  <2> DEFINE remote == [o \in Orders |->
               IF venue[o].status \in Open THEN venue[o] ELSE NoOrder]
             locals == [rec[r] EXCEPT !.remote = remote]
  <2>1. Read(r, "recent", locals)
    BY <1>8 DEF ReconcileOpen
  <2>2. remote \in [Orders -> OrderViews \union {NoOrder}]
    BY <1>7 DEF Open, Visible
  <2>3. \A o \in Orders : remote[o] # NoOrder => HappenedTo(remote[o].status, venue[o])
    BY DEF Open, HappenedTo, Visible, HappenedInv, PartlyIsFilled
  <2> HIDE DEF remote
  <2>4. locals \in RecLocals /\ TrueReads(locals, venue)
    BY <1>1, <1>2, <2>2, <2>3 DEF TrueReads, RecLocals
  <2> HIDE DEF locals
  <2> QED
    BY <1>6, <2>1, <2>4
<1>9. CASE ReconcileRecent(r)
  <2> DEFINE remote == [o \in Orders |->
               IF venue[o].status \in Done THEN venue[o] ELSE rec[r].remote[o]]
             locals == [rec[r] EXCEPT !.remote = remote]
  <2>1. Read(r, "executions", locals)
    BY <1>9 DEF ReconcileRecent
  <2>2. remote \in [Orders -> OrderViews \union {NoOrder}]
    BY <1>1, <1>7 DEF Done, Visible
  <2>3. \A o \in Orders : remote[o] # NoOrder => HappenedTo(remote[o].status, venue[o])
    BY <1>2 DEF Done, HappenedTo, Visible, TrueReads
  <2> HIDE DEF remote
  <2>4. locals \in RecLocals /\ TrueReads(locals, venue)
    BY <1>1, <1>2, <2>2, <2>3 DEF TrueReads, RecLocals
  <2> HIDE DEF locals
  <2> QED
    BY <1>6, <2>1, <2>4
<1>10. CASE ReconcileExecutions(r)
  <2> DEFINE execs == {f \in Fills : f[2] <= venue[f[1]].cum}
             locals == [rec[r] EXCEPT !.execs = execs]
  <2>1. Read(r, "snapshot", locals)
    BY <1>10 DEF ReconcileExecutions
  <2>2. execs \in SUBSET Fills /\ \A f \in Fills : f \in execs => venue[f[1]].cum > 0
    <3>1. \A f \in Fills : f[2] \in 1 .. Qty /\ venue[f[1]].cum \in Nat
      BY OrderStateAssumption DEF Fills, FlowInv, TypeOK
    <3> QED
      BY <3>1
  <2> HIDE DEF execs
  <2>3. locals \in RecLocals /\ TrueReads(locals, venue)
    BY <1>1, <1>2, <2>2 DEF TrueReads, RecLocals
  <2> HIDE DEF locals
  <2> QED
    BY <1>6, <2>1, <2>3
<1>11. CASE ReconcileSnapshot(r)
  <2> DEFINE todo == {o \in Orders : rec[r].remote[o] \notin {NoOrder, cache[r].orders[o]}}
             locals == [rec[r] EXCEPT !.execs = rec[r].execs \ cache[r].execs,
                                      !.todo = todo]
  <2>1. Read(r, "repair", locals)
    BY <1>11 DEF ReconcileSnapshot
  <2>2. todo \in SUBSET Orders
    OBVIOUS
  <2> HIDE DEF todo
  <2>3. locals \in RecLocals /\ TrueReads(locals, venue)
    BY <1>1, <1>2, <2>2 DEF TrueReads, RecLocals
  <2> HIDE DEF locals
  <2> QED
    BY <1>6, <2>1, <2>3
<1>12. CASE ReconcileRepaired(r)
  BY <1>1, <1>2, <1>6, <1>12 DEF ReconcileRepaired
<1>13. ASSUME NEW o \in Orders, ReconcileRepair(r, o)
       PROVE  HappenedInv'
  <2>1. HappenedTo(rec[r].remote[o].status, venue[o])
    BY <1>1, <1>2, <1>13 DEF ReconcileRepair, SeenOnly, TrueReads
  <2>2. TrueFile(orders', venue)
    BY <1>1, <1>2, <1>13, <2>1, ApplyOrderTells DEF ReconcileRepair, stateVars
  <2> DEFINE locals == [rec[r] EXCEPT !.todo = rec[r].todo \ {o}]
  <2>3. RecSet(r, locals) /\ TrueReads(locals, venue)
    BY <1>1, <1>2, <1>13 DEF ReconcileRepair, TrueReads, RecLocals
  <2> HIDE DEF locals
  <2> QED
    BY <1>5, <2>2, <2>3
<1>14. ASSUME NEW o \in Orders, NEW n \in 1 .. Qty, ReconcileRecord(r, o, n)
       PROVE  HappenedInv'
  <2>1. venue[o].cum > 0
    BY <1>1, <1>2, <1>14 DEF ReconcileRecord, TrueReads
  <2>2. \/ UNCHANGED orders \/ ApplyExecution(o, n)
    BY <1>14 DEF ReconcileRecord, RecordExecution, stateVars
  <2>3. TrueFile(orders', venue)
    BY <1>1, <1>2, <2>1, <2>2, ApplyExecutionTells
  <2> DEFINE locals == [rec[r] EXCEPT !.execs = rec[r].execs \ {<<o, n>>}]
  <2>4. RecSet(r, locals) /\ TrueReads(locals, venue)
    BY <1>1, <1>2, <1>14 DEF ReconcileRecord, TrueReads, RecLocals
  <2> HIDE DEF locals
  <2> QED
    BY <1>5, <2>3, <2>4
<1>15. CASE ReconcileDone(r)
  <2>1. RecSet(r, Idle) /\ UNCHANGED stateVars
    BY <1>15 DEF ReconcileDone
  <2> QED
    BY <1>2, <1>5, <2>1, IdleTells DEF stateVars
<1> QED
  BY <1>8, <1>9, <1>10, <1>11, <1>12, <1>13, <1>14, <1>15 DEF ReconcileNext

(* The process around Reconcile: its start, its end and the faults.        *)
LEMMA ProcessesTell ==
  ASSUME FlowInv, HappenedInv,
         ReconcileCommand \/ StreamStart \/ Connect \/ Overflow \/ Fault
  PROVE  HappenedInv'
<1> USE DEF ReconcileCommand, StreamStart, Connect, Overflow, Fault, Disconnect,
            ReadFails, Restart, StreamRest, RecRest, GiveUp
<1>1. UNCHANGED <<venue, place, orders>>
  BY DEF stateVars
<1>2. WireHappened'
  <2>1. UNCHANGED wire \/ wire' = <<>>
    OBVIOUS
  <2> DEFINE T == TrueEvents(venue)
  <2>2. wire \in Seq(T) /\ WireHappened' = (wire' \in Seq(TrueEvents(venue')))
    BY DEF HappenedInv, WireHappened
  <2>3. TrueEvents(venue') = T
    BY <1>1
  <2> HIDE DEF T
  <2>4. <<>> \in Seq(T)
    OBVIOUS
  <2>5. wire' \in Seq(T)
    BY <2>1, <2>2, <2>4
  <2> QED
    BY <2>2, <2>3, <2>5
<1>3. ReadsHappened'
  <2>1. Stream \in Reconcilers /\ Command \in Reconcilers
    BY DEF Reconcilers
  <2>2. \/ UNCHANGED rec
        \/ \E r \in {Stream, Command} :
             RecSet(r, Idle) \/ RecSet(r, [Idle EXCEPT !.at = "open"])
    OBVIOUS
  <2>3. CASE UNCHANGED rec
    BY <1>1, <2>3 DEF HappenedInv, ReadsHappened
  <2> QED
    BY <1>1, <2>1, <2>2, <2>3, IdleTells, RecSetTells
<1> QED
  BY <1>1, <1>2, <1>3, OthersTell DEF HappenedInv

(* The sink of the stream applies an event, or the session ends.           *)
LEMMA DeliverTells ==
  ASSUME FlowInv, HappenedInv, DeliverOrder \/ DeliverExecution
  PROVE  HappenedInv'
<1> DEFINE e == Head(wire)
           T == TrueEvents(venue)
<1>1. UNCHANGED <<venue, place, rec>> /\ wire # <<>>
  BY DEF DeliverOrder, DeliverExecution, StreamRest
<1>2. wire \in Seq(T) /\ StateTypeOK /\ TrueFile(orders, venue)
  BY DEF HappenedInv, WireHappened, FlowInv, TypeOK
<1>3. e \in T /\ Tail(wire) \in Seq(T)
  <2> HIDE DEF T
  <2> QED
    BY <1>1, <1>2, HeadTailProperties
<1>4. WireHappened'
  <2>1. wire' = Tail(wire) \/ wire' = <<>>
    BY DEF DeliverOrder, DeliverExecution, GiveUp
  <2>2. WireHappened' = (wire' \in Seq(TrueEvents(venue')))
    BY DEF WireHappened
  <2>3. TrueEvents(venue') = T
    BY <1>1
  <2> HIDE DEF T
  <2>4. <<>> \in Seq(T)
    OBVIOUS
  <2>5. wire' \in Seq(T)
    BY <1>3, <2>1, <2>4
  <2> QED
    BY <2>2, <2>3, <2>5
<1>5. e \in Events /\ e.order \in Orders
  BY <1>3 DEF TrueEvents, Events
<1> HIDE DEF e
<1>6. TrueFile(orders', venue)
  <2>1. CASE DeliverOrder
    <3>1. HappenedTo(e.status, venue[e.order])
      BY <1>3, <2>1 DEF DeliverOrder, e, TrueEvents
    <3>2. ApplyOrder(e.order, [status |-> e.status, cum |-> e.cum]) \/ UNCHANGED orders
      BY <2>1 DEF DeliverOrder, e, stateVars
    <3> QED
      BY <1>2, <1>5, <3>1, <3>2, ApplyOrderTells
  <2>2. CASE DeliverExecution
    <3>1. venue[e.order].cum > 0
      BY <1>3, <2>2 DEF DeliverExecution, e, TrueEvents
    <3>2. ApplyExecution(e.order, e.n) \/ UNCHANGED orders
      BY <2>2 DEF DeliverExecution, e, stateVars
    <3> QED
      BY <1>2, <1>5, <3>1, <3>2, ApplyExecutionTells
  <2> QED
    BY <2>1, <2>2
<1>7. ReadsHappened'
  BY <1>1 DEF HappenedInv, ReadsHappened
<1> QED
  BY <1>1, <1>4, <1>6, <1>7, OthersTell

-----------------------------------------------------------------------------
(* The inductive invariant of what the file says.                          *)
THEOREM HappenedInvHolds == Spec => []HappenedInv
<1>1. Init => HappenedInv
  <2> SUFFICES ASSUME Init PROVE HappenedInv
    OBVIOUS
  <2>1. UnsentUnknown /\ PartlyIsFilled /\ AnswersHappened
    BY DEF Init, UnsentUnknown, PartlyIsFilled, AnswersHappened
  <2>2. WireHappened /\ TrueFile(orders, venue)
    BY DEF Init, StateInit, WireHappened, TrueFile
  <2>3. ReadsHappened
    BY IdleTells DEF Init, ReadsHappened
  <2> QED
    BY <2>1, <2>2, <2>3 DEF HappenedInv
<1>2. FlowInv /\ HappenedInv /\ [Next]_vars => HappenedInv'
  <2> SUFFICES ASSUME FlowInv, HappenedInv, [Next]_vars PROVE HappenedInv'
    OBVIOUS
  <2>1. CASE UNCHANGED vars
    BY <2>1, OthersTell
       DEF vars, HappenedInv, WireHappened, ReadsHappened
  <2>2. CASE Next
    BY <2>2, VenueTells, PlaceTells, ReconcileTells, ProcessesTell, DeliverTells
       DEF Next, StreamNext
  <2> QED
    BY <2>1, <2>2
<1> QED
  BY <1>1, <1>2, FlowInvHolds, PTL DEF Spec

(* Whatever the streams, the late REST answers and two reconcilers with old*)
(* views write over each other, the file calls no order cancelled,         *)
(* rejected, live or partly filled that is not or was not.                 *)
THEOREM FileTellsWhatHappened == Spec => []StatusHappened
<1>1. HappenedInv => StatusHappened
  BY DEF HappenedInv, TrueFile, HappenedTo, StatusHappened, Known
<1> QED
  BY <1>1, HappenedInvHolds, PTL

-----------------------------------------------------------------------------
(* A late answer.                                                          *)

(* The file takes every answer `order place' records: the status is past   *)
(* submission, or admits the answer's.                                     *)
LEMMA AnswersAreTaken ==
  ASSUME StateTypeOK, NEW o \in Orders, NEW a
  PROVE  CanUpsertREST(o, AnswerUpdate(a))
<1>1. AnswerUpdate(a).status \in {"PendingSubmit", "Rejected"}
  BY DEF AnswerUpdate
<1>2. CASE Advanced(o)
  BY <1>2 DEF CanUpsertREST
<1>3. CASE ~Advanced(o)
  <2>1. Current(o).status \in {"Unknown", "PendingSubmit"}
    BY <1>3 DEF Advanced, Current, Known
  <2> QED
    BY <1>1, <2>1 DEF CanUpsertREST, CanApplyOrder, ValidateTransition, Allowed
<1> QED
  BY <1>2, <1>3

(* No `order place' command fails because the streams were faster than its *)
(* answer, however far they moved the order.                               *)
THEOREM LateAnswersAbsorbed == Spec => []LateAnswerAbsorbed
<1>1. Init => LateAnswerAbsorbed
  BY DEF Init, LateAnswerAbsorbed
<1>2. FlowInv /\ LateAnswerAbsorbed /\ [Next]_vars => LateAnswerAbsorbed'
  <2> SUFFICES ASSUME FlowInv, LateAnswerAbsorbed, [Next]_vars
               PROVE  LateAnswerAbsorbed'
    OBVIOUS
  <2>1. ASSUME NEW o \in Orders, PlaceNext(o)
        PROVE  LateAnswerAbsorbed'
    <3>1. StateTypeOK /\ place \in [Orders -> PlaceSteps]
      BY DEF FlowInv, TypeOK
    <3>2. CanUpsertREST(o, AnswerUpdate(place[o]))
      BY <3>1, AnswersAreTaken
    <3> QED
      BY <2>1, <3>1, <3>2
         DEF PlaceNext, PlacePersist, PlaceSend, PlaceAnswer, PlaceAnswers, PlaceRecord,
             LateAnswerAbsorbed
  <2>2. ASSUME NEW o \in Orders, VenueNext(o)
        PROVE  UNCHANGED place
    BY <2>2 DEF VenueNext, VenueTurnAway, VenueAccept, VenueFill, VenueCancel, VenueRest
  <2>3. ASSUME NEW r \in Reconcilers, ReconcileNext(r)
        PROVE  UNCHANGED place
    BY <2>3 DEF ReconcileNext, ReconcileOpen, ReconcileRecent, ReconcileExecutions,
       ReconcileSnapshot, ReconcileRepair, ReconcileRepaired, ReconcileRecord,
       ReconcileDone, Read, RecRest
  <2>4. ASSUME ReconcileCommand \/ StreamNext \/ Fault \/ UNCHANGED vars
        PROVE  UNCHANGED place
    BY <2>4 DEF ReconcileCommand, RecRest, StreamNext, StreamStart, Connect,
       DeliverOrder, DeliverExecution, Overflow, Fault, Disconnect, ReadFails, Restart,
       StreamRest, vars
  <2> QED
    BY <2>1, <2>2, <2>3, <2>4 DEF Next, LateAnswerAbsorbed
<1> QED
  BY <1>1, <1>2, FlowInvHolds, PTL DEF Spec
=============================================================================
