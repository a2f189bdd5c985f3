----------------------------- MODULE OrderState -----------------------------
(***************************************************************************)
(* The shared order state (internal/orderstate): every command of the      *)
(* connector keeps what it knows of orders and executions in one snapshot  *)
(* file.  FileStore.Update takes a file lock, loads, mutates and renames,  *)
(* so each operation is one step; a mutation that returns an error leaves  *)
(* the file as it was.                                                     *)
(*                                                                         *)
(* An order of Qty lots is filled one lot at a time; the execution <<o, n>>*)
(* is the n-th lot of order o.  An order is found by its client or its     *)
(* exchange ID; here it is simply o.                                       *)
(***************************************************************************)
EXTENDS Integers, FiniteSets

CONSTANTS
  Orders,
  Qty,           \* lots per order
  NoOrder,       \* an absent map entry
  NoCum          \* an update without a cumulative quantity

OrderStatuses == {"Unknown", "PendingSubmit", "New", "PartiallyFilled", "Filled",
                  "PendingCancel", "Cancelled", "Rejected", "RejectedCancel"}

Fills == Orders \X (1 .. Qty)

OrderRecords == [status: OrderStatuses, cum: Nat]

OrderUpdates == [status: OrderStatuses, cum: Nat \union {NoCum}]

ASSUME OrderStateAssumption ==
  /\ Qty \in Nat \ {0}
  /\ NoOrder \notin OrderRecords /\ NoCum \notin Nat

VARIABLES
  orders,        \* order -> status and cumulative filled quantity
  executions     \* the executions recorded so far

stateVars == <<orders, executions>>

-----------------------------------------------------------------------------
(* The statuses a status may be followed by.                               *)
Allowed(from) ==
  CASE from = "Unknown"         -> {"PendingSubmit", "New", "PartiallyFilled",
                                    "Filled", "Cancelled", "Rejected"}
    [] from = "PendingSubmit"   -> {"New", "PartiallyFilled", "Filled",
                                    "Cancelled", "Rejected"}
    [] from = "New"             -> {"PartiallyFilled", "Filled", "PendingCancel",
                                    "Cancelled"}
    [] from = "PartiallyFilled" -> {"Filled", "PendingCancel", "Cancelled"}
    [] from = "PendingCancel"   -> {"Cancelled", "Filled", "RejectedCancel"}
    [] from = "Cancelled"       -> {"Filled"}
    [] OTHER                    -> {}

ValidateTransition(from, to) == from = to \/ to \in Allowed(from)

Known == {o \in Orders : orders[o] # NoOrder}

(* An order that is not found counts as Unknown.                           *)
Current(o) ==
  IF o \in Known THEN orders[o] ELSE [status |-> "Unknown", cum |-> 0]

mergeOrder(current, update) ==
  [status |-> update.status,
   cum |-> IF update.cum = NoCum THEN current.cum ELSE update.cum]

CanApplyOrder(o, update) == ValidateTransition(Current(o).status, update.status)

ApplyOrder(o, update) ==
  /\ CanApplyOrder(o, update)
  /\ orders' = [orders EXCEPT ![o] = mergeOrder(Current(o), update)]
  /\ UNCHANGED executions

(* What a stream has already advanced past submission is not touched by a  *)
(* late REST answer.                                                       *)
Advanced(o) ==
  o \in Known /\ orders[o].status \notin {"Unknown", "PendingSubmit"}

(* Mutated form: the answer is applied like any other update.              *)
CanUpsertAlways(o, update) == CanApplyOrder(o, update)

CanUpsertREST(o, update) == Advanced(o) \/ CanApplyOrder(o, update)

UpsertREST(o, update) ==
  \/ Advanced(o) /\ UNCHANGED stateVars
  \/ ~Advanced(o) /\ ApplyOrder(o, update)

-----------------------------------------------------------------------------
(* Executions.                                                             *)

(* Mutated form: an execution is not looked up before it is added.         *)
NeverDuplicate(o, n) == FALSE

Duplicate(o, n) == <<o, n>> \in executions

(* The status an order has once an execution brings it to `cum' lots.      *)
StatusAfterFill(status, cum) ==
  IF cum >= Qty THEN "Filled"
  ELSE IF status = "PendingCancel" THEN "PendingCancel"
  ELSE "PartiallyFilled"

(* The lot was not added before, its order is known, and the status admits *)
(* the fill.                                                               *)
Adds(o, n) ==
  /\ ~Duplicate(o, n)
  /\ o \in Known
  /\ ValidateTransition(orders[o].status,
                        StatusAfterFill(orders[o].status, orders[o].cum + 1))

(* Otherwise, and unless it is a duplicate, ApplyExecution is an error.    *)
CanApplyExecution(o, n) == Duplicate(o, n) \/ Adds(o, n)

ApplyExecution(o, n) ==
  \/ Duplicate(o, n) /\ UNCHANGED stateVars
  \/ /\ Adds(o, n)
     /\ LET cum == orders[o].cum + 1
        IN  orders' = [orders EXCEPT ![o] =
              [status |-> StatusAfterFill(orders[o].status, cum), cum |-> cum]]
     /\ executions' = executions \union {<<o, n>>}

(* An execution that an authoritative cumulative quantity already contains *)
(* is recorded without being added.                                        *)
CanRecordExecution(o, n) == Duplicate(o, n) \/ o \in Known

RecordExecution(o, n) ==
  /\ CanRecordExecution(o, n)
  /\ executions' = executions \union {<<o, n>>}
  /\ UNCHANGED orders

StateInit == orders = [o \in Orders |-> NoOrder] /\ executions = {}

StateTypeOK ==
  /\ orders \in [Orders -> OrderRecords \union {NoOrder}]
  /\ executions \subseteq Fills
=============================================================================
