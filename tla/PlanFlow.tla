------------------------------ MODULE PlanFlow ------------------------------
(***************************************************************************)
(* Planned orders of the Deribit command line.  The commands `order plan', *)
(* `order execute' and `reconcile' (cmd/venuewire/deribit_commands.go) are *)
(* processes that share the intent file (internal/intent/store.go) and the *)
(* order file (OrderState).  The first two begin with RecoverUncertain, the*)
(* third is Run (internal/deribitreconcile); `order execute' then goes     *)
(* through Planner.Execute.  The venue is external.                        *)
(*                                                                         *)
(* The order of plan p carries the label p; p is also its key in the order *)
(* file.  The venue does not keep labels unique: an order of someone else  *)
(* may carry the label too, and the file finds it under the same key.      *)
(***************************************************************************)
EXTENDS OrderState

CONSTANTS
  Procs,           \* processes that run commands
  Foreign,         \* plans whose label an order of someone else may carry
  NoPlan,          \* an absent map entry
  NoID,            \* no native order ID
  MaxOpenOrders,   \* Limits.MaxOpenOrders
  MaxRuns          \* bound: commands started

Plans == Orders

Natives == Plans \X {"own", "foreign"}

Own(p) == <<p, "own">>

PlanStatuses == {"Planned", "Executing", "Submitted", "Rejected",
                 "OutcomeUnknown", "Expired", "NeedsReview"}

(* The statuses in which the fate of an order is open.                     *)
Uncertain == {"Executing", "OutcomeUnknown", "NeedsReview"}

PlanRecords == [status: PlanStatuses, native: Natives \union {NoID}]

RawStates == {"open", "filled", "cancelled", "rejected"}

VenueOrders == [state: {"none", "flight", "lost", "refused"} \union RawStates,
                cum: 0 .. Qty, indexed: BOOLEAN]

Steps == {"idle", "pick", "history", "review", "apply", "adopt", "trades",
          "record", "pages", "create", "get", "validate", "claim", "place",
          "await", "verify", "finish"}

ASSUME PlanFlowAssumption ==
  /\ NoPlan \notin PlanRecords /\ NoPlan \notin Plans /\ NoID \notin Natives
  /\ Foreign \subseteq Plans
  /\ MaxOpenOrders \in Nat /\ MaxRuns \in Nat

VARIABLES
  plans,    \* the intent file: plan -> status and native order ID
  old,      \* the plans whose ExpiresAt has passed
  venue,    \* external: the orders at the venue
  sends,    \* history: how often the order of a plan was sent
  cmd,      \* the locals of each process
  runs

vars == <<orders, executions, plans, old, venue, sends, cmd, runs>>

(* kind, plan: the command and its --plan-id; listed, todo: the plans that *)
(* were listed and are still to be checked; cur, seen, id, execs: the plan *)
(* being checked and what the venue said of it; result: what Execute is to *)
(* write.                                                                  *)
Locals ==
  [at: Steps, kind: {"plan", "execute", "reconcile"}, plan: Plans \union {NoPlan},
   listed: [Plans -> PlanRecords \union {NoPlan}], todo: SUBSET Plans,
   cur: Plans \union {NoPlan}, seen: [Natives -> VenueOrders \union {NoID}],
   id: Natives \union {NoID}, execs: SUBSET Fills, result: PlanRecords]

NoResult == [status |-> "NeedsReview", native |-> NoID]

Nothing == [n \in Natives |-> NoID]

Idle ==
  [at |-> "idle", kind |-> "plan", plan |-> NoPlan,
   listed |-> [p \in Plans |-> NoPlan], todo |-> {}, cur |-> NoPlan,
   seen |-> Nothing, id |-> NoID, execs |-> {}, result |-> NoResult]

Become(c, locals) == cmd' = [cmd EXCEPT ![c] = locals]

Go(c, step) == Become(c, [cmd[c] EXCEPT !.at = step])

End(c) == Become(c, Idle)

-----------------------------------------------------------------------------
(* The intent file.  Every update holds the file lock.                     *)

SavePlan(p) ==
  /\ plans[p] = NoPlan
  /\ plans' = [plans EXCEPT ![p] = [status |-> "Planned", native |-> NoID]]

(* Mutated form: a claim does not look at the status.                      *)
ClaimAnything(p) == plans[p] # NoPlan

Claimable(p) == plans[p] # NoPlan /\ plans[p].status = "Planned"

(* Mutated form: the claim is not written.                                 *)
ClaimUnwritten(p) == IF p \in old THEN "Expired" ELSE "Planned"

ClaimStatus(p) == IF p \in old THEN "Expired" ELSE "Executing"

(* The status is overwritten, whatever it is.                              *)
Finish(p, result) ==
  /\ plans[p] # NoPlan
  /\ plans' = [plans EXCEPT ![p] = result]

-----------------------------------------------------------------------------
(* What the venue shows.                                                   *)

Visible(n) == venue[n].state \in RawStates

OpenOrders == {n \in Natives : venue[n].state = "open"}

(* Closed orders reach the history with a delay.                           *)
History == {n \in Natives : venue[n].state \in RawStates \ {"open"} /\ venue[n].indexed}

(* Mutated form: a rejected order is taken for a cancelled one.            *)
normalizeSwapped(raw) ==
  CASE raw = "open" -> "New" [] raw = "filled" -> "Filled" [] OTHER -> "Cancelled"

normalizeStatus(raw) ==
  CASE raw = "open"      -> "New"
    [] raw = "filled"    -> "Filled"
    [] raw = "cancelled" -> "Cancelled"
    [] raw = "rejected"  -> "Rejected"
    [] OTHER             -> "Unknown"

Update(view) == [status |-> normalizeStatus(view.state), cum |-> view.cum]

-----------------------------------------------------------------------------
(* Every command lists the plans first.                                    *)

ToCheck(kind) ==
  {p \in Plans : /\ plans[p] # NoPlan
                 /\ plans[p].status \notin {"Planned", "Expired", "Rejected"}
                 /\ kind = "reconcile" \/ plans[p].status \in Uncertain}

Begin(c, kind, p) ==
  /\ cmd[c].at = "idle" /\ runs < MaxRuns
  /\ kind = "execute" <=> p # NoPlan
  /\ Become(c, [Idle EXCEPT !.at = "pick", !.kind = kind, !.plan = p,
                  !.listed = plans, !.todo = ToCheck(kind)])
  /\ runs' = runs + 1
  /\ UNCHANGED <<stateVars, plans, old, venue, sends>>

CmdRest == UNCHANGED <<old, venue, sends, runs>>

(* OrdersByLabel: the open orders, then the history; the first view of an  *)
(* order is kept.                                                          *)
RecoverOpen(c, p) ==
  /\ cmd[c].at = "pick" /\ p \in cmd[c].todo
  /\ Become(c, [cmd[c] EXCEPT !.at = "history", !.cur = p, !.todo = @ \ {p},
                  !.id = NoID,
                  !.seen = [n \in Natives |->
                    IF n \in OpenOrders /\ n[1] = p THEN venue[n] ELSE NoID]])
  /\ UNCHANGED <<stateVars, plans>>
  /\ CmdRest

WithHistory(c) ==
  [n \in Natives |-> IF cmd[c].seen[n] = NoID /\ n \in History /\ n[1] = cmd[c].cur
                     THEN venue[n] ELSE cmd[c].seen[n]]

(* None: unresolved.  One that does not contradict the native ID on file:  *)
(* it is the order.  Otherwise the plan needs review.                      *)
RecoverHistory(c) ==
  /\ cmd[c].at = "history"
  /\ LET seen    == WithHistory(c)
         matches == {n \in Natives : seen[n] # NoID}
         known   == cmd[c].listed[cmd[c].cur].native
     IN  \/ /\ matches = {}
            /\ Go(c, "pick")
         \/ /\ Cardinality(matches) > 1
            /\ Go(c, "review")
         \/ \E n \in matches :
              /\ matches = {n}
              /\ known \notin {NoID, n}
              /\ Become(c, [cmd[c] EXCEPT !.at = "review", !.id = known])
         \/ \E n \in matches :
              /\ matches = {n}
              /\ known \in {NoID, n}
              /\ Become(c, [cmd[c] EXCEPT !.at = "apply", !.id = n, !.seen = seen])
  /\ UNCHANGED <<stateVars, plans>>
  /\ CmdRest

(* A failure to write the review is ignored.                               *)
RecoverReview(c) ==
  /\ cmd[c].at = "review"
  /\ \/ Finish(cmd[c].cur, [status |-> "NeedsReview", native |-> cmd[c].id])
     \/ UNCHANGED plans
  /\ Go(c, "pick")
  /\ UNCHANGED stateVars
  /\ CmdRest

(* A view the order file cannot follow ends the command.                   *)
RecoverApply(c) ==
  /\ cmd[c].at = "apply"
  /\ LET p      == cmd[c].cur
         update == Update(cmd[c].seen[cmd[c].id])
     IN  \/ /\ CanApplyOrder(p, update)
            /\ ApplyOrder(p, update)
            /\ Go(c, IF cmd[c].listed[p].status \in Uncertain THEN "adopt" ELSE "trades")
         \/ /\ ~CanApplyOrder(p, update)
            /\ End(c)
            /\ UNCHANGED stateVars
  /\ UNCHANGED plans
  /\ CmdRest

RecoverAdopt(c) ==
  /\ cmd[c].at = "adopt"
  /\ Finish(cmd[c].cur, [status |-> "Submitted", native |-> cmd[c].id])
  /\ Go(c, "trades")
  /\ UNCHANGED stateVars
  /\ CmdRest

(* TradesByOrder.  Orders of others are taken not to trade.                *)
RecoverTrades(c) ==
  /\ cmd[c].at = "trades"
  /\ Become(c, [cmd[c] EXCEPT !.at = "record",
                  !.execs = {cmd[c].cur} \X (1 .. venue[cmd[c].id].cum)])
  /\ UNCHANGED <<stateVars, plans>>
  /\ CmdRest

RecoverRecord(c, p, n) ==
  /\ cmd[c].at = "record" /\ <<p, n>> \in cmd[c].execs
  /\ RecordExecution(p, n)
  /\ Become(c, [cmd[c] EXCEPT !.execs = @ \ {<<p, n>>}])
  /\ UNCHANGED plans
  /\ CmdRest

RecoverNext(c) ==
  /\ cmd[c].at = "record" /\ cmd[c].execs = {}
  /\ Go(c, "pick")
  /\ UNCHANGED <<stateVars, plans>>
  /\ CmdRest

(* All listed plans are checked.                                           *)
Recovered(c) ==
  /\ cmd[c].at = "pick" /\ cmd[c].todo = {}
  /\ Go(c, CASE cmd[c].kind = "plan"      -> "create"
             [] cmd[c].kind = "execute"   -> "get"
             [] cmd[c].kind = "reconcile" -> "pages")
  /\ UNCHANGED <<stateVars, plans>>
  /\ CmdRest

(* The pages of an instrument's trades: those of orders on file are        *)
(* recorded, as many as the pages show.                                    *)
Pages(c) ==
  /\ cmd[c].at = "pages"
  /\ \E shown \in SUBSET {f \in Fills : f[1] \in Known /\ f[2] <= venue[Own(f[1])].cum} :
       executions' = executions \union shown
  /\ End(c)
  /\ UNCHANGED <<orders, plans>>
  /\ CmdRest

-----------------------------------------------------------------------------
(* Planner.Create and Planner.Execute.                                     *)

(* Of validate's conditions, the one that depends on the other orders.     *)
WithinLimits == Cardinality(OpenOrders) < MaxOpenOrders

Create(c) ==
  /\ cmd[c].at = "create"
  /\ WithinLimits
  /\ \E p \in Plans : SavePlan(p)
  /\ End(c)
  /\ UNCHANGED stateVars
  /\ CmdRest

(* A plan that is already too old is claimed only to be marked so.         *)
ExecuteGet(c) ==
  /\ cmd[c].at = "get"
  /\ LET p == cmd[c].plan
     IN  \/ /\ Claimable(p)
            /\ Go(c, IF p \in old THEN "claim" ELSE "validate")
         \/ /\ ~Claimable(p)
            /\ End(c)
  /\ UNCHANGED <<stateVars, plans>>
  /\ CmdRest

ExecuteValidate(c) ==
  /\ cmd[c].at = "validate"
  /\ \/ WithinLimits /\ Go(c, "claim")
     \/ ~WithinLimits /\ End(c)
  /\ UNCHANGED <<stateVars, plans>>
  /\ CmdRest

ExecuteClaim(c) ==
  /\ cmd[c].at = "claim"
  /\ LET p == cmd[c].plan
     IN  \/ /\ ~Claimable(p)
            /\ End(c)
            /\ UNCHANGED plans
         \/ /\ Claimable(p)
            /\ plans' = [plans EXCEPT ![p].status = ClaimStatus(p)]
            /\ IF p \in old THEN End(c) ELSE Go(c, "place")
  /\ UNCHANGED stateVars
  /\ CmdRest

(* Whatever Execute concludes is written by Finish.                        *)
Conclude(c, result) == Become(c, [cmd[c] EXCEPT !.at = "finish", !.result = result])

(* Mutated form: the status of an order instead of that of a plan.         *)
OutcomeOfOrder(answer) ==
  [status |-> IF answer = "refused" THEN "Rejected" ELSE "Unknown", native |-> NoID]

(* Mutated form: a timeout is taken for a rejection.                       *)
OutcomeGuessed(answer) ==
  [status |-> IF answer = "missing" THEN "OutcomeUnknown" ELSE "Rejected", native |-> NoID]

Outcome(answer) ==
  [status |-> IF answer = "refused" THEN "Rejected" ELSE "OutcomeUnknown", native |-> NoID]

(* No token, no connection, an invalid message: nothing was sent.          *)
PlaceFails(c) ==
  /\ cmd[c].at = "place"
  /\ Conclude(c, Outcome("refused"))
  /\ UNCHANGED <<stateVars, plans>>
  /\ CmdRest

PlaceSend(c) ==
  /\ cmd[c].at = "place"
  /\ venue' = [venue EXCEPT ![Own(cmd[c].plan)].state = "flight"]
  /\ sends' = [sends EXCEPT ![cmd[c].plan] = @ + 1]
  /\ Go(c, "await")
  /\ UNCHANGED <<stateVars, plans, old, runs>>

(* An acknowledgement, one without an order ID, an RPC error or a report   *)
(* of a rejection (FIX), or a failure that leaves the outcome open.        *)
PlaceAnswer(c) ==
  /\ cmd[c].at = "await"
  /\ LET n == Own(cmd[c].plan)
     IN  \/ Visible(n) /\ Go(c, "verify")
         \/ Visible(n) /\ Conclude(c, Outcome("missing"))
         \/ venue[n].state \in {"refused", "rejected"} /\ Conclude(c, Outcome("refused"))
         \/ Conclude(c, Outcome("timeout"))
  /\ UNCHANGED <<stateVars, plans>>
  /\ CmdRest

(* Mutated form: the native order ID is not kept.                          *)
VerifiedAs(n) == [status |-> "Submitted", native |-> NoID]

Verified(n) == [status |-> "Submitted", native |-> n]

(* The acknowledged order is read back.                                    *)
ExecuteVerify(c) ==
  /\ cmd[c].at = "verify"
  /\ LET n == Own(cmd[c].plan)
     IN  \/ Conclude(c, Verified(n))
         \/ Conclude(c, [status |-> "NeedsReview", native |-> n])
  /\ UNCHANGED <<stateVars, plans>>
  /\ CmdRest

ExecuteFinish(c) ==
  /\ cmd[c].at = "finish"
  /\ Finish(cmd[c].plan, cmd[c].result)
  /\ End(c)
  /\ UNCHANGED stateVars
  /\ CmdRest

(* A failed read, a signal or a crash ends a command anywhere.             *)
Abort(c) ==
  /\ cmd[c].at # "idle"
  /\ End(c)
  /\ UNCHANGED <<stateVars, plans>>
  /\ CmdRest

-----------------------------------------------------------------------------
(* The clock and the venue.                                                *)

Expire(p) ==
  /\ plans[p] # NoPlan
  /\ old' = old \union {p}
  /\ UNCHANGED <<stateVars, plans, venue, sends, cmd, runs>>

VenueSet(n, order) ==
  /\ venue' = [venue EXCEPT ![n] = order]
  /\ UNCHANGED <<stateVars, plans, old, sends, cmd, runs>>

VenueDecide(n) ==
  /\ venue[n].state = "flight"
  /\ \E s \in {"lost", "refused", "open", "rejected"} :
       VenueSet(n, [venue[n] EXCEPT !.state = s])

VenueForeign(p) ==
  /\ p \in Foreign /\ venue[<<p, "foreign">>].state = "none"
  /\ VenueSet(<<p, "foreign">>, [venue[<<p, "foreign">>] EXCEPT !.state = "open"])

VenueFill(n) ==
  /\ venue[n].state = "open" /\ n[2] = "own"
  /\ LET cum == venue[n].cum + 1
     IN  VenueSet(n, [venue[n] EXCEPT !.cum = cum,
                        !.state = IF cum = Qty THEN "filled" ELSE "open"])

VenueCancel(n) ==
  /\ venue[n].state = "open"
  /\ VenueSet(n, [venue[n] EXCEPT !.state = "cancelled"])

VenueIndex(n) ==
  /\ venue[n].state \in RawStates \ {"open"} /\ ~venue[n].indexed
  /\ VenueSet(n, [venue[n] EXCEPT !.indexed = TRUE])

-----------------------------------------------------------------------------
Init ==
  /\ StateInit
  /\ plans = [p \in Plans |-> NoPlan]
  /\ old = {}
  /\ venue = [n \in Natives |-> [state |-> "none", cum |-> 0, indexed |-> FALSE]]
  /\ sends = [p \in Plans |-> 0]
  /\ cmd = [c \in Procs |-> Idle]
  /\ runs = 0

Recovery(c) ==
  \/ \E p \in Plans : RecoverOpen(c, p)
  \/ RecoverHistory(c) \/ RecoverReview(c) \/ RecoverApply(c) \/ RecoverAdopt(c)
  \/ RecoverTrades(c)
  \/ \E p \in Plans, n \in 1 .. Qty : RecoverRecord(c, p, n)
  \/ RecoverNext(c) \/ Recovered(c) \/ Pages(c)

Execution(c) ==
  \/ Create(c)
  \/ ExecuteGet(c) \/ ExecuteValidate(c) \/ ExecuteClaim(c)
  \/ PlaceFails(c) \/ PlaceSend(c) \/ PlaceAnswer(c)
  \/ ExecuteVerify(c) \/ ExecuteFinish(c)

Environment ==
  \/ \E p \in Plans : Expire(p) \/ VenueForeign(p)
  \/ \E n \in Natives : VenueDecide(n) \/ VenueFill(n) \/ VenueCancel(n) \/ VenueIndex(n)

Next ==
  \/ \E c \in Procs :
       \/ \E kind \in {"plan", "execute", "reconcile"}, p \in Plans \union {NoPlan} :
            Begin(c, kind, p)
       \/ Recovery(c) \/ Execution(c) \/ Abort(c)
  \/ Environment

Spec == Init /\ [][Next]_vars

-----------------------------------------------------------------------------
TypeOK ==
  /\ StateTypeOK
  /\ plans \in [Plans -> PlanRecords \union {NoPlan}]
  /\ old \subseteq Plans
  /\ venue \in [Natives -> VenueOrders]
  /\ sends \in [Plans -> Nat]
  /\ cmd \in [Procs -> Locals]
  /\ runs \in 0 .. MaxRuns

(* An order is sent at most once for a plan, however many processes execute*)
(* it, are killed and execute it again: Claim moves a plan out of Planned  *)
(* under the file lock, and nothing moves it back.                         *)
PlacedOnce == \A p \in Plans : sends[p] <= 1

(* The claim is on file before the order leaves, and no later write, of an *)
(* executor or of a recovery that read the file earlier, makes a plan that *)
(* was sent look executable again.                                         *)
WriteAhead ==
  \A p \in Plans :
    sends[p] > 0 => plans[p] # NoPlan /\ plans[p].status \notin {"Planned", "Expired"}

(* A plan on file as Rejected has no live order, now or later: only an     *)
(* RPC error, a FIX report of a rejection or a failure before anything was *)
(* sent is a rejection.                                                    *)
(* (Reconciliation never looks at a rejected plan again.)                  *)
RejectedIsTrue ==
  \A p \in Plans :
    plans[p] # NoPlan /\ plans[p].status = "Rejected"
      => venue[Own(p)].state \in {"none", "refused", "rejected"}

(* A plan on file as Submitted names an order that the venue has shown.    *)
SubmittedIsTrue ==
  \A p \in Plans :
    plans[p] # NoPlan /\ plans[p].status = "Submitted"
      => plans[p].native # NoID /\ Visible(plans[p].native)

(* What the order file says of a plan's order has happened: an order of    *)
(* that label exists, a final status is the venue's, and at least that many*)
(* lots are filled.  Views read earlier, or of an order that shares the    *)
(* label, must not add up to anything else.                                *)
FileHappened ==
  \A p \in Known :
    /\ \E n \in Natives :
         /\ n[1] = p /\ Visible(n)
         /\ \/ orders[p].status = "New"
            \/ <<orders[p].status, venue[n].state>> \in
                 {<<"Filled", "filled">>, <<"Cancelled", "cancelled">>, <<"Rejected", "rejected">>}
    /\ orders[p].cum <= venue[Own(p)].cum
    /\ \A n \in 1 .. Qty : <<p, n>> \in executions => n <= venue[Own(p)].cum
=============================================================================
