--------------------------- MODULE PlanFlowProofs ---------------------------
(***************************************************************************)
(* Planned orders: types, at most one submission, the write-ahead claim    *)
(* and the truth of what the intent file and the order file say, for any   *)
(* number of plans, processes, lots and commands.                          *)
(***************************************************************************)
EXTENDS PlanFlow, TLAPS

(* The steps of a process that owns the claim of its plan.                 *)
Holding == {"place", "await", "verify", "finish"}

ExecuteSteps == {"get", "validate", "claim"} \union Holding

CheckSteps == {"history", "review", "apply", "adopt", "trades", "record"}

Claimed(p) == plans[p] # NoPlan /\ plans[p].status \notin {"Planned", "Expired"}

Refused(p) == venue[Own(p)].state \in {"none", "refused", "rejected"}

(* A view is one the venue has shown, and has since at most moved on from. *)
ViewOK(n, v) ==
  v # NoID => /\ v.state \in RawStates /\ venue[n].state \in RawStates
              /\ v.cum <= venue[n].cum
              /\ v.state \in {"open", venue[n].state}

(* What a process relies on while it recovers ...                          *)
RecoveryOK(l) ==
  /\ \A n \in Natives : ViewOK(n, l.seen[n]) /\ (l.seen[n] # NoID => n[1] = l.cur)
  /\ \A p \in l.todo : l.listed[p] # NoPlan
  /\ l.at \in CheckSteps => l.cur \in Plans /\ l.listed[l.cur] # NoPlan
  /\ l.at = "apply" => l.id \in Natives /\ l.seen[l.id] # NoID
  /\ l.at \in {"adopt", "trades"} => l.id \in Natives /\ Visible(l.id) /\ l.id[1] = l.cur
  /\ \A f \in l.execs : f[2] <= venue[Own(f[1])].cum

(* ... and while it executes.                                              *)
ExecutionOK(l) ==
  /\ l.kind = "execute" => l.plan \in Plans
  /\ l.at \in ExecuteSteps => l.kind = "execute"
  /\ l.at \in Holding => Claimed(l.plan) /\ plans[l.plan].status # "Rejected"
  /\ l.at = "place" => sends[l.plan] = 0
  /\ l.at = "verify" => Visible(Own(l.plan))
  /\ l.at = "finish" =>
       /\ l.result.status \notin {"Planned", "Expired"}
       /\ l.result.status = "Rejected" => Refused(l.plan)
       /\ l.result.status = "Submitted" =>
            l.result.native = Own(l.plan) /\ Visible(Own(l.plan))

Fits(l) == l \in Locals /\ RecoveryOK(l) /\ ExecutionOK(l)

LocalsOK == \A c \in Procs : Fits(cmd[c])

(* A plan is claimed by one process at most.                               *)
Exclusive ==
  \A c, d \in Procs :
    cmd[c].at \in Holding /\ cmd[d].at \in Holding /\ cmd[c].plan = cmd[d].plan => c = d

SendsOK ==
  \A p \in Plans : /\ sends[p] \in {0, 1}
                   /\ sends[p] = 0 <=> venue[Own(p)].state = "none"
                   /\ sends[p] = 1 => Claimed(p)

StatusOK ==
  \A p \in Plans : plans[p] # NoPlan =>
    /\ plans[p].status = "Rejected" => Refused(p)
    /\ plans[p].status = "Submitted" => plans[p].native \in Natives /\ Visible(plans[p].native)

VenueOK ==
  \A p \in Plans : /\ venue[Own(p)].state = "open" => venue[Own(p)].cum < Qty
                   /\ venue[Own(p)].state \notin RawStates => venue[Own(p)].cum = 0
                   /\ venue[<<p, "foreign">>].cum = 0

PlanInv == TypeOK /\ LocalsOK /\ Exclusive /\ SendsOK /\ StatusOK /\ VenueOK

-----------------------------------------------------------------------------
(* The label of a native order is a plan.                                  *)
LEMMA NativesOfPlans ==
  /\ \A p \in Plans : Own(p) \in Natives /\ <<p, "foreign">> \in Natives /\ Own(p)[1] = p
  /\ \A n \in Natives : n[1] \in Plans /\ n \in {Own(n[1]), <<n[1], "foreign">>}
  /\ \A p, q \in Plans : Own(p) = Own(q) => p = q
  /\ \A p, q \in Plans : Own(p) # <<q, "foreign">>
  BY DEF Natives, Own

(* The locals of a process at rest have their type.                        *)
LEMMA IdleIsLocal == Idle \in Locals
  BY DEF Idle, Locals, Steps, Nothing, NoResult, PlanRecords, PlanStatuses

(* The order file after an update or a record.                             *)
LEMMA ApplyKeepsType ==
  ASSUME StateTypeOK, NEW p \in Orders, NEW u \in OrderUpdates, ApplyOrder(p, u)
  PROVE  StateTypeOK'
<1>1. Current(p) \in OrderRecords
  BY DEF StateTypeOK, Current, Known, OrderRecords, OrderStatuses
<1>2. mergeOrder(Current(p), u) \in OrderRecords
  BY <1>1 DEF mergeOrder, OrderRecords, OrderUpdates
<1> QED
  BY <1>2 DEF ApplyOrder, StateTypeOK

(* What a recovery makes of a venue view is an order update.               *)
LEMMA UpdateIsUpdate ==
  ASSUME NEW v \in VenueOrders
  PROVE  Update(v) \in OrderUpdates
  BY OrderStateAssumption DEF Update, normalizeStatus, VenueOrders, OrderUpdates, OrderStatuses

-----------------------------------------------------------------------------
(* Type correctness.                                                       *)

(* The initial state has the types.                                        *)
LEMMA InitType == Init => TypeOK
<1> SUFFICES ASSUME Init PROVE TypeOK
  OBVIOUS
<1>1. cmd \in [Procs -> Locals]
  BY IdleIsLocal DEF Init
<1>2. StateTypeOK
  BY DEF Init, StateInit, StateTypeOK
<1>3. venue \in [Natives -> VenueOrders]
  BY OrderStateAssumption DEF Init, VenueOrders
<1> QED
  BY <1>1, <1>2, <1>3, PlanFlowAssumption DEF Init, TypeOK

-----------------------------------------------------------------------------
(* A step of process c that changes its locals only (and, it may be, the   *)
(* order file): the new locals must fit, and no claim is gained.           *)
LEMMA LocalStep ==
  ASSUME PlanInv, NEW c \in Procs, NEW l, Become(c, l), Fits(l),
         l.at \in Holding => cmd[c].at \in Holding /\ l.plan = cmd[c].plan,
         StateTypeOK', UNCHANGED <<plans, old, venue, sends>>, runs' \in 0 .. MaxRuns
  PROVE  PlanInv'
<1>1. cmd \in [Procs -> Locals] /\ cmd' = [cmd EXCEPT ![c] = l] /\ l \in Locals
  BY DEF PlanInv, TypeOK, Become, Fits
<1>2. TypeOK'
  BY <1>1 DEF PlanInv, TypeOK
<1>3. cmd'[c] = l /\ \A d \in Procs : d # c => cmd'[d] = cmd[d]
  BY <1>1
<1>4. \A k : Fits(k)' <=> Fits(k)
  BY DEF Fits, RecoveryOK, ExecutionOK, ViewOK, Visible, Claimed, Refused
<1>5. LocalsOK'
  BY <1>3, <1>4 DEF PlanInv, LocalsOK
<1>6. Exclusive'
  BY <1>3 DEF PlanInv, Exclusive
<1>7. SendsOK' /\ StatusOK' /\ VenueOK'
  BY DEF PlanInv, SendsOK, StatusOK, VenueOK, Visible, Claimed, Refused
<1> QED
  BY <1>2, <1>5, <1>6, <1>7 DEF PlanInv

(* A process that does nothing fits.                                       *)
LEMMA IdleFits == Fits(Idle)
<1>1. \A n \in Natives : Idle.seen[n] = NoID
  BY DEF Idle, Nothing
<1> QED
  BY <1>1, IdleIsLocal DEF Fits, RecoveryOK, ExecutionOK, ViewOK, Idle, CheckSteps,
     ExecuteSteps, Holding

(* A change of step that asks for nothing new.                             *)
LEMMA GoFits ==
  ASSUME NEW l, Fits(l), NEW s \in {"pick", "create", "pages", "review", "get",
                                    "validate", "claim", "trades"},
         s \in {"get", "validate", "claim"} => l.kind = "execute",
         s = "review" => l.at \in CheckSteps,
         s = "trades" => l.at \in {"adopt"}
  PROVE  Fits([l EXCEPT !.at = s]) /\ [l EXCEPT !.at = s].at = s
<1> DEFINE k == [l EXCEPT !.at = s]
<1>1. l \in Locals
  BY DEF Fits
<1>2. k \in Locals
  BY <1>1 DEF Locals, Steps
<1>3. /\ k.at = s /\ k.kind = l.kind /\ k.plan = l.plan /\ k.listed = l.listed
      /\ k.todo = l.todo /\ k.cur = l.cur /\ k.seen = l.seen /\ k.id = l.id
      /\ k.execs = l.execs /\ k.result = l.result
  BY <1>1 DEF Locals
<1> HIDE DEF k
<1>4. RecoveryOK(k)
  BY <1>3 DEF Fits, RecoveryOK, CheckSteps
<1>5. ExecutionOK(k)
  BY <1>3 DEF Fits, ExecutionOK, ExecuteSteps, Holding
<1> QED
  BY <1>2, <1>3, <1>4, <1>5 DEF Fits, k

-----------------------------------------------------------------------------
(* The steps of a recovery.                                                *)

(* Starting a command: what is listed is on file.                          *)
LEMMA BeginKeeps ==
  ASSUME PlanInv, NEW c \in Procs, NEW kind \in {"plan", "execute", "reconcile"},
         NEW p \in Plans \union {NoPlan}, Begin(c, kind, p)
  PROVE  PlanInv'
<1> DEFINE k == [Idle EXCEPT !.at = "pick", !.kind = kind, !.plan = p,
                   !.listed = plans, !.todo = ToCheck(kind)]
<1>1. k \in Locals
  BY IdleIsLocal DEF PlanInv, TypeOK, Locals, Steps, ToCheck
<1>2. /\ k.at = "pick" /\ k.kind = kind /\ k.plan = p /\ k.listed = plans
      /\ k.todo = ToCheck(kind) /\ k.seen = Nothing /\ k.execs = {}
  BY DEF Idle
<1>3. Become(c, k)
  BY DEF Begin
<1> HIDE DEF k
<1>4. RecoveryOK(k)
  BY <1>2 DEF RecoveryOK, ViewOK, Nothing, CheckSteps, ToCheck
<1>5. ExecutionOK(k)
  BY <1>2, PlanFlowAssumption DEF ExecutionOK, ExecuteSteps, Holding, Begin
<1>6. Fits(k) /\ k.at \notin Holding
  BY <1>1, <1>2, <1>4, <1>5 DEF Fits, Holding
<1>7. StateTypeOK' /\ UNCHANGED <<plans, old, venue, sends>> /\ runs' \in 0 .. MaxRuns
  BY PlanFlowAssumption DEF Begin, PlanInv, TypeOK, StateTypeOK, stateVars
<1> QED
  BY <1>3, <1>6, <1>7, LocalStep

(* The steps that change locals and nothing else keep the other types.     *)
LEMMA RestKeeps ==
  ASSUME PlanInv, UNCHANGED <<stateVars, plans>>, CmdRest
  PROVE  /\ StateTypeOK' /\ UNCHANGED <<plans, old, venue, sends>>
         /\ runs' \in 0 .. MaxRuns
  BY DEF PlanInv, TypeOK, StateTypeOK, stateVars, CmdRest

(* The first read: views of open orders are visible ones.                  *)
LEMMA RecoverOpenKeeps ==
  ASSUME PlanInv, NEW c \in Procs, NEW p \in Plans, RecoverOpen(c, p)
  PROVE  PlanInv'
<1> DEFINE l == cmd[c]
           S == [n \in Natives |-> IF n \in OpenOrders /\ n[1] = p THEN venue[n] ELSE NoID]
           k == [l EXCEPT !.at = "history", !.cur = p, !.todo = @ \ {p}, !.id = NoID,
                   !.seen = S]
<1>1. Fits(l) /\ l \in Locals /\ venue \in [Natives -> VenueOrders]
  BY DEF PlanInv, LocalsOK, Fits, TypeOK
<1>2. S \in [Natives -> VenueOrders \union {NoID}]
  BY <1>1
<1> HIDE DEF S
<1>3. k \in Locals
  BY <1>1, <1>2 DEF Locals, Steps
<1>4. /\ k.at = "history" /\ k.kind = l.kind /\ k.plan = l.plan /\ k.listed = l.listed
      /\ k.todo = l.todo \ {p} /\ k.cur = p /\ k.seen = S /\ k.execs = l.execs
  BY <1>1 DEF Locals
<1>5. Become(c, k) /\ p \in l.todo
  BY DEF RecoverOpen, S
<1> HIDE DEF k
<1>6. \A n \in Natives : ViewOK(n, S[n]) /\ (S[n] # NoID => n[1] = p)
  BY <1>1 DEF S, ViewOK, OpenOrders, RawStates, VenueOrders
<1>7. RecoveryOK(k)
  BY <1>1, <1>4, <1>5, <1>6 DEF Fits, RecoveryOK, CheckSteps
<1>8. ExecutionOK(k)
  BY <1>1, <1>4 DEF Fits, ExecutionOK, ExecuteSteps, Holding
<1>9. Fits(k) /\ k.at \notin Holding
  BY <1>3, <1>4, <1>7, <1>8 DEF Fits, Holding
<1> QED
  BY <1>5, <1>9, RestKeeps, LocalStep DEF RecoverOpen

(* The second read, and the choice among the matches.                      *)
LEMMA RecoverHistoryKeeps ==
  ASSUME PlanInv, NEW c \in Procs, RecoverHistory(c)
  PROVE  PlanInv'
<1> DEFINE l     == cmd[c]
           S     == WithHistory(c)
           known == l.listed[l.cur].native
<1>0. Fits(l) /\ l \in Locals /\ l.at = "history" /\ venue \in [Natives -> VenueOrders]
  BY DEF PlanInv, LocalsOK, Fits, TypeOK, RecoverHistory
<1>1. /\ Fits(l) /\ l \in Locals /\ l.at = "history" /\ l.cur \in Plans
      /\ l.listed[l.cur] \in PlanRecords /\ venue \in [Natives -> VenueOrders]
  BY <1>0 DEF Fits, RecoveryOK, CheckSteps, Locals
<1>2. S \in [Natives -> VenueOrders \union {NoID}] /\ known \in Natives \union {NoID}
  BY <1>1 DEF WithHistory, Locals, PlanRecords
<1>3. \A n \in Natives : ViewOK(n, S[n]) /\ (S[n] # NoID => n[1] = l.cur)
  BY <1>1 DEF WithHistory, History, Fits, RecoveryOK, ViewOK, VenueOrders
<1> HIDE DEF S, known
<1>4. CASE Go(c, "pick") \/ Go(c, "review")
  <2>1. PICK s \in {"pick", "review"} : Become(c, [l EXCEPT !.at = s])
    BY <1>4 DEF Go
  <2>2. Fits([l EXCEPT !.at = s]) /\ [l EXCEPT !.at = s].at \notin Holding
    BY <1>1, <2>1, GoFits DEF CheckSteps, Holding
  <2> QED
    BY <2>1, <2>2, RestKeeps, LocalStep DEF RecoverHistory
<1>5. CASE Become(c, [l EXCEPT !.at = "review", !.id = known])
  <2> DEFINE k == [l EXCEPT !.at = "review", !.id = known]
  <2>1. k \in Locals
    BY <1>1, <1>2 DEF Locals, Steps
  <2>2. /\ k.at = "review" /\ k.kind = l.kind /\ k.plan = l.plan /\ k.listed = l.listed
        /\ k.todo = l.todo /\ k.cur = l.cur /\ k.seen = l.seen /\ k.execs = l.execs
    BY <1>1 DEF Locals
  <2> HIDE DEF k
  <2>3. RecoveryOK(k) /\ ExecutionOK(k)
    BY <1>1, <2>2 DEF Fits, RecoveryOK, ExecutionOK, CheckSteps, ExecuteSteps, Holding
  <2>4. Fits(k) /\ k.at \notin Holding
    BY <2>1, <2>2, <2>3 DEF Fits, Holding
  <2>5. Become(c, k)
    BY <1>5 DEF k
  <2> QED
    BY <2>4, <2>5, RestKeeps, LocalStep DEF RecoverHistory
<1>6. ASSUME NEW n \in Natives, S[n] # NoID,
             Become(c, [l EXCEPT !.at = "apply", !.id = n, !.seen = S])
      PROVE  PlanInv'
  <2> DEFINE k == [l EXCEPT !.at = "apply", !.id = n, !.seen = S]
  <2>1. k \in Locals
    BY <1>1, <1>2 DEF Locals, Steps
  <2>2. /\ k.at = "apply" /\ k.kind = l.kind /\ k.plan = l.plan /\ k.listed = l.listed
        /\ k.todo = l.todo /\ k.cur = l.cur /\ k.seen = S /\ k.id = n /\ k.execs = l.execs
    BY <1>1 DEF Locals
  <2> HIDE DEF k
  <2>3. RecoveryOK(k) /\ ExecutionOK(k)
    BY <1>1, <1>3, <1>6, <2>2
       DEF Fits, RecoveryOK, ExecutionOK, CheckSteps, ExecuteSteps, Holding
  <2>4. Fits(k) /\ k.at \notin Holding
    BY <2>1, <2>2, <2>3 DEF Fits, Holding
  <2>5. Become(c, k)
    BY <1>6 DEF k
  <2> QED
    BY <2>4, <2>5, RestKeeps, LocalStep DEF RecoverHistory
<1> QED
  BY <1>4, <1>5, <1>6 DEF RecoverHistory, S, known

(* A recovery's write of a plan: never Planned, Expired or Rejected.       *)
LEMMA RecoveryWrite ==
  ASSUME PlanInv, NEW c \in Procs, NEW l, Become(c, l), Fits(l), l.at \notin Holding,
         NEW p \in Plans, NEW r \in PlanRecords, Finish(p, r),
         r.status \in {"NeedsReview", "Submitted"},
         r.status = "Submitted" => r.native \in Natives /\ Visible(r.native),
         UNCHANGED stateVars, CmdRest
  PROVE  PlanInv'
<1>1. cmd \in [Procs -> Locals] /\ cmd' = [cmd EXCEPT ![c] = l] /\ l \in Locals
  BY DEF PlanInv, TypeOK, Become, Fits
<1>2. /\ plans \in [Plans -> PlanRecords \union {NoPlan}] /\ plans[p] # NoPlan
      /\ plans' = [plans EXCEPT ![p] = r] /\ r # NoPlan
  BY PlanFlowAssumption DEF PlanInv, TypeOK, Finish
<1>3. UNCHANGED <<orders, executions, old, venue, sends, runs>>
  BY DEF CmdRest, stateVars
<1>4. TypeOK'
  BY <1>1, <1>2, <1>3 DEF PlanInv, TypeOK, StateTypeOK
<1>5. cmd'[c] = l /\ \A d \in Procs : d # c => cmd'[d] = cmd[d]
  BY <1>1
<1>6. plans'[p] = r /\ \A q \in Plans : q # p => plans'[q] = plans[q]
  BY <1>2
<1>7. ASSUME NEW k, Fits(k) PROVE Fits(k)'
  <2>1. RecoveryOK(k)'
    BY <1>3, <1>7 DEF Fits, RecoveryOK, ViewOK, Visible
  <2>2. k.at \in Holding => k.plan \in Plans
    BY <1>7 DEF Fits, ExecutionOK, ExecuteSteps
  <2>3. ExecutionOK(k)'
    BY <1>2, <1>3, <1>6, <1>7, <2>2 DEF Fits, ExecutionOK, Claimed, Refused, Visible
  <2> QED
    BY <1>7, <2>1, <2>3 DEF Fits
<1>8. LocalsOK'
  BY <1>5, <1>7 DEF PlanInv, LocalsOK
<1>9. Exclusive'
  BY <1>5 DEF PlanInv, Exclusive
<1>10. SendsOK' /\ VenueOK'
  BY <1>2, <1>3, <1>6 DEF PlanInv, SendsOK, VenueOK, Claimed
<1>11. StatusOK'
  BY <1>2, <1>3, <1>6 DEF PlanInv, StatusOK, Refused, Visible
<1> QED
  BY <1>4, <1>8, <1>9, <1>10, <1>11 DEF PlanInv

(* Submitted is written with the order that was seen.                      *)
LEMMA RecoverAdoptKeeps ==
  ASSUME PlanInv, NEW c \in Procs, RecoverAdopt(c)
  PROVE  PlanInv'
<1> DEFINE l == cmd[c]
           k == [l EXCEPT !.at = "trades"]
           r == [status |-> "Submitted", native |-> l.id]
<1>1. Fits(l) /\ l \in Locals /\ l.at = "adopt"
  BY DEF PlanInv, LocalsOK, Fits, RecoverAdopt
<1>2. l.cur \in Plans /\ l.id \in Natives /\ Visible(l.id)
  BY <1>1 DEF Fits, RecoveryOK, CheckSteps
<1>3. r \in PlanRecords /\ r.native = l.id
  BY <1>2 DEF PlanRecords, PlanStatuses
<1>4. Fits(k) /\ k.at \notin Holding
  BY <1>1, GoFits DEF Holding
<1>5. Become(c, k) /\ Finish(l.cur, r) /\ r.status = "Submitted"
  BY DEF RecoverAdopt, Go
<1> HIDE DEF k, r
<1> QED
  BY <1>2, <1>3, <1>4, <1>5, RecoveryWrite DEF RecoverAdopt

(* The order file follows the view, or the command ends.                   *)
LEMMA RecoverApplyKeeps ==
  ASSUME PlanInv, NEW c \in Procs, RecoverApply(c)
  PROVE  PlanInv'
<1> DEFINE l == cmd[c]
           v == l.seen[l.id]
           s == IF l.listed[l.cur].status \in Uncertain THEN "adopt" ELSE "trades"
           k == [l EXCEPT !.at = s]
<1>1. Fits(l) /\ l \in Locals /\ l.at = "apply" /\ StateTypeOK
  BY DEF PlanInv, TypeOK, LocalsOK, Fits, RecoverApply
<1>2. l.cur \in Plans /\ l.id \in Natives /\ v # NoID
  BY <1>1 DEF Fits, RecoveryOK, CheckSteps
<1>3. v \in VenueOrders /\ Visible(l.id) /\ l.id[1] = l.cur
  BY <1>1, <1>2 DEF Fits, RecoveryOK, ViewOK, Visible, Locals
<1>4. UNCHANGED <<plans, old, venue, sends>> /\ runs' \in 0 .. MaxRuns
  BY DEF RecoverApply, CmdRest, PlanInv, TypeOK
<1>5. CASE ApplyOrder(l.cur, Update(v)) /\ Go(c, s)
  <2>1. StateTypeOK'
    BY <1>1, <1>2, <1>3, <1>5, UpdateIsUpdate, ApplyKeepsType DEF Plans
  <2>2. k \in Locals
    BY <1>1 DEF Locals, Steps
  <2>3. /\ k.at \in {"adopt", "trades"} /\ k.kind = l.kind /\ k.plan = l.plan
        /\ k.listed = l.listed /\ k.todo = l.todo /\ k.cur = l.cur /\ k.seen = l.seen
        /\ k.id = l.id /\ k.execs = l.execs
    BY <1>1 DEF Locals
  <2>4. Become(c, k)
    BY <1>5 DEF Go
  <2> HIDE DEF k, s
  <2>5. RecoveryOK(k) /\ ExecutionOK(k)
    BY <1>1, <1>2, <1>3, <2>3
       DEF Fits, RecoveryOK, ExecutionOK, CheckSteps, ExecuteSteps, Holding
  <2>6. Fits(k) /\ k.at \notin Holding
    BY <2>2, <2>3, <2>5 DEF Fits, Holding
  <2> QED
    BY <1>4, <2>1, <2>4, <2>6, LocalStep
<1>6. CASE End(c) /\ UNCHANGED stateVars
  <2>1. StateTypeOK' /\ Become(c, Idle) /\ Idle.at \notin Holding
    BY <1>1, <1>6 DEF StateTypeOK, stateVars, End, Idle, Holding
  <2> QED
    BY <1>4, <2>1, IdleFits, LocalStep
<1> QED
  BY <1>5, <1>6 DEF RecoverApply

(* The trades read are fills of the plan's order.                          *)
LEMMA RecoverTradesKeeps ==
  ASSUME PlanInv, NEW c \in Procs, RecoverTrades(c)
  PROVE  PlanInv'
<1> DEFINE l == cmd[c]
           X == {l.cur} \X (1 .. venue[l.id].cum)
           k == [l EXCEPT !.at = "record", !.execs = X]
<1>1. Fits(l) /\ l \in Locals /\ l.at = "trades" /\ venue \in [Natives -> VenueOrders]
  BY DEF PlanInv, TypeOK, LocalsOK, Fits, RecoverTrades
<1>2. l.cur \in Plans /\ l.id \in Natives /\ l.id[1] = l.cur /\ l.listed[l.cur] # NoPlan
  BY <1>1 DEF Fits, RecoveryOK, CheckSteps
<1>3. l.id \in {Own(l.cur), <<l.cur, "foreign">>} /\ venue[l.id].cum \in 0 .. Qty
  BY <1>1, <1>2, NativesOfPlans DEF VenueOrders
<1>4. \A f \in X : f \in Fills /\ f[2] <= venue[Own(f[1])].cum
  <2>1. CASE l.id = Own(l.cur)
    BY <1>2, <1>3, <2>1, OrderStateAssumption DEF Fills, Plans
  <2>2. CASE l.id = <<l.cur, "foreign">>
    <3>1. venue[l.id].cum = 0
      BY <1>2, <2>2 DEF PlanInv, VenueOK
    <3>2. X = {}
      BY <3>1
    <3> QED
      BY <3>2
  <2> QED
    BY <1>3, <2>1, <2>2
<1> HIDE DEF X
<1>5. k \in Locals
  BY <1>1, <1>4 DEF Locals, Steps
<1>6. /\ k.at = "record" /\ k.kind = l.kind /\ k.plan = l.plan /\ k.listed = l.listed
      /\ k.todo = l.todo /\ k.cur = l.cur /\ k.seen = l.seen /\ k.execs = X
  BY <1>1 DEF Locals
<1>7. Become(c, k)
  BY DEF RecoverTrades, X
<1> HIDE DEF k
<1>8. RecoveryOK(k) /\ ExecutionOK(k)
  BY <1>1, <1>2, <1>4, <1>6 DEF Fits, RecoveryOK, ExecutionOK, CheckSteps, ExecuteSteps, Holding
<1>9. Fits(k) /\ k.at \notin Holding
  BY <1>5, <1>6, <1>8 DEF Fits, Holding
<1> QED
  BY <1>7, <1>9, RestKeeps, LocalStep DEF RecoverTrades

(* A recorded trade is a fill.                                             *)
LEMMA RecoverRecordKeeps ==
  ASSUME PlanInv, NEW c \in Procs, NEW p \in Plans, NEW n \in 1 .. Qty,
         RecoverRecord(c, p, n)
  PROVE  PlanInv'
<1> DEFINE l == cmd[c]
           k == [l EXCEPT !.execs = @ \ {<<p, n>>}]
<1>1. Fits(l) /\ l \in Locals /\ l.at = "record"
  BY DEF PlanInv, LocalsOK, Fits, RecoverRecord
<1>2. k \in Locals
  BY <1>1 DEF Locals
<1>3. /\ k.at = "record" /\ k.kind = l.kind /\ k.plan = l.plan /\ k.listed = l.listed
      /\ k.todo = l.todo /\ k.cur = l.cur /\ k.seen = l.seen /\ k.execs \subseteq l.execs
  BY <1>1 DEF Locals
<1>4. Become(c, k)
  BY DEF RecoverRecord
<1> HIDE DEF k
<1>5. RecoveryOK(k) /\ ExecutionOK(k)
  BY <1>1, <1>3 DEF Fits, RecoveryOK, ExecutionOK, CheckSteps, ExecuteSteps, Holding
<1>6. Fits(k) /\ k.at \notin Holding
  BY <1>2, <1>3, <1>5 DEF Fits, Holding
<1>7. StateTypeOK'
  BY DEF PlanInv, TypeOK, RecoverRecord, RecordExecution, StateTypeOK, Fills, Plans
<1>8. UNCHANGED <<plans, old, venue, sends>> /\ runs' \in 0 .. MaxRuns
  BY DEF RecoverRecord, CmdRest, PlanInv, TypeOK
<1> QED
  BY <1>4, <1>6, <1>7, <1>8, LocalStep

(* The end of a command.                                                   *)
LEMMA EndKeeps ==
  ASSUME PlanInv, NEW c \in Procs, End(c), UNCHANGED <<stateVars, plans>>, CmdRest
  PROVE  PlanInv'
<1>1. Become(c, Idle) /\ Idle.at \notin Holding
  BY DEF End, Idle, Holding
<1> QED
  BY <1>1, IdleFits, RestKeeps, LocalStep

(* A step to a place that asks for nothing new.                            *)
LEMMA GoKeeps ==
  ASSUME PlanInv, NEW c \in Procs, NEW s \in {"pick", "create", "pages", "get",
                                              "validate", "claim"},
         s \in {"get", "validate", "claim"} => cmd[c].kind = "execute",
         Go(c, s), UNCHANGED <<stateVars, plans>>, CmdRest
  PROVE  PlanInv'
<1> DEFINE k == [cmd[c] EXCEPT !.at = s]
<1>1. Fits(cmd[c])
  BY DEF PlanInv, LocalsOK
<1>0. /\ s \in {"pick", "create", "pages", "review", "get", "validate", "claim", "trades"}
      /\ s # "review" /\ s # "trades"
  OBVIOUS
<1>2. Fits(k) /\ k.at = s
  BY <1>0, <1>1, GoFits
<1>3. Become(c, k)
  BY DEF Go
<1> HIDE DEF k
<1>4. k.at \notin Holding
  BY <1>2 DEF Holding
<1> QED
  BY <1>2, <1>3, <1>4, RestKeeps, LocalStep

(* NeedsReview is written, or the failure to write it is ignored.          *)
LEMMA RecoverReviewKeeps ==
  ASSUME PlanInv, NEW c \in Procs, RecoverReview(c)
  PROVE  PlanInv'
<1> DEFINE l == cmd[c]
           k == [l EXCEPT !.at = "pick"]
           r == [status |-> "NeedsReview", native |-> l.id]
<1>1. Fits(l) /\ l \in Locals /\ l.at = "review"
  BY DEF PlanInv, LocalsOK, Fits, RecoverReview
<1>2. l.cur \in Plans /\ r \in PlanRecords
  BY <1>1 DEF Fits, RecoveryOK, CheckSteps, Locals, PlanRecords, PlanStatuses
<1>3. Fits(k) /\ k.at \notin Holding
  BY <1>1, GoFits DEF Holding
<1>4. /\ Become(c, k) /\ r.status = "NeedsReview"
      /\ UNCHANGED stateVars /\ CmdRest
      /\ UNCHANGED plans \/ Finish(l.cur, r)
  BY DEF RecoverReview, Go
<1>5. CASE UNCHANGED plans
  BY <1>3, <1>4, <1>5, RestKeeps, LocalStep
<1>6. CASE Finish(l.cur, r)
  <2> HIDE DEF k, r
  <2> QED
    BY <1>2, <1>3, <1>4, <1>6, RecoveryWrite
<1> QED
  BY <1>4, <1>5, <1>6

(* The end of the checks of a command.                                     *)
LEMMA RecoveredKeeps ==
  ASSUME PlanInv, NEW c \in Procs, RecoverNext(c) \/ Recovered(c)
  PROVE  PlanInv'
<1>1. CASE RecoverNext(c)
  BY <1>1, GoKeeps DEF RecoverNext
<1>2. CASE Recovered(c)
  <2>1. cmd[c].kind \in {"plan", "execute", "reconcile"}
    BY DEF PlanInv, TypeOK, Locals
  <2>2. PICK s \in {"create", "get", "pages"} :
          Go(c, s) /\ (s = "get" => cmd[c].kind = "execute")
    BY <1>2, <2>1 DEF Recovered
  <2> QED
    BY <1>2, <2>2, GoKeeps DEF Recovered
<1> QED
  BY <1>1, <1>2

(* The pages record fills and end the command.                             *)
LEMMA PagesKeeps ==
  ASSUME PlanInv, NEW c \in Procs, Pages(c)
  PROVE  PlanInv'
<1>1. Become(c, Idle) /\ Idle.at \notin Holding
  BY DEF Pages, End, Idle, Holding
<1>2. StateTypeOK'
  BY DEF Pages, PlanInv, TypeOK, StateTypeOK
<1>3. UNCHANGED <<plans, old, venue, sends>> /\ runs' \in 0 .. MaxRuns
  BY DEF Pages, CmdRest, PlanInv, TypeOK
<1> QED
  BY <1>1, <1>2, <1>3, IdleFits, LocalStep

(* Every step of a recovery keeps the invariant.                           *)
LEMMA RecoveryKeeps ==
  ASSUME PlanInv, NEW c \in Procs, Recovery(c)
  PROVE  PlanInv'
  BY RecoverOpenKeeps, RecoverHistoryKeeps, RecoverReviewKeeps, RecoverApplyKeeps,
     RecoverAdoptKeeps, RecoverTradesKeeps, RecoverRecordKeeps, RecoveredKeeps, PagesKeeps
     DEF Recovery

-----------------------------------------------------------------------------
(* The steps of Create and Execute.                                        *)

(* A new plan has no order at the venue.                                   *)
LEMMA CreateKeeps ==
  ASSUME PlanInv, NEW c \in Procs, Create(c)
  PROVE  PlanInv'
<1>1. PICK p \in Plans : SavePlan(p)
  BY DEF Create
<1> DEFINE r == [status |-> "Planned", native |-> NoID]
<1>2. r \in PlanRecords /\ r.status = "Planned"
  BY DEF PlanRecords, PlanStatuses
<1>3. plans' = [plans EXCEPT ![p] = r] /\ plans[p] = NoPlan
  BY <1>1 DEF SavePlan
<1> HIDE DEF r
<1>4. cmd \in [Procs -> Locals] /\ cmd' = [cmd EXCEPT ![c] = Idle]
      /\ plans \in [Plans -> PlanRecords \union {NoPlan}]
  BY DEF PlanInv, TypeOK, Create, End, Become
<1>5. UNCHANGED <<orders, executions, old, venue, sends, runs>>
  BY DEF Create, CmdRest, stateVars
<1>6. TypeOK'
  BY <1>2, <1>3, <1>4, <1>5, IdleIsLocal DEF PlanInv, TypeOK, StateTypeOK
<1>7. cmd'[c] = Idle /\ \A d \in Procs : d # c => cmd'[d] = cmd[d]
  BY <1>4
<1>8. plans'[p] = r /\ \A q \in Plans : q # p => plans'[q] = plans[q]
  BY <1>3, <1>4
<1>9. \A q \in Plans : Claimed(q) => plans'[q] = plans[q]
  BY <1>3, <1>8 DEF Claimed
<1>10. ASSUME NEW k, Fits(k) PROVE Fits(k)'
  <2>1. RecoveryOK(k)'
    BY <1>5, <1>10 DEF Fits, RecoveryOK, ViewOK, Visible
  <2>2. k.at \in Holding => k.plan \in Plans /\ Claimed(k.plan)
    BY <1>10 DEF Fits, ExecutionOK, ExecuteSteps
  <2>3. ExecutionOK(k)'
    BY <1>5, <1>9, <1>10, <2>2 DEF Fits, ExecutionOK, Claimed, Refused, Visible
  <2> QED
    BY <1>10, <2>1, <2>3 DEF Fits
<1>11. LocalsOK'
  BY <1>7, <1>10, IdleFits DEF PlanInv, LocalsOK
<1>12. Exclusive'
  BY <1>7 DEF PlanInv, Exclusive, Idle, Holding
<1>13. SendsOK' /\ VenueOK'
  BY <1>5, <1>9 DEF PlanInv, SendsOK, VenueOK, Claimed
<1>14. StatusOK'
  BY <1>2, <1>5, <1>8 DEF PlanInv, StatusOK, Refused, Visible
<1> QED
  BY <1>6, <1>11, <1>12, <1>13, <1>14 DEF PlanInv

(* Reading and validating a plan takes no claim.                           *)
LEMMA GetKeeps ==
  ASSUME PlanInv, NEW c \in Procs, ExecuteGet(c) \/ ExecuteValidate(c)
  PROVE  PlanInv'
<1>1. cmd[c].kind = "execute"
  BY DEF PlanInv, LocalsOK, Fits, ExecutionOK, ExecuteSteps, ExecuteGet, ExecuteValidate
<1>2. UNCHANGED <<stateVars, plans>> /\ CmdRest
  BY DEF ExecuteGet, ExecuteValidate
<1>3. End(c) \/ \E s \in {"claim", "validate"} : Go(c, s)
  BY DEF ExecuteGet, ExecuteValidate
<1> QED
  BY <1>1, <1>2, <1>3, EndKeeps, GoKeeps

(* Claim: the plan leaves Planned, the claimer is its only one.            *)
LEMMA ClaimKeeps ==
  ASSUME PlanInv, NEW c \in Procs, ExecuteClaim(c)
  PROVE  PlanInv'
<1> DEFINE l == cmd[c]
           p == l.plan
           r == [plans[p] EXCEPT !.status = ClaimStatus(p)]
<1>1. Fits(l) /\ l \in Locals /\ l.at = "claim" /\ l.kind = "execute" /\ p \in Plans
  BY DEF PlanInv, LocalsOK, Fits, ExecuteClaim, ExecutionOK, ExecuteSteps
<1>2. CASE ~Claimable(p)
  BY <1>2, EndKeeps DEF ExecuteClaim
<1>3. CASE Claimable(p)
  <2>0. PICK k : k = IF p \in old THEN Idle ELSE [l EXCEPT !.at = "place"]
    OBVIOUS
  <2>1. /\ plans \in [Plans -> PlanRecords \union {NoPlan}] /\ plans[p] \in PlanRecords
        /\ plans[p].status = "Planned" /\ plans' = [plans EXCEPT ![p] = r]
        /\ cmd \in [Procs -> Locals] /\ cmd' = [cmd EXCEPT ![c] = k]
    BY <1>1, <1>3, <2>0 DEF PlanInv, TypeOK, Claimable, ExecuteClaim, End, Go, Become
  <2>2. r \in PlanRecords /\ r.status = ClaimStatus(p)
    BY <2>1 DEF PlanRecords, PlanStatuses, ClaimStatus
  <2>3. k \in Locals
    BY <1>1, <2>0, IdleIsLocal DEF Locals, Steps
  <2>4. UNCHANGED <<orders, executions, old, venue, sends, runs>>
    BY DEF ExecuteClaim, CmdRest, stateVars
  <2>5. /\ k = Idle \/ (/\ k.at = "place" /\ k.kind = l.kind /\ k.plan = p
                        /\ k.listed = l.listed /\ k.todo = l.todo /\ k.cur = l.cur
                        /\ k.seen = l.seen /\ k.execs = l.execs /\ p \notin old)
    BY <1>1, <2>0 DEF Locals
  <2> HIDE DEF r
  <2>6. TypeOK'
    BY <2>1, <2>2, <2>3, <2>4 DEF PlanInv, TypeOK, StateTypeOK
  <2>7. cmd'[c] = k /\ \A d \in Procs : d # c => cmd'[d] = cmd[d]
    BY <2>1
  <2>8. plans'[p] = r /\ \A q \in Plans : q # p => plans'[q] = plans[q]
    BY <1>1, <2>1
  <2>9. \A q \in Plans : Claimed(q) => q # p
    BY <2>1 DEF Claimed
  <2>10. sends[p] = 0
    BY <1>1, <2>9 DEF PlanInv, SendsOK
  <2>11. ASSUME NEW m, Fits(m) PROVE Fits(m)'
    <3>1. RecoveryOK(m)'
      BY <2>4, <2>11 DEF Fits, RecoveryOK, ViewOK, Visible
    <3>2. m.at \in Holding => m.plan \in Plans /\ Claimed(m.plan)
      BY <2>11 DEF Fits, ExecutionOK, ExecuteSteps
    <3>3. ExecutionOK(m)'
      BY <2>4, <2>8, <2>9, <2>11, <3>2 DEF Fits, ExecutionOK, Claimed, Refused, Visible
    <3> QED
      BY <2>11, <3>1, <3>3 DEF Fits
  <2>12. Fits(k)'
    <3>1. CASE k = Idle
      BY <3>1, <2>11, IdleFits
    <3>2. CASE k # Idle
      <4>1. RecoveryOK(k)'
        BY <1>1, <2>4, <2>5, <3>2 DEF Fits, RecoveryOK, ViewOK, Visible, CheckSteps
      <4>2. r.status = "Executing" /\ r # NoPlan
        BY <2>2, <2>5, <3>2, PlanFlowAssumption DEF ClaimStatus
      <4>3. ExecutionOK(k)'
        BY <1>1, <2>4, <2>5, <2>8, <2>10, <3>2, <4>2
           DEF ExecutionOK, ExecuteSteps, Holding, Claimed
      <4> QED
        BY <2>3, <4>1, <4>3 DEF Fits
    <3> QED
      BY <3>1, <3>2
  <2>13. LocalsOK'
    BY <2>7, <2>11, <2>12 DEF PlanInv, LocalsOK
  <2>14. \A d \in Procs : cmd[d].at \in Holding => cmd[d].plan # p
    BY <2>9 DEF PlanInv, LocalsOK, Fits, ExecutionOK, ExecuteSteps
  <2>15. k.at \in Holding => k.plan = p
    BY <2>5 DEF Idle, Holding
  <2>16. Exclusive'
    BY <2>7, <2>14, <2>15 DEF PlanInv, Exclusive
  <2>17. SendsOK' /\ VenueOK'
    BY <2>4, <2>8, <2>9, <2>10 DEF PlanInv, SendsOK, VenueOK, Claimed
  <2>18. StatusOK'
    BY <2>2, <2>4, <2>8 DEF PlanInv, StatusOK, Refused, Visible, ClaimStatus
  <2> QED
    BY <2>6, <2>13, <2>16, <2>17, <2>18 DEF PlanInv
<1> QED
  BY <1>2, <1>3

(* What a process that holds a claim concludes.                            *)
LEMMA ConcludeKeeps ==
  ASSUME PlanInv, NEW c \in Procs, cmd[c].at \in Holding, NEW r \in PlanRecords,
         r.status \notin {"Planned", "Expired"},
         r.status = "Rejected" => Refused(cmd[c].plan),
         r.status = "Submitted" => /\ r.native = Own(cmd[c].plan)
                                   /\ Visible(Own(cmd[c].plan)),
         Conclude(c, r), UNCHANGED <<stateVars, plans>>, CmdRest
  PROVE  PlanInv'
<1> DEFINE l == cmd[c]
           k == [l EXCEPT !.at = "finish", !.result = r]
<1>1. Fits(l) /\ l \in Locals
  BY DEF PlanInv, LocalsOK, Fits
<1>2. k \in Locals
  BY <1>1 DEF Locals, Steps
<1>3. /\ k.at = "finish" /\ k.result = r /\ k.kind = l.kind /\ k.plan = l.plan
      /\ k.listed = l.listed /\ k.todo = l.todo /\ k.cur = l.cur /\ k.seen = l.seen
      /\ k.execs = l.execs
  BY <1>1 DEF Locals
<1>4. Become(c, k)
  BY DEF Conclude
<1> HIDE DEF k
<1>5. RecoveryOK(k)
  BY <1>1, <1>3 DEF Fits, RecoveryOK, CheckSteps
<1>6. ExecutionOK(k)
  BY <1>1, <1>3 DEF Fits, ExecutionOK, ExecuteSteps, Holding
<1>7. Fits(k) /\ k.at \in Holding /\ k.plan = l.plan
  BY <1>2, <1>3, <1>5, <1>6 DEF Fits, Holding
<1> QED
  BY <1>4, <1>7, RestKeeps, LocalStep

(* A failure before the send is a true rejection.                          *)
LEMMA PlaceFailsKeeps ==
  ASSUME PlanInv, NEW c \in Procs, PlaceFails(c)
  PROVE  PlanInv'
<1>1. cmd[c].at = "place" /\ cmd[c].at \in Holding
  BY DEF PlaceFails, Holding
<1>2. cmd[c].plan \in Plans /\ sends[cmd[c].plan] = 0
  BY <1>1 DEF PlanInv, LocalsOK, Fits, ExecutionOK, ExecuteSteps
<1>3. Refused(cmd[c].plan)
  BY <1>2 DEF PlanInv, SendsOK, Refused
<1>4. Outcome("refused") \in PlanRecords /\ Outcome("refused").status = "Rejected"
  BY DEF Outcome, PlanRecords, PlanStatuses
<1> QED
  BY <1>1, <1>3, <1>4, ConcludeKeeps DEF PlaceFails

(* Only a refusal by the venue is concluded a rejection.                   *)
LEMMA PlaceAnswerKeeps ==
  ASSUME PlanInv, NEW c \in Procs, PlaceAnswer(c)
  PROVE  PlanInv'
<1> DEFINE l == cmd[c]
           n == Own(l.plan)
           k == [l EXCEPT !.at = "verify"]
<1>1. l.at = "await" /\ l.at \in Holding /\ Fits(l) /\ l \in Locals
  BY DEF PlaceAnswer, Holding, PlanInv, LocalsOK, Fits
<1>2. /\ UNCHANGED <<stateVars, plans>> /\ CmdRest
      /\ \A a : Outcome(a) \in PlanRecords
      /\ \A a : a # "refused" => Outcome(a).status = "OutcomeUnknown"
      /\ Outcome("refused").status = "Rejected"
  BY DEF PlaceAnswer, Outcome, PlanRecords, PlanStatuses
<1>3. CASE Visible(n) /\ Go(c, "verify")
  <2>1. k \in Locals
    BY <1>1 DEF Locals, Steps
  <2>2. /\ k.at = "verify" /\ k.kind = l.kind /\ k.plan = l.plan
        /\ k.listed = l.listed /\ k.todo = l.todo /\ k.cur = l.cur /\ k.seen = l.seen
        /\ k.execs = l.execs
    BY <1>1 DEF Locals
  <2>3. Become(c, k)
    BY <1>3 DEF Go
  <2> HIDE DEF k
  <2>4. RecoveryOK(k) /\ ExecutionOK(k)
    BY <1>1, <1>3, <2>2 DEF Fits, RecoveryOK, ExecutionOK, CheckSteps, ExecuteSteps, Holding
  <2>5. Fits(k) /\ k.plan = l.plan
    BY <2>1, <2>2, <2>4 DEF Fits
  <2> QED
    BY <1>1, <1>2, <2>3, <2>5, RestKeeps, LocalStep
<1>4. CASE Conclude(c, Outcome("missing")) \/ Conclude(c, Outcome("timeout"))
  <2>1. Outcome("missing").status = "OutcomeUnknown" /\ Outcome("timeout").status = "OutcomeUnknown"
    BY DEF Outcome
  <2> QED
    BY <1>1, <1>2, <1>4, <2>1, ConcludeKeeps
<1>5. CASE venue[n].state \in {"refused", "rejected"} /\ Conclude(c, Outcome("refused"))
  BY <1>1, <1>2, <1>5, ConcludeKeeps DEF Refused
<1> QED
  BY <1>3, <1>4, <1>5 DEF PlaceAnswer

(* An acknowledged order is one the venue shows.                           *)
LEMMA VerifyKeeps ==
  ASSUME PlanInv, NEW c \in Procs, ExecuteVerify(c)
  PROVE  PlanInv'
<1> DEFINE n == Own(cmd[c].plan)
           r == [status |-> "NeedsReview", native |-> n]
<1>1. cmd[c].at = "verify" /\ cmd[c].at \in Holding
  BY DEF ExecuteVerify, Holding
<1>2. cmd[c].plan \in Plans /\ Visible(n)
  BY <1>1 DEF PlanInv, LocalsOK, Fits, ExecutionOK, ExecuteSteps
<1>3. n \in Natives
  BY <1>2, NativesOfPlans
<1>4. /\ Verified(n) \in PlanRecords /\ Verified(n).status = "Submitted"
      /\ Verified(n).native = n /\ r \in PlanRecords /\ r.status = "NeedsReview"
  BY <1>3 DEF Verified, PlanRecords, PlanStatuses
<1>5. Conclude(c, Verified(n)) \/ Conclude(c, r)
  BY DEF ExecuteVerify
<1> HIDE DEF n, r
<1> QED
  BY <1>1, <1>2, <1>4, <1>5, ConcludeKeeps DEF ExecuteVerify, n

(* The send: the claim makes c the only process at work on the plan.       *)
LEMMA PlaceSendKeeps ==
  ASSUME PlanInv, NEW c \in Procs, PlaceSend(c)
  PROVE  PlanInv'
<1> DEFINE l == cmd[c]
           p == l.plan
<1>1. Fits(l) /\ l \in Locals /\ l.at = "place" /\ l.at \in Holding
  BY DEF PlanInv, LocalsOK, Fits, PlaceSend, Holding
<1>2. /\ l.kind = "execute" /\ p \in Plans /\ sends[p] = 0 /\ Claimed(p)
      /\ plans[p].status # "Rejected"
  BY <1>1 DEF Fits, ExecutionOK, ExecuteSteps
<1>3. venue[Own(p)].state = "none" /\ Own(p) \in Natives
  BY <1>2, NativesOfPlans DEF PlanInv, SendsOK
<1>4. PICK k : k = [l EXCEPT !.at = "await"]
  OBVIOUS
<1>5. k \in Locals
  BY <1>1, <1>4 DEF Locals, Steps
<1>6. /\ k.at = "await" /\ k.kind = l.kind /\ k.plan = p /\ k.listed = l.listed
      /\ k.todo = l.todo /\ k.cur = l.cur /\ k.seen = l.seen /\ k.execs = l.execs
  BY <1>1, <1>4 DEF Locals
<1>7. cmd \in [Procs -> Locals] /\ cmd' = [cmd EXCEPT ![c] = k]
  BY <1>4 DEF PlanInv, TypeOK, PlaceSend, Go, Become
<1>8. cmd'[c] = k /\ \A d \in Procs : d # c => cmd'[d] = cmd[d]
  BY <1>7
<1>9. UNCHANGED <<orders, executions, plans, old, runs>>
  BY DEF PlaceSend, stateVars
<1>10. /\ venue \in [Natives -> VenueOrders] /\ sends \in [Plans -> Nat]
       /\ venue' = [venue EXCEPT ![Own(p)] = [venue[Own(p)] EXCEPT !.state = "flight"]]
       /\ sends' = [sends EXCEPT ![p] = sends[p] + 1]
  BY DEF PlanInv, TypeOK, PlaceSend
<1>11. [venue[Own(p)] EXCEPT !.state = "flight"] \in VenueOrders
  BY <1>3, <1>10 DEF VenueOrders
<1>12. /\ venue'[Own(p)].state = "flight"
       /\ \A n \in Natives : venue'[n].cum = venue[n].cum
       /\ \A n \in Natives : n # Own(p) => venue'[n] = venue[n]
  BY <1>3, <1>10 DEF VenueOrders
<1>13. \A n \in Natives : venue[n].state \in RawStates => venue'[n] = venue[n]
  BY <1>3, <1>12 DEF RawStates
<1>14. sends'[p] = 1 /\ \A q \in Plans : q # p => sends'[q] = sends[q]
  BY <1>2, <1>10
<1>15. TypeOK'
  <2>1. venue' \in [Natives -> VenueOrders]
    BY <1>10, <1>11
  <2>2. sends' \in [Plans -> Nat]
    BY <1>2, <1>10
  <2> QED
    BY <1>5, <1>7, <1>9, <2>1, <2>2 DEF PlanInv, TypeOK, StateTypeOK
<1>16. ASSUME NEW m, m \in Locals, RecoveryOK(m) PROVE RecoveryOK(m)'
  <2>1. \A n \in Natives : ViewOK(n, m.seen[n])'
    BY <1>13, <1>16 DEF RecoveryOK, ViewOK
  <2>2. \A f \in m.execs : f[2] <= venue'[Own(f[1])].cum
    <3>1. \A f \in m.execs : Own(f[1]) \in Natives
      BY <1>16, NativesOfPlans DEF Locals, Fills, Plans
    <3> QED
      BY <1>12, <1>16, <3>1 DEF RecoveryOK
  <2>3. m.at \in {"adopt", "trades"} => Visible(m.id)'
    BY <1>13, <1>16 DEF RecoveryOK, Visible
  <2> QED
    BY <1>16, <2>1, <2>2, <2>3 DEF RecoveryOK
<1>17. ASSUME NEW d \in Procs, d # c PROVE Fits(cmd[d])'
  <2>0. PICK m : m = cmd[d]
    OBVIOUS
  <2>1. Fits(m) /\ m \in Locals /\ m = cmd'[d]
    BY <1>8, <1>17, <2>0 DEF PlanInv, LocalsOK, Fits
  <2>2. m.at \in Holding => m.plan \in Plans /\ m.plan # p
    BY <1>1, <1>17, <2>0, <2>1 DEF PlanInv, Exclusive, Fits, ExecutionOK, ExecuteSteps
  <2>3. m.at \in Holding => /\ venue'[Own(m.plan)] = venue[Own(m.plan)]
                            /\ sends'[m.plan] = sends[m.plan]
    BY <1>2, <1>12, <1>14, <2>2, NativesOfPlans
  <2>4. ExecutionOK(m)'
    BY <1>9, <2>1, <2>2, <2>3 DEF Fits, ExecutionOK, Claimed, Refused, Visible, Holding
  <2>5. Fits(m)'
    BY <1>16, <2>1, <2>4 DEF Fits
  <2> QED
    BY <2>1, <2>5
<1>18. Fits(k)'
  <2>1. RecoveryOK(k)'
    <3>1. RecoveryOK(k)
      BY <1>1, <1>6 DEF Fits, RecoveryOK, CheckSteps
    <3> QED
      BY <1>5, <1>16, <3>1
  <2>2. ExecutionOK(k)'
    BY <1>2, <1>6, <1>9 DEF ExecutionOK, ExecuteSteps, Holding, Claimed
  <2> QED
    BY <1>5, <2>1, <2>2 DEF Fits
<1>19. LocalsOK'
  BY <1>8, <1>17, <1>18 DEF LocalsOK
<1>20. Exclusive'
  BY <1>1, <1>6, <1>8 DEF PlanInv, Exclusive
<1>21. SendsOK'
  <2>1. \A q \in Plans : q # p => venue'[Own(q)] = venue[Own(q)]
    BY <1>2, <1>12, NativesOfPlans
  <2> QED
    BY <1>2, <1>9, <1>12, <1>14, <2>1 DEF PlanInv, SendsOK, Claimed
<1>22. StatusOK'
  <2>1. \A q \in Plans : q # p => venue'[Own(q)] = venue[Own(q)]
    BY <1>2, <1>12, NativesOfPlans
  <2> QED
    BY <1>2, <1>9, <1>13, <2>1 DEF PlanInv, StatusOK, Refused, Visible
<1>23. VenueOK'
  <2>1. venue'[Own(p)].cum = 0 /\ venue'[Own(p)].state # "open"
    BY <1>2, <1>3, <1>12 DEF PlanInv, VenueOK, RawStates
  <2>2. \A q \in Plans : q # p => venue'[Own(q)] = venue[Own(q)]
    BY <1>2, <1>12, NativesOfPlans
  <2>3. \A q \in Plans : venue'[<<q, "foreign">>].cum = venue[<<q, "foreign">>].cum
    BY <1>12, NativesOfPlans
  <2>4. \A q : Own(q)' = Own(q)
    BY DEF Own
  <2>5. ASSUME NEW q \in Plans
        PROVE  /\ venue'[Own(q)].state = "open" => venue'[Own(q)].cum < Qty
               /\ venue'[Own(q)].state \notin RawStates => venue'[Own(q)].cum = 0
               /\ venue'[<<q, "foreign">>].cum = 0
    <3>1. CASE q = p
      BY <2>1, <2>3, <3>1 DEF PlanInv, VenueOK
    <3>2. CASE q # p
      BY <2>2, <2>3, <3>2 DEF PlanInv, VenueOK
    <3> QED
      BY <3>1, <3>2
  <2> QED
    BY <2>4, <2>5 DEF VenueOK
<1> QED
  BY <1>15, <1>19, <1>20, <1>21, <1>22, <1>23 DEF PlanInv

(* Execute's last write, over whatever a recovery has written meanwhile.   *)
LEMMA ExecuteFinishKeeps ==
  ASSUME PlanInv, NEW c \in Procs, ExecuteFinish(c)
  PROVE  PlanInv'
<1> DEFINE l == cmd[c]
           p == l.plan
           r == l.result
<1>1. Fits(l) /\ l \in Locals /\ l.at = "finish" /\ l.at \in Holding
  BY DEF PlanInv, LocalsOK, Fits, ExecuteFinish, Holding
<1>2. /\ p \in Plans /\ r.status \notin {"Planned", "Expired"}
      /\ r.status = "Rejected" => Refused(p)
      /\ r.status = "Submitted" => r.native = Own(p) /\ Visible(Own(p))
  BY <1>1 DEF Fits, ExecutionOK, ExecuteSteps
<1>3. r \in PlanRecords /\ r # NoPlan
  BY <1>1, PlanFlowAssumption DEF Locals
<1>4. /\ cmd \in [Procs -> Locals] /\ cmd' = [cmd EXCEPT ![c] = Idle]
      /\ plans \in [Plans -> PlanRecords \union {NoPlan}]
      /\ plans' = [plans EXCEPT ![p] = r]
  BY DEF PlanInv, TypeOK, ExecuteFinish, End, Become, Finish
<1>5. UNCHANGED <<orders, executions, old, venue, sends, runs>>
  BY DEF ExecuteFinish, CmdRest, stateVars
<1>6. TypeOK'
  BY <1>2, <1>3, <1>4, <1>5, IdleIsLocal DEF PlanInv, TypeOK, StateTypeOK
<1>7. cmd'[c] = Idle /\ \A d \in Procs : d # c => cmd'[d] = cmd[d]
  BY <1>4
<1>8. plans'[p] = r /\ \A q \in Plans : q # p => plans'[q] = plans[q]
  BY <1>2, <1>4
<1>9. ASSUME NEW m, m \in Locals, RecoveryOK(m) PROVE RecoveryOK(m)'
  BY <1>5, <1>9 DEF RecoveryOK, ViewOK, Visible
<1>10. ASSUME NEW d \in Procs, d # c PROVE Fits(cmd[d])'
  <2>0. PICK m : m = cmd[d]
    OBVIOUS
  <2>1. Fits(m) /\ m \in Locals /\ m = cmd'[d]
    BY <1>7, <1>10, <2>0 DEF PlanInv, LocalsOK, Fits
  <2>2. m.at \in Holding => m.plan \in Plans /\ m.plan # p
    BY <1>1, <1>10, <2>0, <2>1 DEF PlanInv, Exclusive, Fits, ExecutionOK, ExecuteSteps
  <2>3. ExecutionOK(m)'
    BY <1>5, <1>8, <2>1, <2>2 DEF Fits, ExecutionOK, Claimed, Refused, Visible
  <2>4. Fits(m)'
    BY <1>9, <2>1, <2>3 DEF Fits
  <2> QED
    BY <2>1, <2>4
<1>11. Fits(Idle)'
  <2>1. RecoveryOK(Idle)'
    BY <1>9, IdleFits DEF Fits
  <2>2. ExecutionOK(Idle)'
    BY DEF ExecutionOK, Idle, ExecuteSteps, Holding
  <2> QED
    BY <2>1, <2>2, IdleIsLocal DEF Fits
<1>12. LocalsOK'
  BY <1>7, <1>10, <1>11 DEF LocalsOK
<1>13. Exclusive'
  BY <1>7 DEF PlanInv, Exclusive, Idle, Holding
<1>14. SendsOK' /\ VenueOK'
  BY <1>2, <1>3, <1>5, <1>8 DEF PlanInv, SendsOK, VenueOK, Claimed
<1>15. StatusOK'
  <2>1. \A q : (Refused(q)' <=> Refused(q)) /\ (Visible(q)' <=> Visible(q))
    BY <1>5 DEF Refused, Visible
  <2>2. ASSUME NEW q \in Plans, plans'[q] # NoPlan
        PROVE  /\ plans'[q].status = "Rejected" => Refused(q)
               /\ plans'[q].status = "Submitted" =>
                    plans'[q].native \in Natives /\ Visible(plans'[q].native)
    <3>1. CASE q = p
      <4>1. plans'[q] = r
        BY <1>8, <3>1
      <4>2. r.status = "Submitted" => r.native \in Natives /\ Visible(r.native)
        BY <1>2, NativesOfPlans DEF Visible
      <4>3. r.status = "Rejected" => Refused(q)
        BY <1>2, <3>1
      <4> HIDE DEF r
      <4> QED
        BY <4>1, <4>2, <4>3
    <3>2. CASE q # p
      BY <1>8, <2>2, <3>2 DEF PlanInv, StatusOK
    <3> QED
      BY <3>1, <3>2
  <2>3. \A q \in Plans : plans'[q].status = "Submitted" /\ Visible(plans'[q].native)
                          => Visible(plans[q].native)'
    BY <1>5 DEF Visible
  <2> QED
    BY <2>1, <2>2, <2>3 DEF StatusOK
<1> QED
  BY <1>6, <1>12, <1>13, <1>14, <1>15 DEF PlanInv

(* Every step of Create and Execute keeps the invariant.                   *)
LEMMA ExecutionKeeps ==
  ASSUME PlanInv, NEW c \in Procs, Execution(c)
  PROVE  PlanInv'
  BY CreateKeeps, GetKeeps, ClaimKeeps, PlaceFailsKeeps, PlaceSendKeeps, PlaceAnswerKeeps,
     VerifyKeeps, ExecuteFinishKeeps DEF Execution

-----------------------------------------------------------------------------
(* The clock and the venue.                                                *)

(* An order moves on: it never becomes invisible, loses a lot, or reopens, *)
(* and a refusal stands.                                                   *)
MovesOn(n, o) ==
  /\ venue[n].cum <= o.cum
  /\ venue[n].state \in RawStates =>
       o.state \in RawStates /\ venue[n].state \in {"open", o.state}
  /\ venue[n].state = "refused" => o.state = "refused"
  /\ n[2] = "own" => (venue[n].state = "none" <=> o.state = "none")
  /\ n[2] = "own" /\ o.state = "open" => o.cum < Qty
  /\ n[2] = "own" /\ o.state \notin RawStates => o.cum = 0
  /\ n[2] = "foreign" => o.cum = 0

(* The venue's orders only move on.                                        *)
LEMMA VenueSetKeeps ==
  ASSUME PlanInv, NEW n \in Natives, NEW o \in VenueOrders, MovesOn(n, o), VenueSet(n, o)
  PROVE  PlanInv'
<1>1. /\ UNCHANGED <<orders, executions, plans, old, sends, cmd, runs>>
      /\ venue \in [Natives -> VenueOrders] /\ venue' = [venue EXCEPT ![n] = o]
  BY DEF PlanInv, TypeOK, VenueSet, stateVars
<1>2. venue'[n] = o /\ \A m \in Natives : m # n => venue'[m] = venue[m]
  BY <1>1
<1>3. \A m \in Natives :
        /\ venue[m].cum <= venue'[m].cum
        /\ venue[m].state \in RawStates =>
             venue'[m].state \in RawStates /\ venue[m].state \in {"open", venue'[m].state}
        /\ venue[m].state = "refused" => venue'[m].state = "refused"
  <2>1. \A m \in Natives : venue[m].cum <= venue[m].cum
    BY <1>1 DEF VenueOrders
  <2> QED
    BY <1>2, <2>1 DEF MovesOn
<1>4. \A p \in Plans : venue[Own(p)].state = "none" <=> venue'[Own(p)].state = "none"
  <2>1. \A p \in Plans : Own(p)[2] = "own"
    BY DEF Own
  <2> QED
    BY <1>2, <2>1, NativesOfPlans DEF MovesOn
<1>5. TypeOK'
  BY <1>1 DEF PlanInv, TypeOK, StateTypeOK
<1>6. ASSUME NEW m, Fits(m) PROVE Fits(m)'
  <2>0. m \in Locals
    BY <1>6 DEF Fits
  <2>1. \A k \in Natives : ViewOK(k, m.seen[k])'
    <3> SUFFICES ASSUME NEW k \in Natives, m.seen[k] # NoID PROVE ViewOK(k, m.seen[k])'
      BY DEF ViewOK
    <3>1. m.seen[k] \in VenueOrders /\ ViewOK(k, m.seen[k])
      BY <1>6, <2>0 DEF Fits, RecoveryOK, Locals
    <3>2. m.seen[k].cum \in Nat /\ venue[k].cum \in Nat /\ venue'[k].cum \in Nat
      BY <1>1, <1>5, <3>1 DEF VenueOrders, TypeOK
    <3> QED
      BY <1>3, <3>1, <3>2 DEF ViewOK
  <2>2. \A f \in m.execs : f[2] <= venue'[Own(f[1])].cum
    <3>1. \A f \in m.execs : Own(f[1]) \in Natives /\ f[2] \in Nat
      <4>1. \A f \in m.execs : f \in Plans \X (1 .. Qty)
        BY <2>0 DEF Locals, Fills, Plans
      <4>2. \A f \in Plans \X (1 .. Qty) : f[1] \in Plans /\ f[2] \in Nat
        BY OrderStateAssumption
      <4> QED
        BY <4>1, <4>2, NativesOfPlans
    <3>2. \A k \in Natives : venue[k].cum \in Nat /\ venue'[k].cum \in Nat
      BY <1>1, <1>5 DEF VenueOrders, TypeOK
    <3> QED
      BY <1>3, <1>6, <3>1, <3>2 DEF Fits, RecoveryOK
  <2>3. m.at \in {"adopt", "trades"} => Visible(m.id)'
    BY <1>3, <1>6 DEF Fits, RecoveryOK, Visible
  <2>4. RecoveryOK(m)'
    BY <1>6, <2>1, <2>2, <2>3 DEF Fits, RecoveryOK
  <2>5. m.at \in Holding => m.plan \in Plans /\ Own(m.plan) \in Natives
    BY <1>6, NativesOfPlans DEF Fits, ExecutionOK, ExecuteSteps
  <2>6. m.at \in Holding => (Visible(Own(m.plan)) => Visible(Own(m.plan))')
                            /\ (Refused(m.plan) => Refused(m.plan)')
    BY <1>3, <1>4, <2>5 DEF Visible, Refused, RawStates
  <2>7. ExecutionOK(m)'
    BY <1>1, <1>6, <2>6 DEF Fits, ExecutionOK, Claimed, Holding
  <2> QED
    BY <1>6, <2>4, <2>7 DEF Fits
<1>7. LocalsOK' /\ Exclusive'
  BY <1>1, <1>6 DEF PlanInv, LocalsOK, Exclusive
<1>8. SendsOK'
  BY <1>1, <1>4 DEF PlanInv, SendsOK, Claimed
<1>9. StatusOK'
  BY <1>1, <1>3, <1>4, NativesOfPlans DEF PlanInv, StatusOK, Refused, Visible, RawStates
<1>10. VenueOK'
  <2>1. \A p \in Plans : Own(p)[2] = "own" /\ <<p, "foreign">>[2] = "foreign"
    BY DEF Own
  <2>2. ASSUME NEW p \in Plans
        PROVE  /\ venue'[Own(p)].state = "open" => venue'[Own(p)].cum < Qty
               /\ venue'[Own(p)].state \notin RawStates => venue'[Own(p)].cum = 0
               /\ venue'[<<p, "foreign">>].cum = 0
    <3>1. Own(p) \in Natives /\ <<p, "foreign">> \in Natives
      BY NativesOfPlans
    <3>2. /\ venue'[Own(p)].state = "open" => venue'[Own(p)].cum < Qty
          /\ venue'[Own(p)].state \notin RawStates => venue'[Own(p)].cum = 0
      BY <1>2, <2>1, <3>1 DEF PlanInv, VenueOK, MovesOn
    <3>3. venue'[<<p, "foreign">>].cum = 0
      BY <1>2, <2>1, <3>1 DEF PlanInv, VenueOK, MovesOn
    <3> QED
      BY <3>2, <3>3
  <2>3. \A p : Own(p)' = Own(p)
    BY DEF Own
  <2> QED
    BY <2>2, <2>3 DEF VenueOK
<1> QED
  BY <1>5, <1>7, <1>8, <1>9, <1>10 DEF PlanInv

(* The clock changes no status.                                            *)
LEMMA ExpireKeeps ==
  ASSUME PlanInv, NEW p \in Plans, Expire(p)
  PROVE  PlanInv'
<1>1. UNCHANGED <<orders, executions, plans, venue, sends, cmd, runs>> /\ old' \subseteq Plans
  BY DEF PlanInv, TypeOK, Expire, stateVars
<1>2. TypeOK'
  BY <1>1 DEF PlanInv, TypeOK, StateTypeOK
<1>3. \A m : Fits(m)' <=> Fits(m)
  BY <1>1 DEF Fits, RecoveryOK, ExecutionOK, ViewOK, Visible, Claimed, Refused
<1>4. LocalsOK' /\ Exclusive'
  BY <1>1, <1>3 DEF PlanInv, LocalsOK, Exclusive
<1>5. SendsOK' /\ StatusOK' /\ VenueOK'
  BY <1>1 DEF PlanInv, SendsOK, StatusOK, VenueOK, Visible, Claimed, Refused
<1> QED
  BY <1>2, <1>4, <1>5 DEF PlanInv

(* The environment is the clock and orders that move on.                   *)
LEMMA EnvironmentMovesOn ==
  ASSUME PlanInv, Environment
  PROVE  \/ \E p \in Plans : Expire(p)
         \/ \E n \in Natives, o \in VenueOrders : MovesOn(n, o) /\ VenueSet(n, o)
<1> DEFINE Goal == \E n \in Natives, o \in VenueOrders : MovesOn(n, o) /\ VenueSet(n, o)
<1>1. ASSUME NEW n \in Natives, NEW o, VenueSet(n, o), o \in VenueOrders /\ MovesOn(n, o)
      PROVE  Goal
  BY <1>1
<1> HIDE DEF Goal
<1>2. \A n \in Natives : /\ venue[n] \in VenueOrders
                         /\ n[2] \in {"own", "foreign"}
                         /\ venue[n].cum \in Nat
                         /\ n[2] = "own" /\ venue[n].state = "open" => venue[n].cum < Qty
                         /\ n[2] = "own" /\ venue[n].state \notin RawStates => venue[n].cum = 0
                         /\ n[2] = "foreign" => venue[n].cum = 0
  <2>1. \A n \in Natives : venue[n] \in VenueOrders /\ venue[n].cum \in Nat
    BY DEF PlanInv, TypeOK, VenueOrders
  <2>2. \A n \in Natives : n[1] \in Plans /\ n[2] \in {"own", "foreign"} /\ n = <<n[1], n[2]>>
    BY DEF Natives
  <2> QED
    BY <2>1, <2>2 DEF PlanInv, VenueOK, Own
<1>3. ASSUME NEW p \in Plans, VenueForeign(p) PROVE Goal
  <2> DEFINE n == <<p, "foreign">>
             o == [venue[n] EXCEPT !.state = "open"]
  <2>1. n \in Natives /\ n[2] = "foreign" /\ VenueSet(n, o) /\ venue[n].state = "none"
    BY <1>3, NativesOfPlans DEF VenueForeign
  <2>2. o \in VenueOrders /\ MovesOn(n, o)
    BY <1>2, <2>1 DEF VenueOrders, RawStates, MovesOn
  <2> QED
    BY <1>1, <2>1, <2>2
<1>4. ASSUME NEW n \in Natives, VenueDecide(n) PROVE Goal
  <2>1. PICK s \in {"lost", "refused", "open", "rejected"} :
          VenueSet(n, [venue[n] EXCEPT !.state = s])
    BY <1>4 DEF VenueDecide
  <2>2. venue[n].state = "flight"
    BY <1>4 DEF VenueDecide
  <2> DEFINE o == [venue[n] EXCEPT !.state = s]
  <2>3. o \in VenueOrders /\ o.state = s /\ o.cum = venue[n].cum
    BY <1>2 DEF VenueOrders, RawStates
  <2>4. venue[n].cum = 0
    BY <1>2, <2>2 DEF RawStates
  <2>5. MovesOn(n, o)
    BY <1>2, <2>2, <2>3, <2>4, OrderStateAssumption DEF RawStates, MovesOn
  <2> QED
    BY <1>1, <2>1, <2>3, <2>5
<1>5. ASSUME NEW n \in Natives, VenueFill(n) PROVE Goal
  <2> DEFINE cum == venue[n].cum + 1
             s   == IF cum = Qty THEN "filled" ELSE "open"
             o   == [venue[n] EXCEPT !.cum = cum, !.state = s]
  <2>1. venue[n].state = "open" /\ n[2] = "own" /\ VenueSet(n, o)
    BY <1>5 DEF VenueFill
  <2>2. cum \in 1 .. Qty
    BY <1>2, <2>1, OrderStateAssumption
  <2>3. o \in VenueOrders /\ o.cum = cum /\ o.state \in {"open", "filled"}
        /\ (o.state = "open" => cum # Qty)
    <3>1. s \in {"open", "filled"} /\ (s = "open" => cum # Qty)
      OBVIOUS
    <3> HIDE DEF s, cum
    <3>2. venue[n] \in VenueOrders /\ cum \in 0 .. Qty /\ s \in RawStates
      BY <1>2, <2>2, <3>1, OrderStateAssumption DEF RawStates
    <3>3. o \in VenueOrders /\ o.cum = cum /\ o.state = s
      BY <3>2 DEF VenueOrders
    <3> QED
      BY <3>1, <3>3
  <2>4. MovesOn(n, o)
    BY <1>2, <2>1, <2>2, <2>3, OrderStateAssumption DEF RawStates, MovesOn
  <2> QED
    BY <1>1, <2>1, <2>3, <2>4
<1>6. ASSUME NEW n \in Natives, VenueCancel(n) \/ VenueIndex(n) PROVE Goal
  <2>1. PICK o \in VenueOrders : /\ VenueSet(n, o) /\ o.cum = venue[n].cum
                                 /\ \/ venue[n].state = "open" /\ o.state = "cancelled"
                                    \/ o.state = venue[n].state /\ o.state \in RawStates \ {"open"}
    <3>1. CASE VenueCancel(n)
      <4> DEFINE o == [venue[n] EXCEPT !.state = "cancelled"]
      <4>1. o \in VenueOrders /\ VenueSet(n, o) /\ o.cum = venue[n].cum
            /\ venue[n].state = "open" /\ o.state = "cancelled"
        BY <1>2, <3>1 DEF VenueCancel, VenueOrders, RawStates
      <4> QED
        BY <4>1
    <3>2. CASE VenueIndex(n)
      <4> DEFINE o == [venue[n] EXCEPT !.indexed = TRUE]
      <4>1. o \in VenueOrders /\ VenueSet(n, o) /\ o.cum = venue[n].cum
            /\ o.state = venue[n].state /\ o.state \in RawStates \ {"open"}
        BY <1>2, <3>2 DEF VenueIndex, VenueOrders
      <4> QED
        BY <4>1
    <3> QED
      BY <1>6, <3>1, <3>2
  <2>2. MovesOn(n, o)
    BY <1>2, <2>1 DEF RawStates, MovesOn
  <2> QED
    BY <1>1, <2>1, <2>2
<1> QED
  BY <1>3, <1>4, <1>5, <1>6 DEF Environment, Goal

(* Every step of the clock and the venue keeps the invariant.              *)
LEMMA EnvironmentKeeps ==
  ASSUME PlanInv, Environment
  PROVE  PlanInv'
  BY EnvironmentMovesOn, ExpireKeeps, VenueSetKeeps

-----------------------------------------------------------------------------
(* The invariant holds initially.                                          *)
LEMMA InitInv == Init => PlanInv
<1> SUFFICES ASSUME Init PROVE PlanInv
  OBVIOUS
<1>1. TypeOK
  BY InitType
<1>2. \A c \in Procs : cmd[c] = Idle
  BY DEF Init
<1>3. \A p \in Plans : plans[p] = NoPlan /\ sends[p] = 0
  BY DEF Init
<1>4. \A n \in Natives : venue[n].state = "none" /\ venue[n].cum = 0
  BY DEF Init
<1>5. LocalsOK /\ Exclusive
  BY <1>2, IdleFits DEF LocalsOK, Exclusive, Idle, Holding
<1>6. SendsOK /\ StatusOK
  <2>1. \A p \in Plans : venue[Own(p)].state = "none"
    BY <1>4, NativesOfPlans
  <2> QED
    BY <1>3, <2>1 DEF SendsOK, StatusOK
<1>7. VenueOK
  BY <1>4, NativesOfPlans DEF VenueOK
<1> QED
  BY <1>1, <1>5, <1>6, <1>7 DEF PlanInv

(* The invariant is inductive.                                             *)
LEMMA NextInv == PlanInv /\ [Next]_vars => PlanInv'
<1> SUFFICES ASSUME PlanInv, [Next]_vars PROVE PlanInv'
  OBVIOUS
<1>1. ASSUME NEW c \in Procs, Abort(c) PROVE PlanInv'
  BY <1>1, EndKeeps DEF Abort
<1>2. CASE UNCHANGED vars
  <2>1. UNCHANGED <<orders, executions, plans, old, venue, sends, cmd, runs>>
    BY <1>2 DEF vars
  <2>2. \A m : Fits(m)' <=> Fits(m)
    BY <2>1 DEF Fits, RecoveryOK, ExecutionOK, ViewOK, Visible, Claimed, Refused
  <2>3. TypeOK' /\ LocalsOK' /\ Exclusive'
    BY <2>1, <2>2 DEF PlanInv, TypeOK, StateTypeOK, LocalsOK, Exclusive
  <2>4. SendsOK' /\ StatusOK' /\ VenueOK'
    BY <2>1 DEF PlanInv, SendsOK, StatusOK, VenueOK, Visible, Claimed, Refused
  <2> QED
    BY <2>3, <2>4 DEF PlanInv
<1>3. CASE Next
  BY <1>1, <1>3, BeginKeeps, RecoveryKeeps, ExecutionKeeps, EnvironmentKeeps DEF Next
<1> QED
  BY <1>2, <1>3

(* The inductive invariant of the planned orders.                          *)
THEOREM PlanInvHolds == Spec => []PlanInv
  BY InitInv, NextInv, PTL DEF Spec

(* The variables, and the locals of every command, keep their types.       *)
THEOREM PlanTypeCorrect == Spec => []TypeOK
<1>1. PlanInv => TypeOK
  BY DEF PlanInv
<1> QED
  BY <1>1, PlanInvHolds, PTL

(* Store.Claim makes every plan's order leave at most once, for any number *)
(* of processes, commands and crashes.                                     *)
THEOREM PlansPlacedOnce == Spec => []PlacedOnce
<1>1. PlanInv => PlacedOnce
  BY DEF PlanInv, SendsOK, PlacedOnce
<1> QED
  BY <1>1, PlanInvHolds, PTL

(* The claim is on file before the order leaves, and no write of Execute or*)
(* of a recovery undoes it.                                                *)
THEOREM ClaimIsWrittenAhead == Spec => []WriteAhead
<1>1. PlanInv => WriteAhead
  BY DEF PlanInv, TypeOK, SendsOK, WriteAhead, Claimed
<1> QED
  BY <1>1, PlanInvHolds, PTL

(* A plan that Execute wrote down as Rejected never has an order at the    *)
(* venue.                                                                  *)
THEOREM RejectionsAreTrue == Spec => []RejectedIsTrue
<1>1. PlanInv => RejectedIsTrue
  BY DEF PlanInv, StatusOK, RejectedIsTrue, Refused
<1> QED
  BY <1>1, PlanInvHolds, PTL

(* A plan that Execute or a recovery wrote down as Submitted names an order*)
(* that the venue has shown.                                               *)
THEOREM SubmissionsAreTrue == Spec => []SubmittedIsTrue
<1>1. PlanInv => SubmittedIsTrue
  BY PlanFlowAssumption DEF PlanInv, StatusOK, SubmittedIsTrue
<1> QED
  BY <1>1, PlanInvHolds, PTL

-----------------------------------------------------------------------------
(* What the order file says happened.                                      *)

(* A status on file that fits the state of an order at the venue.          *)
Tells(status, state) ==
  \/ status = "New"
  \/ <<status, state>> \in {<<"Filled", "filled">>, <<"Cancelled", "cancelled">>,
                            <<"Rejected", "rejected">>}

(* The record r of plan p is borne out by the orders of v.                 *)
BorneOut(p, r, v) ==
  /\ \E n \in Natives : n[1] = p /\ v[n].state \in RawStates /\ Tells(r.status, v[n].state)
  /\ r.cum <= v[Own(p)].cum

(* Every record is borne out, and every execution on file is a filled lot, *)
(* also those of an order that is not on file yet.                         *)
FileInv ==
  /\ \A p \in Plans : orders[p] # NoOrder => BorneOut(p, orders[p], venue)
  /\ \A f \in executions : f[2] <= venue[Own(f[1])].cum

(* The orders of v have moved on to those of w.                            *)
AllMoveOn(v, w) ==
  \A n \in Natives :
    /\ v[n].cum \in Nat /\ w[n].cum \in Nat /\ v[n].cum <= w[n].cum
    /\ v[n].state \in RawStates =>
         w[n].state \in RawStates /\ v[n].state \in {"open", w[n].state}

(* No step takes an order back.                                            *)
LEMMA VenueMovesOn ==
  ASSUME PlanInv, [Next]_vars
  PROVE  AllMoveOn(venue, venue')
<1>1. venue \in [Natives -> VenueOrders] /\ cmd \in [Procs -> Locals]
  BY DEF PlanInv, TypeOK
<1>2. \A n \in Natives : venue[n].cum \in Nat /\ venue[n].cum <= venue[n].cum
  BY <1>1 DEF VenueOrders
<1>3. ASSUME UNCHANGED venue
      PROVE  AllMoveOn(venue, venue')
  BY <1>2, <1>3 DEF AllMoveOn
<1>4. ASSUME NEW n \in Natives, NEW o \in VenueOrders, MovesOn(n, o), VenueSet(n, o)
      PROVE  AllMoveOn(venue, venue')
  <2>1. venue'[n] = o /\ \A m \in Natives : m # n => venue'[m] = venue[m]
    BY <1>1, <1>4 DEF VenueSet
  <2>2. o.cum \in Nat
    BY DEF VenueOrders
  <2> QED
    BY <1>2, <1>4, <2>1, <2>2 DEF AllMoveOn, MovesOn
<1>5. ASSUME NEW c \in Procs, PlaceSend(c)
      PROVE  AllMoveOn(venue, venue')
  <2> DEFINE n == Own(cmd[c].plan)
  <2>1. n \in Natives /\ venue[n].state = "none"
    <3>1. cmd[c].plan \in Plans /\ sends[cmd[c].plan] = 0
      BY <1>5 DEF PlaceSend, PlanInv, LocalsOK, Fits, ExecutionOK, ExecuteSteps, Holding
    <3> QED
      BY <3>1, NativesOfPlans DEF PlanInv, SendsOK
  <2>2. venue' = [venue EXCEPT ![n].state = "flight"]
    BY <1>5 DEF PlaceSend
  <2> HIDE DEF n
  <2>3. \A m \in Natives : venue'[m].cum = venue[m].cum
    BY <1>1, <2>1, <2>2 DEF VenueOrders
  <2>4. \A m \in Natives : m # n => venue'[m] = venue[m]
    BY <1>1, <2>2
  <2> QED
    BY <1>2, <2>1, <2>3, <2>4 DEF AllMoveOn, RawStates
<1>6. ASSUME NEW c \in Procs, Recovery(c) \/ Abort(c) \/ (Execution(c) /\ ~PlaceSend(c))
      PROVE  UNCHANGED venue
  BY <1>6 DEF Recovery, RecoverOpen, RecoverHistory, RecoverReview, RecoverApply,
     RecoverAdopt, RecoverTrades, RecoverRecord, RecoverNext, Recovered, Pages, Abort,
     Execution, Create, ExecuteGet, ExecuteValidate, ExecuteClaim, PlaceFails,
     PlaceAnswer, ExecuteVerify, ExecuteFinish, CmdRest
<1>7. ASSUME Environment
      PROVE  AllMoveOn(venue, venue')
  <2>1. \A p \in Plans : Expire(p) => UNCHANGED venue
    BY DEF Expire
  <2> QED
    BY <1>3, <1>4, <1>7, <2>1, EnvironmentMovesOn
<1>8. ASSUME NEW c \in Procs, NEW kind, NEW p, Begin(c, kind, p)
      PROVE  UNCHANGED venue
  BY <1>8 DEF Begin
<1>9. UNCHANGED vars => UNCHANGED venue
  BY DEF vars
<1> QED
  BY <1>3, <1>5, <1>6, <1>7, <1>8, <1>9 DEF Next

(* What is borne out stays so.                                             *)
LEMMA BorneOutLasts ==
  ASSUME NEW v, NEW w, AllMoveOn(v, w), NEW p \in Plans, NEW r \in OrderRecords,
         BorneOut(p, r, v)
  PROVE  BorneOut(p, r, w)
<1>1. PICK n \in Natives : n[1] = p /\ v[n].state \in RawStates /\ Tells(r.status, v[n].state)
  BY DEF BorneOut
<1>2. w[n].state \in RawStates /\ Tells(r.status, w[n].state)
  BY <1>1 DEF AllMoveOn, Tells
<1>3. r.cum <= w[Own(p)].cum
  <2>1. Own(p) \in Natives /\ r.cum \in Nat
    BY NativesOfPlans DEF OrderRecords
  <2>2. /\ r.cum <= v[Own(p)].cum
        /\ v[Own(p)].cum \in Nat /\ w[Own(p)].cum \in Nat /\ v[Own(p)].cum <= w[Own(p)].cum
    BY <2>1 DEF BorneOut, AllMoveOn
  <2> QED
    BY <2>1, <2>2
<1> QED
  BY <1>1, <1>2, <1>3 DEF BorneOut

(* The update a recovery makes of its view is borne out when it is written,*)
(* however long ago the view was read and whosever order it shows.         *)
LEMMA ViewsAreBorneOut ==
  ASSUME PlanInv, NEW c \in Procs, cmd[c].at = "apply"
  PROVE  LET u == Update(cmd[c].seen[cmd[c].id])
         IN  /\ cmd[c].cur \in Plans /\ u.cum \in Nat /\ BorneOut(cmd[c].cur, u, venue)
<1> DEFINE p == cmd[c].cur
           n == cmd[c].id
           v == cmd[c].seen[n]
           u == Update(v)
<1>1. /\ Fits(cmd[c]) /\ cmd[c] \in Locals /\ venue \in [Natives -> VenueOrders]
  BY DEF PlanInv, LocalsOK, Fits, TypeOK
<1>2. p \in Plans /\ n \in Natives /\ v # NoID /\ n[1] = p /\ ViewOK(n, v)
  BY <1>1 DEF Fits, RecoveryOK, CheckSteps
<1>3. v \in VenueOrders /\ v.cum \in Nat
  BY <1>1, <1>2 DEF Locals, VenueOrders
<1>4. /\ v.state \in RawStates /\ venue[n].state \in RawStates
      /\ v.cum <= venue[n].cum /\ v.state \in {"open", venue[n].state}
  BY <1>2 DEF ViewOK
<1> HIDE DEF v, n, p
<1>5. u.status = normalizeStatus(v.state) /\ u.cum = v.cum
  BY DEF Update
<1>6. Tells(u.status, venue[n].state)
  BY <1>4, <1>5 DEF Tells, normalizeStatus, RawStates
<1>7. u.cum <= venue[Own(p)].cum
  <2>1. n \in {Own(p), <<p, "foreign">>}
    BY <1>2, NativesOfPlans
  <2>2. venue[<<p, "foreign">>].cum = 0 /\ venue[Own(p)].cum \in Nat
    BY <1>1, <1>2, NativesOfPlans DEF PlanInv, VenueOK, VenueOrders
  <2> QED
    BY <1>3, <1>4, <1>5, <2>1, <2>2
<1> HIDE DEF u
<1>8. BorneOut(p, u, venue)
  BY <1>2, <1>4, <1>6, <1>7 DEF BorneOut
<1> QED
  BY <1>2, <1>3, <1>5, <1>8 DEF p, n, v, u

(* One step of a command or of the venue leaves the file borne out.        *)
LEMMA FileInvKeeps ==
  ASSUME PlanInv, FileInv, [Next]_vars
  PROVE  FileInv'
<1>1. /\ orders \in [Orders -> OrderRecords \union {NoOrder}] /\ executions \subseteq Fills
      /\ venue \in [Natives -> VenueOrders]
  BY DEF PlanInv, TypeOK, StateTypeOK
<1>2. AllMoveOn(venue, venue')
  BY VenueMovesOn
<1>3. \A p \in Plans : orders[p] # NoOrder => BorneOut(p, orders[p], venue')
  BY <1>1, <1>2, BorneOutLasts DEF FileInv, Plans
<1>4. \A f \in Fills : f[1] \in Plans /\ f[2] \in Nat
  BY OrderStateAssumption DEF Fills, Plans
<1>5. \A f \in Fills : f[2] <= venue[Own(f[1])].cum => f[2] <= venue'[Own(f[1])].cum
  <2> SUFFICES ASSUME NEW f \in Fills, f[2] <= venue[Own(f[1])].cum
               PROVE  f[2] <= venue'[Own(f[1])].cum
    OBVIOUS
  <2> DEFINE n == Own(f[1])
  <2>1. n \in Natives /\ f[2] \in Nat /\ f[2] <= venue[n].cum
    BY <1>4, NativesOfPlans
  <2> HIDE DEF n
  <2>2. venue[n].cum \in Nat /\ venue'[n].cum \in Nat /\ venue[n].cum <= venue'[n].cum
    BY <1>2, <2>1 DEF AllMoveOn
  <2>3. f[2] <= venue'[n].cum
    BY <2>1, <2>2
  <2> QED
    BY <2>3 DEF n
<1>6. ASSUME orders' = orders,
             \A f \in executions' : f \in executions
                                     \/ (f \in Fills /\ f[2] <= venue[Own(f[1])].cum)
      PROVE  FileInv'
  BY <1>1, <1>3, <1>5, <1>6 DEF FileInv, Own
<1>7. ASSUME NEW c \in Procs, RecoverApply(c)
      PROVE  FileInv'
  <2> DEFINE p == cmd[c].cur
             u == Update(cmd[c].seen[cmd[c].id])
  <2>1. p \in Plans /\ u.cum \in Nat /\ BorneOut(p, u, venue)
    BY <1>7, ViewsAreBorneOut DEF RecoverApply
  <2>2. ApplyOrder(p, u) \/ UNCHANGED stateVars
    BY <1>7 DEF RecoverApply
  <2>3. venue' = venue
    BY <1>7 DEF RecoverApply, CmdRest
  <2> HIDE DEF p, u
  <2>4. CASE ApplyOrder(p, u)
    <3>1. u.cum # NoCum
      BY <2>1, OrderStateAssumption
    <3>2. orders'[p].status = u.status /\ orders'[p].cum = u.cum
      BY <1>1, <2>1, <2>4, <3>1 DEF ApplyOrder, mergeOrder, Plans
    <3>3. \A q \in Plans : q # p => orders'[q] = orders[q]
      BY <1>1, <2>4 DEF ApplyOrder, Plans
    <3>4. BorneOut(p, orders'[p], venue)
      BY <2>1, <3>2 DEF BorneOut
    <3>5. executions' = executions
      BY <2>4 DEF ApplyOrder
    <3>6. \A q \in Plans : orders'[q] # NoOrder => BorneOut(q, orders'[q], venue)
      BY <3>3, <3>4 DEF FileInv
    <3> QED
      BY <2>3, <3>5, <3>6 DEF FileInv, BorneOut, Own
  <2>5. CASE UNCHANGED stateVars
    BY <1>6, <2>5 DEF stateVars
  <2> QED
    BY <2>2, <2>4, <2>5
<1>8. ASSUME NEW c \in Procs, NEW p \in Plans, NEW n \in 1 .. Qty, RecoverRecord(c, p, n)
      PROVE  FileInv'
  <2>1. <<p, n>> \in cmd[c].execs /\ executions' = executions \union {<<p, n>>}
        /\ orders' = orders
    BY <1>8 DEF RecoverRecord, RecordExecution
  <2>2. RecoveryOK(cmd[c])
    BY DEF PlanInv, LocalsOK, Fits
  <2>3. \A f \in cmd[c].execs : f[2] <= venue[Own(f[1])].cum
    BY <2>2 DEF RecoveryOK
  <2>4. <<p, n>> \in Fills
    BY DEF Fills, Plans
  <2> QED
    BY <1>6, <2>1, <2>3, <2>4
<1>9. ASSUME NEW c \in Procs, Pages(c)
      PROVE  FileInv'
  BY <1>6, <1>9 DEF Pages
<1>10. ASSUME NEW c \in Procs, Recovery(c)
       PROVE  FileInv'
  <2>1. \/ UNCHANGED stateVars \/ RecoverApply(c) \/ Pages(c)
        \/ \E p \in Plans, n \in 1 .. Qty : RecoverRecord(c, p, n)
    BY <1>10 DEF Recovery, RecoverOpen, RecoverHistory, RecoverReview,
       RecoverAdopt, RecoverTrades, RecoverNext, Recovered
  <2> QED
    BY <1>6, <1>7, <1>8, <1>9, <2>1 DEF stateVars
<1>11. ASSUME NEW c \in Procs, Execution(c) \/ Abort(c)
       PROVE  UNCHANGED stateVars
  BY <1>11 DEF Execution, Create, ExecuteGet, ExecuteValidate, ExecuteClaim, PlaceFails,
     PlaceSend, PlaceAnswer, ExecuteVerify, ExecuteFinish, Abort
<1>12. ASSUME NEW c \in Procs, NEW kind, NEW p, Begin(c, kind, p)
       PROVE  UNCHANGED stateVars
  BY <1>12 DEF Begin
<1>13. Environment \/ UNCHANGED vars => UNCHANGED stateVars
  BY DEF Environment, Expire, VenueForeign, VenueDecide, VenueFill, VenueCancel,
     VenueIndex, VenueSet, vars, stateVars
<1>14. UNCHANGED stateVars => FileInv'
  BY <1>6 DEF stateVars
<1> QED
  BY <1>10, <1>11, <1>12, <1>13, <1>14 DEF Next

(* What a recovery writes of a plan's order has happened: whatever views   *)
(* were read earlier, or show an order of someone else, no status and no   *)
(* lot on file is made up.                                                 *)
THEOREM PlanFileIsTrue == Spec => []FileHappened
<1>1. Init => FileInv
  BY DEF Init, StateInit, FileInv, Plans
<1>2. PlanInv /\ FileInv /\ [Next]_vars => FileInv'
  BY FileInvKeeps
<1>3. PlanInv /\ FileInv => FileHappened
  <2> SUFFICES ASSUME PlanInv, FileInv, NEW p \in Known
               PROVE  /\ \E n \in Natives :
                           /\ n[1] = p /\ Visible(n)
                           /\ Tells(orders[p].status, venue[n].state)
                      /\ orders[p].cum <= venue[Own(p)].cum
                      /\ \A n \in 1 .. Qty :
                           <<p, n>> \in executions => n <= venue[Own(p)].cum
    BY DEF FileHappened, Tells
  <2>1. BorneOut(p, orders[p], venue)
    BY DEF Known, FileInv, Plans
  <2> QED
    BY <2>1 DEF BorneOut, Visible, FileInv
<1> QED
  BY <1>1, <1>2, <1>3, PlanInvHolds, PTL DEF Spec
=============================================================================
