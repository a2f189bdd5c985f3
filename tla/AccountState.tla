---------------------------- MODULE AccountState ----------------------------
(***************************************************************************)
(* The account manager of the web console (internal/accountstate), for one *)
(* venue: the cached snapshot, the coalesced refresh that replaces it, the *)
(* revaluation that changes it in place.  The health record beside it is   *)
(* shown and never read back, and is left out.  Each action is what        *)
(* happens under the manager's mutex; events are published after the mutex *)
(* is released, so between two actions.  A balance is known by how often   *)
(* the venue has changed it.                                               *)
(***************************************************************************)
EXTENDS Integers, Sequences

CONSTANTS
  MaxChanges,      \* bound: changes of the account at the venue
  MaxRevalues,     \* bound: price changes that alter a snapshot
  NoAccount        \* an absent snapshot

ASSUME AccountLimits ==
  /\ {MaxChanges, MaxRevalues} \subseteq Nat
  /\ NoAccount \notin [inst: Nat, rev: Nat, bal: Nat]

(* Who calls Refresh: the worker of the streams' triggers, and the interval *)
(* of Run, which also stands for a user's request: it may come at any time.*)
Refreshers == {"interval", "trigger"}

Accounts == [inst: Nat, rev: Nat, bal: Nat]

VARIABLES
  venueAccount,    \* external: the account at the venue
  inst,            \* the server's process
  snap,            \* Manager.snapshots[venue]
  revision,        \* Manager.revision
  call,            \* Manager.refreshes[venue]: where it is, its caller, its read
  caller,          \* each caller: idle, or waiting in Refresh
  revalues,        \* revaluations so far
  repriced         \* a revaluation whose event is not yet published

accountVars == <<venueAccount, inst, snap, revision, call, caller, revalues,
                 repriced>>

NoCall == [at |-> "none", by |-> "interval", got |-> 0]

CallSteps == {"none", "reading", "read", "failed", "stored", "updated", "done"}

Empty ==
  /\ snap' = NoAccount /\ revision' = 0
  /\ call' = NoCall /\ caller' = [c \in Refreshers |-> "idle"]
  /\ repriced' = FALSE

AccountInit ==
  /\ venueAccount = 1 /\ inst = 1
  /\ snap = NoAccount /\ revision = 0
  /\ call = NoCall /\ caller = [c \in Refreshers |-> "idle"]
  /\ revalues = 0 /\ repriced = FALSE

(* External: the account changes.                                          *)
AccountChanges ==
  /\ venueAccount <= MaxChanges
  /\ venueAccount' = venueAccount + 1
  /\ UNCHANGED <<inst, snap, revision, call, caller, revalues, repriced>>

-----------------------------------------------------------------------------
(* Refresh: a caller starts the venue's refresh, or waits for the one that *)
(* is under way, however far that has come.                                *)
Refresh(c) ==
  /\ caller[c] = "idle"
  /\ caller' = [caller EXCEPT ![c] = "waiting"]
  /\ call' = IF call.at = "none" THEN [at |-> "reading", by |-> c, got |-> 0] ELSE call
  /\ UNCHANGED <<venueAccount, inst, snap, revision, revalues, repriced>>

(* The context of a caller that only waits ends first.                     *)
WaitTimesOut(c) ==
  /\ caller[c] = "waiting" /\ c # call.by
  /\ caller' = [caller EXCEPT ![c] = "idle"]
  /\ UNCHANGED <<venueAccount, inst, snap, revision, call, revalues, repriced>>

(* refresh: provider.Snapshot, which may fail.                             *)
RefreshReads(ok) ==
  /\ call.at = "reading"
  /\ call' = IF ok THEN [call EXCEPT !.at = "read", !.got = venueAccount]
             ELSE [call EXCEPT !.at = "failed"]
  /\ UNCHANGED <<venueAccount, inst, snap, revision, caller, revalues, repriced>>

RefreshStores ==
  /\ call.at = "read"
  /\ revision' = revision + 1
  /\ snap' = [inst |-> inst, rev |-> revision + 1, bal |-> call.got]
  /\ call' = [call EXCEPT !.at = "stored", !.got = 0]
  /\ UNCHANGED <<venueAccount, inst, caller, revalues, repriced>>

(* Mutated form: the early return leaves the call under way.               *)
FailureHangs == call.at = "failed" /\ UNCHANGED accountVars

(* A failed read keeps the snapshot; only the health record changes.       *)
RefreshFails ==
  /\ call.at = "failed"
  /\ call' = [call EXCEPT !.at = "updated"]
  /\ UNCHANGED <<venueAccount, inst, snap, revision, caller, revalues, repriced>>

(* OnEvent("account.updated"), then OnEvent("venue.health.updated").       *)
RefreshAnnounces(event) ==
  /\ \/ call.at = "stored" /\ event = "account.updated"
        /\ call' = [call EXCEPT !.at = "updated"]
     \/ call.at = "updated" /\ event = "venue.health.updated"
        /\ call' = [call EXCEPT !.at = "done"]
  /\ UNCHANGED <<venueAccount, inst, snap, revision, caller, revalues, repriced>>

(* The call is deleted and everyone who waited returns.                    *)
RefreshEnds ==
  /\ call.at = "done"
  /\ call' = NoCall /\ caller' = [c \in Refreshers |-> "idle"]
  /\ UNCHANGED <<venueAccount, inst, snap, revision, revalues, repriced>>

-----------------------------------------------------------------------------
(* UpdateUSDPrices and Revalue: a price that changes the valuation makes a *)
(* new revision of the cached snapshot.                                    *)
Revalue ==
  /\ revalues < MaxRevalues /\ snap # NoAccount /\ ~repriced
  /\ revalues' = revalues + 1
  /\ revision' = revision + 1
  /\ snap' = [snap EXCEPT !.rev = revision + 1]
  /\ repriced' = TRUE
  /\ UNCHANGED <<venueAccount, inst, call, caller>>

PublishValuation ==
  /\ repriced /\ repriced' = FALSE
  /\ UNCHANGED <<venueAccount, inst, snap, revision, call, caller, revalues>>

(* The server's process ends, and another one starts.                      *)
AccountRestart ==
  /\ inst' = inst + 1 /\ Empty
  /\ UNCHANGED <<venueAccount, revalues>>

AccountTypeOK ==
  /\ venueAccount \in 1 .. MaxChanges + 1
  /\ inst \in Nat /\ revision \in Nat /\ revalues \in 0 .. MaxRevalues
  /\ snap \in Accounts \union {NoAccount}
  /\ call \in [at: CallSteps, by: Refreshers, got: Nat]
  /\ caller \in [Refreshers -> {"idle", "waiting"}]
  /\ repriced \in BOOLEAN
=============================================================================
