---------------------------- MODULE TradeStatus ----------------------------
(***************************************************************************)
(* The status machine of a Quick Trade (internal/intent/quicktrade.go):    *)
(* the statuses, which of them hold a trading slot, which of them are      *)
(* final, and the table of transitions the durable store accepts.          *)
(***************************************************************************)

Statuses == {"Created", "PendingSubmit", "Submitted", "Accepted",
             "PartiallyFilled", "Filled", "PendingCancel", "Cancelled",
             "Rejected", "Unknown"}

Terminal == {"Filled", "Cancelled", "Rejected"}

Active == {"Created", "PendingSubmit", "Submitted", "Accepted",
           "PartiallyFilled", "PendingCancel", "Unknown"}

(* The value of a string field that an update leaves alone.                *)
Unset == ""

(* What a trade's ResultStatus can say.                                    *)
Results == {"ACCEPTED", "PARTIALLY_FILLED", "FILLED", "CANCELLED_NO_FILL",
            "PARTIALLY_FILLED_CANCELLED", "REJECTED", "OUTCOME_UNKNOWN",
            "NOT_SUBMITTED_AFTER_RESTART"}

(* What a trade's BalanceSyncStatus can say; a new trade says "pending".   *)
BalanceSyncs == {"pending", "PENDING", "SYNCED", "STALE"}

(* Mutated forms: a table that reopens rejected trades, and one without    *)
(* the way from Unknown to Cancelled.                                      *)
SuccessorsReopening(from) ==
  CASE from = "Created"  -> {"PendingSubmit", "Rejected"}
    [] from = "Rejected" -> {"Unknown"}
    [] OTHER             -> {"Accepted", "Filled", "Rejected", "Unknown"}

SuccessorsNoLateCancel(from) ==
  CASE from = "Created"       -> {"PendingSubmit", "Rejected"}
    [] from = "PendingSubmit" -> {"Accepted", "Unknown"}
    [] from = "Accepted"      -> {"Filled", "Cancelled", "Rejected", "Unknown"}
    [] from = "Unknown"       -> {"Accepted", "Filled", "Rejected"}
    [] OTHER                  -> {}

(* The statuses the table lets a trade in status `from' move to.           *)
Successors(from) ==
  CASE from = "Created"         -> {"PendingSubmit", "Rejected"}
    [] from = "PendingSubmit"   -> {"Submitted", "Accepted", "PartiallyFilled",
                                    "Filled", "Rejected", "Unknown"}
    [] from = "Submitted"       -> {"Accepted", "PartiallyFilled", "Filled",
                                    "Rejected", "Unknown"}
    [] from = "Accepted"        -> {"PartiallyFilled", "Filled", "PendingCancel",
                                    "Cancelled", "Rejected", "Unknown"}
    [] from = "PartiallyFilled" -> {"Filled", "PendingCancel", "Cancelled",
                                    "Unknown"}
    [] from = "PendingCancel"   -> {"Filled", "Cancelled", "Unknown"}
    [] from = "Unknown"         -> {"Submitted", "Accepted", "PartiallyFilled",
                                    "Filled", "Cancelled", "Rejected"}
    [] from = "Cancelled"       -> {"Filled"}
    [] OTHER                    -> {}

validTradeTransition(from, to) == to \in Successors(from)

(* applyTradeStatus writes nothing for the status the trade already has,   *)
(* and refuses a status the table does not list.                           *)
StatusAdmitted(from, to) == to = from \/ validTradeTransition(from, to)
=============================================================================
