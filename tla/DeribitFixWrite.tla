-------------------------- MODULE DeribitFixWrite ---------------------------
(***************************************************************************)
(* One write over Deribit FIX: place, amend or cancel                      *)
(* (cmd/venuewire/deribit_fix_orders.go) on a session of its own, the      *)
(* callbacks it gives the session, and the independent JSON-RPC read with  *)
(* which amend and cancel verify (deribit_commands.go).  The order at the  *)
(* venue is external; it may fill at any time and every fill is reported.  *)
(***************************************************************************)
EXTENDS DeribitFix

CONSTANTS
  ReportQueue,    \* capacity of the channel of execution reports
  ReportForms     \* forms of report the venue sends

ASSUME ReportLimits == ReportQueue \in Nat \ {0} /\ ReportForms \subseteq Forms

VARIABLES
  write,          \* the command: D places, G amends, F cancels
  at, result,     \* where runDeribitFIXWrite is, and what its caller returns
  security, quantity, reports, rejects,   \* its channels and its metadata
  order, amended, \* external: the order, and whether a G was applied
  executed        \* external: how often the venue carried the write out

command == <<write, at, result, security, quantity, reports, rejects>>
venue == <<order, amended, executed>>
vars == <<fixVars, command, venue>>

Writes == {"D", "G", "F"}

(* What ParseSecurityList and QuantitySpecFromMetadata make of a list.     *)
SecurityOutcomes == {"good", "bad"}

(* Build: the fields of the order, or an error for what is not a valid     *)
(* request or not a whole number of contracts.                             *)
BuildOutcomes == BOOLEAN

(* amend and cancel begin when the order was read as open.                 *)
Init ==
  /\ FixInit
  /\ write \in Writes
  /\ at = "logon" /\ result = "none"
  /\ security = "none" /\ quantity = FALSE /\ reports = <<>> /\ rejects = 0
  /\ order = (IF write = "D" THEN "none" ELSE "open") /\ amended = FALSE
  /\ executed = 0

Returns(r) == at' = "done" /\ result' = r

Local == UNCHANGED fixVars /\ UNCHANGED venue

-----------------------------------------------------------------------------
(* runDeribitFIXWrite.  Every wait also ends with the session or a timeout.*)

LoggedOn ==
  /\ at = "logon" /\ loggedOn
  /\ at' = "request"
  /\ Local /\ UNCHANGED <<write, result, security, quantity, reports, rejects>>

RequestSecurityList ==
  /\ at = "request"
  /\ \/ SendSucceeds("x") /\ at' = "security" /\ UNCHANGED result
     \/ (SendRefused \/ SendFails) /\ Returns("notsent")
  /\ UNCHANGED <<write, security, quantity, reports, rejects, venue>>

SecurityListRead ==
  /\ at = "security" /\ security # "none"
  /\ quantity' = (security = "good")
  /\ \E built \in BuildOutcomes :
       IF quantity' /\ built THEN at' = "write" /\ UNCHANGED result
       ELSE Returns("notsent")
  /\ Local /\ UNCHANGED <<write, security, reports, rejects>>

GivesUp ==
  /\ at \in {"logon", "security"}
  /\ Returns("notsent")
  /\ Local /\ UNCHANGED <<write, security, quantity, reports, rejects>>

(* Once the write was attempted, an error leaves its outcome unknown.      *)
SendWrite ==
  /\ at = "write"
  /\ \/ SendSucceeds(write) /\ at' = "wait" /\ UNCHANGED result
     \/ (SendRefused \/ SendFails) /\ Returns("unknown")
  /\ UNCHANGED <<write, security, quantity, reports, rejects, venue>>

(* The first report answers the write, whatever made the venue send it.    *)
ReportOutcome(r) ==
  IF write # "F" /\ r.form = "noqty" THEN "unknown"
  ELSE IF r.status = "8" THEN "rejected"
  ELSE IF write = "D" /\ r.form = "noid" THEN "unknown" ELSE "accepted"

ReportRead ==
  /\ at = "wait" /\ reports # <<>>
  /\ LET r == ReportOutcome(Head(reports))
     IN IF r = "accepted" /\ write # "D" THEN at' = "verify" /\ UNCHANGED result
        ELSE Returns(r)
  /\ reports' = Tail(reports)
  /\ Local /\ UNCHANGED <<write, security, quantity, rejects>>

RejectRead ==
  /\ at = "wait" /\ rejects > 0
  /\ rejects' = rejects - 1
  /\ Returns("rejected")
  /\ Local /\ UNCHANGED <<write, security, quantity, reports>>

(* Mutated form: a write without an answer is sent again.                  *)
RetryUnanswered ==
  /\ at = "wait" /\ at' = "write"
  /\ Local /\ UNCHANGED <<write, result, security, quantity, reports, rejects>>

NoAnswer ==
  /\ at = "wait"
  /\ Returns("unknown")
  /\ Local /\ UNCHANGED <<write, security, quantity, reports, rejects>>

(* Mutated form: the report is taken for the result.                       *)
TrustAcknowledgement ==
  /\ at = "verify" /\ Returns("verified")
  /\ Local /\ UNCHANGED <<write, security, quantity, reports, rejects>>

(* The caller's own read.  An amend is compared once; a cancel is polled   *)
(* until the order is final or five seconds have passed.                   *)
Verify ==
  /\ at = "verify"
  /\ \/ write = "G" /\ Returns(IF amended THEN "verified" ELSE "unverified")
     \/ write = "F" /\ order \in {"cancelled", "filled"} /\ Returns("verified")
     \/ Returns("unverified")
  /\ Local /\ UNCHANGED <<write, security, quantity, reports, rejects>>

(* The deferred cancel ends the session.                                   *)
CommandCancels ==
  /\ at = "done" /\ Cancelled /\ UNCHANGED <<command, venue>>

-----------------------------------------------------------------------------
(* OnMessage.                                                              *)

SecurityListArrives ==
  /\ phase = "message" /\ cur.type = "y"
  /\ security' \in IF security = "none" THEN SecurityOutcomes ELSE {security}
  /\ OnMessageReturns(TRUE)
  /\ UNCHANGED <<write, at, result, quantity, reports, rejects, venue>>

ReportArrives ==
  /\ phase = "message" /\ cur.type = "8"
  /\ LET ok == quantity /\ cur.body.form # "bad" /\ Len(reports) < ReportQueue
     IN /\ OnMessageReturns(ok)
        /\ reports' = IF ok THEN Append(reports, cur.body) ELSE reports
  /\ UNCHANGED <<write, at, result, security, quantity, rejects, venue>>

CancelRejectArrives ==
  /\ phase = "message" /\ cur.type = "9"
  /\ OnMessageReturns(rejects = 0)
  /\ rejects' = 1
  /\ UNCHANGED <<write, at, result, security, quantity, reports, venue>>

-----------------------------------------------------------------------------
(* External: the venue carries requests out and reports fills.             *)

Report(status) == \E form \in ReportForms :
  Emit("8", 0, [status |-> status, form |-> form])

VenueTakesRequest ==
  /\ ServerReads
  /\ InSequence(Head(toServer))
  /\ \/ /\ Head(toServer).type = "x" /\ Emit("y", 0, NoBody)
        /\ UNCHANGED venue
     \/ /\ Head(toServer).type = "D"
        /\ executed' = executed + 1
        /\ \/ order' = "open" /\ Report("0")
           \/ order' = "rejected" /\ Report("8")
        /\ UNCHANGED amended
     \/ /\ Head(toServer).type \in {"G", "F"} /\ order = "open"
        /\ executed' = executed + 1
        /\ IF Head(toServer).type = "G"
           THEN amended' = TRUE /\ Report("0") /\ UNCHANGED order
           ELSE order' = "cancelled" /\ Report("4") /\ UNCHANGED amended
     \/ /\ Head(toServer).type \in {"G", "F"} /\ order # "open"
        /\ Emit("9", 0, NoBody)
        /\ UNCHANGED venue
  /\ UNCHANGED <<session, link, history, command>>

VenueFills ==
  /\ order = "open" /\ order' = "filled" /\ at # "done"
  /\ IF Serving THEN Report("2")
     ELSE UNCHANGED <<srvLog, toClient, faults>>
  /\ UNCHANGED <<session, link, toServer, srvIn, srvGap, history, command, amended,
                 executed>>

-----------------------------------------------------------------------------
SessionStep == (Dial \/ HeartbeatTick) /\ UNCHANGED <<command, venue>>

LoopStep ==
  /\ \/ ReadFails
     \/ HandleGap \/ HandleOld \/ HandleExpected \/ HandleSequenceReset
     \/ DrainPending \/ FinishHandle \/ OnRecoveryReturns
  /\ UNCHANGED <<command, venue>>

(* Bound: the server volunteers nothing once the command has returned.     *)
ServerStep ==
  /\ \/ ServerTakesAdmin \/ ServerTakesOther \/ ServerLoses
     \/ at # "done" /\ (ServerSpeaks \/ ServerResets \/ Breaks)
  /\ UNCHANGED <<command, venue>>

CommandStep ==
  \/ LoggedOn \/ RequestSecurityList \/ SecurityListRead \/ GivesUp \/ SendWrite
  \/ ReportRead \/ RejectRead \/ NoAnswer \/ Verify \/ CommandCancels
  \/ SecurityListArrives \/ ReportArrives \/ CancelRejectArrives

Next == SessionStep \/ LoopStep \/ ServerStep \/ CommandStep \/ VenueTakesRequest \/ VenueFills

Spec == Init /\ [][Next]_vars

ServerReadsOn ==
  (ServerTakesAdmin \/ ServerTakesOther) /\ UNCHANGED <<command, venue>>

(* Run's loop and its callbacks go on, a broken connection is noticed, and *)
(* the server reads what it is sent.                                       *)
FairSpec ==
  /\ Spec
  /\ WF_vars(LoopStep)
  /\ WF_vars(SecurityListArrives \/ ReportArrives \/ CancelRejectArrives)
  /\ WF_vars(VenueTakesRequest \/ ServerReadsOn)
-----------------------------------------------------------------------------
(* Properties. *)

(* Types; the recovery buffer and the journal stay within their limits,    *)
(* the journal holds only numbers sent after the Logon                     *)
(* (rememberOutboundLocked, handle), and a command has a result exactly    *)
(* when it is done.                                                        *)
TypeOK ==
  /\ run \in {"dial", "up", "ended"}
  /\ {loggedOn, recovering, quantity, amended} \subseteq BOOLEAN
  /\ expectedIn \in Nat \ {0} /\ nextOut \in Nat \ {0}
  /\ pending \subseteq Messages /\ Cardinality(pending) <= MaxRecoveryBuffer
  /\ DOMAIN journal \subseteq 2 .. nextOut - 1
  /\ Cardinality(DOMAIN journal) <= MaxOutboundJournal
  /\ phase \in {"idle", "message", "drain", "recovery"}
  /\ phase = "message" <=> cur # NoMessage
  /\ write \in Writes
  /\ at \in {"logon", "request", "security", "write", "wait", "verify", "done"}
  /\ at = "done" <=> result # "none"

(* The venue carries the write out at most once, although resendLocked     *)
(* replays a NewOrderSingle of the journal whenever the server asks, long  *)
(* after runDeribitFIXWrite gave up on it.                                 *)
CarriedOutOnce == executed <= 1

(* handle calls OnMessage once per number and in order, through gaps,      *)
(* replays, duplicates and the buffer of early messages.                   *)
DeliveredInOrder ==
  \A i, j \in 1 .. Len(delivered) : i < j => delivered[i] < delivered[j]

(* Outside a recovery, every answer below the next expected number was     *)
(* given to OnMessage or is covered by an OnRecovery that began after it   *)
(* was passed over (handleSequenceResetLocked, finishRecoveryLocked).      *)
NothingMissed ==
  (run = "up" /\ ~recovering /\ phase # "drain") => Missing = {}

(* What placeDeribitFIX, amendDeribitFIX and cancelDeribitFIX and the      *)
(* read that follows tell the user is true of the venue: not sent,         *)
(* accepted, rejected and verified each hold of the order, whichever       *)
(* report was taken for the answer.                                        *)
ResultIsTrue ==
  /\ result = "notsent" => executed = 0
  /\ result = "accepted" => executed = 1
  /\ (result = "rejected" /\ write = "D") => order = "rejected"
  /\ (result = "rejected" /\ write # "D") => executed = 0
  /\ (result = "verified" /\ write = "G") => amended
  /\ (result = "verified" /\ write = "F") => order \in {"cancelled", "filled"}

(* Send writes a request only when every answer up to the latest one seen  *)
(* was delivered or reconciled: writes pause from the first gap until      *)
(* OnRecovery has returned.                                                *)
PausedUntilWhole ==
  [][\A type \in Requests :
       (Len(toServer') > Len(toServer) /\ Last(toServer').type = type
          /\ ~Last(toServer').dup)
         => Missing = {} /\ pending = {} /\ skipped = {}]_vars

(* A recovery ends, by OnRecovery or with the session: a gap is asked      *)
(* for, and what was asked for arrives or is reset over.                   *)
RecoveryEnds == recovering ~> (~recovering \/ run = "ended")
=============================================================================
