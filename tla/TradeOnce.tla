----------------------------- MODULE TradeOnce -----------------------------
(***************************************************************************)
(* What Quick Trade promises of one quote, with no store, goroutine, cache *)
(* or crash in sight: a quote is reserved for one trade, marked before its *)
(* order is sent, sent at most once, and its verdict, once given, stays,   *)
(* except that a cancelled order may turn out to have filled.              *)
(***************************************************************************)
CONSTANTS QuoteIds

VARIABLES
  phase,     \* how far the quote has come
  verdict    \* what its owner is told about it

Phases == {"open", "reserved", "marked", "sent"}

Verdicts == {"none", "filled", "cancelled", "rejected"}

onceVars == <<phase, verdict>>

Advance(q, from, to) ==
  /\ phase[q] = from
  /\ phase' = [phase EXCEPT ![q] = to]
  /\ UNCHANGED verdict

Reserve(q) == Advance(q, "open", "reserved")

(* Only a trade without a verdict is marked for sending.                   *)
Mark(q) == verdict[q] = "none" /\ Advance(q, "reserved", "marked")

Send(q) == Advance(q, "marked", "sent")

(* A fill or a cancellation is the verdict on an order that was sent.      *)
Conclude(q, v) ==
  /\ verdict[q] = "none" \/ (verdict[q] = "cancelled" /\ v = "filled")
  /\ IF v = "rejected" THEN phase[q] # "open" ELSE phase[q] = "sent"
  /\ verdict' = [verdict EXCEPT ![q] = v]
  /\ UNCHANGED phase

OnceInit ==
  /\ phase = [q \in QuoteIds |-> "open"]
  /\ verdict = [q \in QuoteIds |-> "none"]

OnceNext ==
  \E q \in QuoteIds :
    \/ Reserve(q)
    \/ Mark(q)
    \/ Send(q)
    \/ \E v \in Verdicts \ {"none"} : Conclude(q, v)

OnceSpec == OnceInit /\ [][OnceNext]_onceVars
=============================================================================
