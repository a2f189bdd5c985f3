----------------------------- MODULE MCBybitFix -----------------------------
(* Instance of BybitFix for TLC: one order, two sessions after each other. *)
EXTENDS BybitFix
=============================================================================
