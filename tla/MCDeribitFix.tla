---------------------------- MODULE MCDeribitFix ----------------------------
(* Small instances of a write over Deribit FIX.                            *)
EXTENDS DeribitFixWrite
=============================================================================
