---------------------------- MODULE MCOrderFlow -----------------------------
(* Small instances of the command line's order flow.                       *)
EXTENDS OrderFlow, TLC

MCSymmetry == Permutations(Orders)
=============================================================================
