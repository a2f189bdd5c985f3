----------------------------- MODULE MCPlanFlow -----------------------------
(* Instances of PlanFlow for TLC.                                          *)
EXTENDS PlanFlow, TLC

ProcSymmetry == Permutations(Procs)
=============================================================================
