\* One plan, executed and reconciled by two processes; someone else's order may
\* carry its label.
SPECIFICATION Spec
CONSTANTS
  Orders = {p1}
  Procs = {c1, c2}
  Foreign = {p1}
  Qty = 1
  NoOrder = NoOrder
  NoCum = NoCum
  NoPlan = NoPlan
  NoID = NoID
  MaxOpenOrders = 1
  MaxRuns = 4
SYMMETRY ProcSymmetry
INVARIANTS TypeOK PlacedOnce WriteAhead RejectedIsTrue SubmittedIsTrue FileHappened
CHECK_DEADLOCK FALSE
