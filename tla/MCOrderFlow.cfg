CONSTANTS
  Orders = {o1}
  Qty = 2
  NoOrder = NoOrder
  NoCum = NoCum
  QueueSize = 2
  MaxFaults = 2
  MaxReconciles = 1
  Stream = Stream
  Command = Command
SPECIFICATION Spec
INVARIANTS
  StatusHappened
  CountedOnce
  LateAnswerAbsorbed
CHECK_DEADLOCK FALSE
