CONSTANTS
  Orders = {o1}
  Qty = 2
  NoOrder = NoOrder
  NoCum = NoCum
  QueueSize = 1
  MaxFaults = 3
  MaxReconciles = 0
  Stream = Stream
  Command = Command
SPECIFICATION FairSpec
PROPERTY DoneIsKnown
CHECK_DEADLOCK FALSE
