CONSTANTS
  Orders = {o1}
  Qty = 2
  NoOrder = NoOrder
  NoCum = NoCum
  MaxIn = 2
  MaxOut = 2
  MaxFaults = 1
  NoUpdate = NoUpdate
SPECIFICATION FairSpec
INVARIANTS
  NumberedFromLogon
  FinalIsTrue
  CaughtUp
PROPERTY DoneIsKnown
CHECK_DEADLOCK FALSE
