SPECIFICATION FairSpec
CONSTANTS
  Scenarios <- MCScenarios
  NoAccount = NoAccount
  NoPage = NoAccount
  MaxChanges = 2
  MaxRevalues = 1
  QueueSize = 1
  BufferSize = 1
  ControlSize = 1
  WireSize = 1
  TriggerSize = 1
  MaxOther = 1
  MaxIdle = 0
  MaxFaults = 1
INVARIANTS
  NothingUnannounced
  StreamsKeepUp
PROPERTIES
  ChangeIsShown
CHECK_DEADLOCK FALSE
