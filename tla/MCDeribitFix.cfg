SPECIFICATION FairSpec
CONSTANTS
  MaxRecoveryBuffer = 1
  MaxOutboundJournal = 2
  MaxIn = 4
  MaxOut = 4
  MaxFaults = 1
  NoMessage = NoMessage
  NoBody = NoBody
  ReportQueue = 1
  ReportForms = {"full", "noqty"}
INVARIANTS TypeOK CarriedOutOnce DeliveredInOrder NothingMissed ResultIsTrue
PROPERTIES PausedUntilWhole RecoveryEnds
CHECK_DEADLOCK FALSE
