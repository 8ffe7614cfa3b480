SPECIFICATION Spec
CONSTANTS
  Version <- Versions
  Starts <- Computers
  MaxScans = 2
  MaxOthers = 1
  MaxRuns = 1
INVARIANTS
  TypeOK
  CancelledChangedNothing
  PruneKeepsNewest
  PreflightsAgree
CHECK_DEADLOCK FALSE
