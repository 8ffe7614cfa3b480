CONSTANTS
    PrepareCommands = 2
    MaxBuilds = 3
    MaxSets = 3
    MaxFaults = 2
SPECIFICATION FairSession
INVARIANTS
    SessionTypeOK
    NothingRunsUnattended
    CancelledLeavesNothing
    DiscardIsAlone
    ClosedAfterBuild
    OutIsWhole
    OneFaultLosesNothing
PROPERTY
    CancelStopsBuild
CHECK_DEADLOCK FALSE
