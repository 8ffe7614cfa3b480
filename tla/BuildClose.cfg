CONSTANTS
    PrepareCommands = 1
    MaxBuilds = 1
    MaxSets = 1
    MaxFaults = 0
SPECIFICATION Session
INVARIANT NotClosedUnderPrivileged
CHECK_DEADLOCK FALSE
