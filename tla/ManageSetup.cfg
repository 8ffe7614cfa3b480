SPECIFICATION Spec
CONSTANTS
    Kver <- TwoKernels
    Distro <- NoDistro
    NoKernel = 0
    Machines <- AllLoaders
    MaxRuns = 2
    MaxOthers = 0
INVARIANTS
    SetupReachesLoader
CHECK_DEADLOCK FALSE
