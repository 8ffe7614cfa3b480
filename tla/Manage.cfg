SPECIFICATION Spec
CONSTANTS
    Kver <- ThreeKernels
    Distro <- NoDistro
    NoKernel = 0
    Machines <- AllLoaders
    MaxRuns = 1
    MaxOthers = 2
INVARIANTS
    TypeOK
    KernelsKept
    RemovedLeavesMenu
    SignReachesLoader
PROPERTY
    KeepsImages
CHECK_DEADLOCK FALSE
