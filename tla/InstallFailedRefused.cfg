SPECIFICATION Spec
CONSTANTS
  k1 = k1
  k2 = k2
  NoKernel = NoKernel
  Kver <- BuiltKernels
  Distro <- NoKernels
  Machines = {"systemd-boot"}
  MaxRuns = 1
SYMMETRY Symmetry
CHECK_DEADLOCK FALSE
INVARIANT FailureInstallsNothingRefused
