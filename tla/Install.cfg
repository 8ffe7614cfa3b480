SPECIFICATION Spec
CONSTANTS
  k1 = k1
  k2 = k2
  NoKernel = NoKernel
  Kver <- BuiltKernels
  Distro <- NoKernels
  Machines = {"grub", "systemd-boot", "kernelstub", "unknown"}
  MaxRuns = 2
SYMMETRY Symmetry
CONSTRAINT Reruns
CHECK_DEADLOCK FALSE
INVARIANTS
  TypeOK
  SuccessIsBootable
  SuccessIsCandid
  OtherKernelsKept
  FailureIsAsReported
PROPERTY DefaultMovesOnlyToBootable
