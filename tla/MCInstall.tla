----------------------------- MODULE MCInstall -----------------------------
(* Instances of Install for TLC: two kernels built from source, and no     *)
(* other, which makes them interchangeable.  A second package run, after a *)
(* first install or after an update that was cut off, is explored on       *)
(* systemd-boot only, the loader with a copy of its own per kernel.        *)
EXTENDS Install, TLC

CONSTANTS k1, k2

BuiltKernels == {k1, k2}
NoKernels    == {}
Symmetry     == Permutations(BuiltKernels)
Reruns       == runs <= 1 \/ bl = "systemd-boot"
=============================================================================
