----------------------------- MODULE MCManage -----------------------------
(* Instances of Manage for TLC.                                            *)
EXTENDS Manage

ThreeKernels == 1..3
TwoKernels   == 1..2
NoDistro     == {}
AllLoaders   == Loaders
=============================================================================
