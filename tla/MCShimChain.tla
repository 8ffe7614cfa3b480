---------------------------- MODULE MCShimChain ----------------------------
(* Instances of ShimChain for TLC.                                         *)
EXTENDS ShimChain

AllLayouts == {"direct", "fallback", "shim", "signed-over"}
=============================================================================
