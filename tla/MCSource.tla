----------------------------- MODULE MCSource ------------------------------
(* An instance of Source for TLC: one tarball, which others write to.      *)
EXTENDS Source

CONSTANTS p1
Paths == {p1}
=============================================================================
