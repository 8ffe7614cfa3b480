------------------------------ MODULE MCBuild ------------------------------
(* Instance of BuildSession for TLC; the bounds are given in the           *)
(* configurations.                                                         *)
EXTENDS BuildSession
=============================================================================
