--------------------------- MODULE MCInstallPage ---------------------------
(* An instance of InstallPage for TLC: a release built twice, so that both    *)
(* look alike, and another without headers, from source nobody vouched for.  *)
EXTENDS InstallPage, TLC

CONSTANTS r1, r2, b1, b2, b3, image, headers

Releases   == {r1, r2}
Names      == {image, headers}
Builds     == {b1, b2, b3}
Debs       == (b1 :> Names) @@ (b2 :> Names) @@ (b3 :> {image})
BuiltAs    == (b1 :> r1) @@ (b2 :> r1) @@ (b3 :> r2)
Sessions   == {b1, b3}
Unvouched  == {b3}
=============================================================================
