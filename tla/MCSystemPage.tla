---------------------------- MODULE MCSystemPage ----------------------------
(* An instance of SystemPage for TLC: 7.4.0-rc1-kernelpop, 7.4.0-76-generic  *)
(* and 7.4.0-kernelpop, which the app and sort -V do not order alike.        *)
EXTENDS SystemPage

Of(rc, rest, sorted) == [release |-> <<7, 4, 0>>, rc |-> rc, rest |-> rest, sorted |-> sorted]
Versions == {Of(1, <<>>, 1), Of(NoRc, <<76>>, 2), Of(NoRc, <<>>, 3)}

Bits == {"mounted", "on", "validation", "mokutil", "sbsign", "key", "enrolled", "queued", "listed"}
Machines == [{"efi"} \cup Bits -> BOOLEAN]
Usual == [b \in {"efi"} \cup Bits |-> b \notin {"queued", "listed", "enrolled"}]

\* Every machine with one kernel, and every set of kernels on one machine.
Computers ==
    {[machine |-> m, kernels |-> {Of(1, <<>>, 1)}, running |-> Of(1, <<>>, 1)] : m \in Machines}
    \cup {[machine |-> Usual, kernels |-> K \cup {v}, running |-> v] : K \in SUBSET Versions, v \in Versions}
=============================================================================
