---------------------------- MODULE SourceTrust ----------------------------
(***************************************************************************)
(* What the Build page promises, without its dialogs, threads and files:   *)
(* a source is trusted for a reason of its own, and what a build unpacks   *)
(* deserves the trust its log and its folder will name.                    *)
(***************************************************************************)
CONSTANTS
    Trees,     \* the contents of a tarball that unpack to one directory
    Released   \* the contents a release signer signed

VARIABLES
    trust,  \* of the source selected: "none", "verified" or "unverified"
    built   \* what is built, and the trust it was given

NothingBuilt == [content |-> "none", trust |-> "none"]

Init == trust = "none" /\ built = NothingBuilt

\* A source is selected, checked, or allowed by the user.
Judge == trust' \in {"none", "verified", "unverified"} /\ UNCHANGED built

\* A source nobody vouches for is unpacked under no build, and one that is
\* said to be verified is what was released.
Unpack(c) ==
    /\ trust # "none"
    /\ trust = "verified" => c \in Released
    /\ built' = [content |-> c, trust |-> trust]
    /\ UNCHANGED trust

\* A build ends.
End == built' = NothingBuilt /\ UNCHANGED trust

Next == Judge \/ End \/ \E c \in Trees : Unpack(c)

Spec == Init /\ [][Next]_<<trust, built>>
=============================================================================
