------------------------------ MODULE MCEnroll ------------------------------
(* Instance of Enroll for TLC: Kernel Pop's key, the DKMS key, the key of   *)
(* another app and an entry that is a hash.                                 *)
EXTENDS Enroll, Naturals

CONSTANTS other, hash

AllCerts == {Own, Dkms, other}
AllHashes == {hash}

In(e, K) == IF e \in K THEN 1 ELSE 0

\* Two certificates have the same length: some requests have the same size.
RequestSizes ==
    [K \in SUBSET (AllCerts \cup AllHashes) |->
        In(Own, K) + 2 * In(Dkms, K) + 2 * In(other, K) + 8 * In(hash, K)]
=============================================================================
