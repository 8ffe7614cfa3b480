---------------------------- MODULE SystemState ----------------------------
(***************************************************************************)
(* What the app reads of the machine (src/system.rs): the order of its     *)
(* kernels, Secure Boot, and how far the signing key has come; and what    *)
(* the privileged script reads of the same machine as root, before it      *)
(* installs a kernel (secure_boot_preflight).                              *)
(*                                                                         *)
(* A version is what version_key takes from its text, and its place in     *)
(* the order of `sort -V`, which is no function of that.                   *)
(* A machine has firmware and a key:                                       *)
(*   efi, mounted  it booted with EFI, and the EFI variables are mounted   *)
(*   on            the SecureBoot variable                                 *)
(*   validation    shim validates (mokutil --disable-validation)           *)
(*   mokutil, sbsign  the tools are installed                              *)
(*   key           the three files of the key are there                    *)
(*   enrolled      it is in the MOK list                                   *)
(*   queued        it is in the request that waits (MokNew)                *)
(*   listed        /var/lib/mok-pending/list names it, and MokNew has the  *)
(*                 size that list was written for                          *)
(***************************************************************************)
EXTENDS Integers, Sequences, FiniteSets

Machine == [efi : BOOLEAN, mounted : BOOLEAN, on : BOOLEAN, validation : BOOLEAN,
            mokutil : BOOLEAN, sbsign : BOOLEAN, key : BOOLEAN, enrolled : BOOLEAN,
            queued : BOOLEAN, listed : BOOLEAN]

NoRc == -1

VersionKey(v) ==
    v.release \o (IF v.rc = NoRc THEN <<1>> ELSE <<0, v.rc>>) \o v.rest

\* Vec<u32> is ordered lexicographically, a prefix first.
Earlier(a, b) ==
    \E i \in 1..Len(b) :
        /\ \A j \in 1..(i - 1) : j <= Len(a) /\ a[j] = b[j]
        /\ i > Len(a) \/ a[i] < b[i]

Newer(v, w) == Earlier(VersionKey(w), VersionKey(v))

\* Mutant: the kernels are kept in the order of the list, the running one first.
PruneCandidatesAsListed(kernels, keep, running) ==
    {kernels \ kept : kept \in
        {K \in SUBSET kernels :
            /\ Cardinality(K) = IF keep < Cardinality(kernels) THEN keep ELSE Cardinality(kernels)
            /\ running \in kernels => running \in K
            /\ \A v \in K \ {running}, w \in kernels \ K : ~Newer(w, v)}}

\* prune_candidates: all but the newest `keep` and the running one.  Which of
\* two equals counts as newer depends on the order of the directory.
PruneCandidates(kernels, keep, running) ==
    {(kernels \ kept) \ {running} : kept \in
        {K \in SUBSET kernels :
            /\ Cardinality(K) = IF keep < Cardinality(kernels) THEN keep ELSE Cardinality(kernels)
            /\ \A v \in K, w \in kernels \ K : ~Newer(w, v)}}

\* newest_kver_in_list, by sort -V: at most one.
NewestInList(kernels) == {v \in kernels : \A w \in kernels : w.sorted <= v.sorted}

-----------------------------------------------------------------------------
(* The app's view.                                                         *)

\* mokutil --sb-state, with "none" when there is no mokutil.
MokutilState(m) ==
    IF ~m.mokutil THEN "none"
    ELSE IF ~m.efi \/ ~m.mounted THEN "unknown"
    ELSE IF m.on /\ m.validation THEN "enabled" ELSE "disabled"

EfiVariable(m) ==
    IF ~m.mounted THEN "unknown" ELSE IF m.on THEN "enabled" ELSE "disabled"

\* Mutant: shim's validation switch is not asked for.
CombineByVariable(efi, mokutil) ==
    IF efi = "unknown" /\ mokutil # "none" THEN mokutil ELSE efi

CombineSecureBoot(efi, mokutil) ==
    IF mokutil = "disabled" THEN "disabled"
    ELSE IF efi = "unknown" /\ mokutil # "none" THEN mokutil
    ELSE efi

DetectSecureBoot(m) ==
    IF ~m.efi THEN "disabled"
    ELSE CombineSecureBoot(EfiVariable(m), MokutilState(m))

\* mokutil --test-key for a user, who cannot read MokNew.
TestKey(m) ==
    IF ~m.mokutil THEN "none"
    ELSE IF ~m.efi THEN "none"
    ELSE IF ~m.mounted THEN "unmounted"
    ELSE IF m.enrolled THEN "enrolled" ELSE "not enrolled"

\* key_pending: MokNew can be measured, not read.
KeyPending(m) == m.efi /\ m.mounted /\ m.listed

CombineKernelSigning(key, test, pending) ==
    IF ~key THEN "NoKey"
    ELSE IF test = "enrolled" THEN "Enrolled"
    ELSE IF pending THEN "EnrollmentPending"
    ELSE IF test = "not enrolled" THEN "KeyNotEnrolled"
    ELSE IF test = "unmounted" THEN "EfiVarsNotMounted"
    ELSE "Unknown"

DetectKernelSigning(m) == CombineKernelSigning(m.key, TestKey(m), KeyPending(m))

\* install_blocker.
InstallBlocked(secureBoot, signing) ==
    secureBoot = "enabled" /\ signing \notin {"Enrolled", "EnrollmentPending"}

-----------------------------------------------------------------------------
(* The script's, as root.                                                  *)

\* ensure_efivarfs, when it can.
Mounted(m) == [m EXCEPT !.mounted = m.efi]

SecureBootEnforcing(m) ==
    LET said == MokutilState(m)
    IN IF said \in {"enabled", "disabled"} THEN said = "enabled"
       ELSE m.efi /\ m.mounted /\ m.on

KeyEnrollmentState(m) ==
    IF ~m.mokutil \/ ~m.mounted THEN "unknown"
    ELSE IF m.enrolled THEN "enrolled"
    ELSE IF m.queued THEN "pending" ELSE "not-enrolled"

\* secure_boot_preflight lets an install go on.
PreflightPasses(m) ==
    SecureBootEnforcing(m) =>
        m.key /\ m.sbsign /\ KeyEnrollmentState(m) \in {"enrolled", "pending"}
=============================================================================
