----------------------------- MODULE ShimChain -----------------------------
(***************************************************************************)
(* shim in front of systemd-boot: the part of do_setup_signing in          *)
(* scripts/privileged-install.sh that changes what the firmware starts     *)
(* (install_shim_packages, queue_key_enrollment in outline,                *)
(* setup_shim_chain), and the apt hook that keeps systemd-boot signed.     *)
(*                                                                         *)
(* The setup holds no package lock here: apt may upgrade systemd-boot      *)
(* between any two of its steps, and the hook then runs sign_boot_loader   *)
(* beside it.  The machine may stop at any step.  Assumed of the firmware: *)
(* it starts the first entry that works, and BOOTX64.EFI if none does;     *)
(* with Secure Boot on it starts shim and nothing else.                    *)
(***************************************************************************)
EXTENDS Naturals

CONSTANTS
    Layouts,      \* how the computers are booted when Kernel Pop first runs
    MaxSetups,    \* bound: runs of the setup
    MaxUpgrades   \* bound: upgrades of systemd-boot

ASSUME ShimChainAssumption ==
    /\ Layouts \subseteq {"direct", "fallback", "shim", "signed-over"}
    /\ MaxSetups \in Nat /\ MaxUpgrades \in Nat

VARIABLES
    src,       \* the version of systemd-bootx64.efi its package holds
    ships,     \* a package holds systemd-bootx64.efi.signed too
    signed,    \* systemd-bootx64.efi.signed
    stamp,     \* the version it was signed from, 0 when there is no stamp
    lib,       \* shim-signed is installed
    hook,      \* the apt hook is installed
    \* the ESP and the firmware
    esp,       \* EFI/systemd/systemd-bootx64.efi
    vendor,    \* of shim, fb and mm, those in EFI/<vendor>
    fallback,  \* EFI/BOOT/BOOTX64.EFI
    beside,    \* fbx64.efi is next to it
    csv,       \* BOOTX64.CSV names systemd-boot
    entries,   \* the firmware entries
    sb,        \* Secure Boot
    key, mok,  \* the key is there; it waits, or is enrolled
    \* the processes
    apt,       \* an upgrade under way
    pc,        \* the next step of the setup and of the hook
    want, tmp, \* sign_boot_loader: the version it signs, and what it signed
    chainOk,   \* chain_ok
    result,    \* how the last setup ended
    chained,   \* history: a setup has reported the boot path
    listed,    \* history: the firmware had an entry when Kernel Pop first ran
    setups     \* counter of the bound

packageVars  == <<src, ships, lib, hook>>
loaderVars   == <<signed, stamp>>
espVars      == <<esp, vendor, fallback, beside, csv>>
firmwareVars == <<entries, sb, mok>>
runVars      == <<chainOk, result, chained>>
vars == <<packageVars, loaderVars, espVars, firmwareVars, key, apt, pc, want, tmp, runVars,
          listed, setups>>

Proc  == {"setup", "hook"}
Files == {"shim", "fb", "mm"}

\* A systemd-boot: its version and who signed it.
Loader == [ver : 0..(MaxUpgrades + 1), by : {"nobody", "ours", "distro"}]
NoFile == [ver |-> 0, by |-> "nobody"]
SignedBy(who, v) == [ver |-> v, by |-> who]

Signing == {"judge", "sign", "replace", "stamp", "refresh", "update", "keep", "check", "prune"}
Setup   == {"key", "packages", "queue", "import", "restore", "restored"} \cup Files
           \cup {"fallback", "beside", "csv", "entry", "last-prune", "hooks"}

TypeOK ==
    /\ src \in 1..(MaxUpgrades + 1) /\ ships \in BOOLEAN /\ lib \in BOOLEAN /\ hook \in BOOLEAN
    /\ signed \in Loader /\ stamp \in 0..(MaxUpgrades + 1)
    /\ esp \in Loader /\ vendor \subseteq Files /\ fallback \in {"systemd-boot", "shim"}
    /\ beside \in BOOLEAN /\ csv \in BOOLEAN
    /\ entries \subseteq {"shim", "direct"} /\ sb \in BOOLEAN
    /\ key \in BOOLEAN /\ (hook => key) /\ mok \in {"none", "queued", "enrolled"}
    /\ apt \in {"idle", "unpacked"}
    /\ pc \in [Proc -> Setup \cup Signing \cup {"off"}] /\ pc["hook"] \in Signing \cup {"off"}
    /\ want \in [Proc -> 0..(MaxUpgrades + 1)] /\ tmp \in [Proc -> Loader]
    /\ chainOk \in BOOLEAN /\ chained \in BOOLEAN
    /\ result \in {"none", "not-queued", "no-chain", "done"}
    /\ setups \in 0..MaxSetups /\ listed \in BOOLEAN

-----------------------------------------------------------------------------
(* Booting.                                                                *)

\* shim starts systemd-boot: what the distribution signed, or we, when the key
\* is enrolled or MOK Manager is there to enroll it.
ShimStarts(secure) ==
    /\ "shim" \in vendor /\ esp # NoFile
    /\ secure => \/ esp.by = "distro"
                 \/ esp.by = "ours" /\ mok = "enrolled"
                 \/ esp.by = "ours" /\ mok = "queued" /\ "mm" \in vendor

\* BOOTX64.EFI: shim there starts fbx64, which makes the entry that the CSV
\* describes.
FallbackStarts(secure) ==
    IF fallback = "shim" THEN beside /\ csv /\ ShimStarts(secure) ELSE ~secure

Boots ==
    \/ "shim" \in entries /\ ShimStarts(sb)
    \/ "direct" \in entries /\ ~sb
    \/ FallbackStarts(sb)

\* The machine the setup meets: the firmware starts systemd-boot by an entry of
\* its own, or by BOOTX64.EFI; or Ubuntu's systemd-boot package has put shim in
\* front; or an earlier version of the setup has, and has signed over what the
\* distribution had signed.
Init ==
    /\ \E layout \in Layouts :
         LET over == layout = "signed-over"
             shim == layout \in {"shim", "signed-over"}
         IN /\ src = 1 /\ ships \in BOOLEAN /\ (over => ships)
            /\ signed = IF over THEN SignedBy("ours", 1)
                        ELSE IF ships THEN SignedBy("distro", 1) ELSE NoFile
            /\ esp = IF signed = NoFile THEN SignedBy("nobody", 1) ELSE signed
            /\ stamp = (IF over THEN 1 ELSE 0) /\ hook = over /\ key = over
            /\ mok \in (IF over THEN {"queued", "enrolled"} ELSE {"none"})
            /\ lib \in BOOLEAN /\ (shim => lib)
            /\ vendor = IF shim THEN Files ELSE {}
            /\ fallback \in (IF shim THEN {"systemd-boot", "shim"} ELSE {"systemd-boot"})
            /\ beside = (fallback = "shim") /\ csv = (fallback = "shim")
            /\ entries \in CASE shim -> {{"shim"}, {"shim", "direct"}}
                             [] layout = "direct" -> {{"direct"}}
                             [] OTHER -> {{}}
            /\ sb \in BOOLEAN /\ (mok = "queued" => ~sb) /\ Boots
            /\ listed = (entries # {})
    /\ apt = "idle" /\ pc = [p \in Proc |-> "off"]
    /\ want = [p \in Proc |-> 0] /\ tmp = [p \in Proc |-> NoFile]
    /\ chainOk = TRUE /\ result = "none" /\ chained = FALSE /\ setups = 0

-----------------------------------------------------------------------------
(* Control.                                                                *)

Goto(p, step) == pc' = [pc EXCEPT ![p] = step]

\* setup_shim_chain returns 1: a SIGN WARNING, and the setup goes on.
NoChain == Goto("setup", "hooks") /\ chainOk' = FALSE /\ UNCHANGED <<result, chained>>

\* sign_boot_loader has failed; do_sign_boot_loader ignores it.
SignFails(p) ==
    IF p = "setup" THEN NoChain ELSE Goto(p, "off") /\ UNCHANGED runVars

\* Mutant: the hook goes on with the rest of the chain, as the setup does.
SignEndsAnywhere(p) == Goto(p, "shim") /\ UNCHANGED runVars

\* ... and has not.
SignEnds(p) == Goto(p, IF p = "setup" THEN "shim" ELSE "off") /\ UNCHANGED runVars

-----------------------------------------------------------------------------
(* sign_boot_loader, by the setup or by the hook.                          *)

SignOnly ==
    UNCHANGED <<packageVars, vendor, fallback, beside, csv, sb, mok, key, apt, listed, setups>>

\* A .signed copy that a package holds and the distribution signed is kept.
\* Else it is signed again if the package has a new binary.  The binary and the
\* ESP are looked for first; the key is there by now.
Judge(p) ==
    /\ pc[p] = "judge"
    /\ \/ SignFails(p) /\ UNCHANGED want
       \/ /\ UNCHANGED runVars
          /\ IF ships /\ signed.by = "distro"
             THEN Goto(p, "refresh") /\ UNCHANGED want
             ELSE /\ want' = [want EXCEPT ![p] = src]
                  /\ Goto(p, IF stamp # src \/ signed.by # "ours" THEN "sign" ELSE "update")
    /\ UNCHANGED <<loaderVars, esp, entries, tmp>> /\ SignOnly

\* sbsign reads the binary that is there now.
Sign(p) ==
    /\ pc[p] = "sign"
    /\ \/ SignFails(p) /\ UNCHANGED tmp
       \/ /\ tmp' = [tmp EXCEPT ![p] = SignedBy("ours", src)]
          /\ Goto(p, "replace") /\ UNCHANGED runVars
    /\ UNCHANGED <<loaderVars, esp, entries, want>> /\ SignOnly

Replace(p) ==
    /\ pc[p] = "replace"
    /\ signed' = tmp[p] /\ tmp' = [tmp EXCEPT ![p] = NoFile]
    /\ Goto(p, "stamp")
    /\ UNCHANGED <<stamp, esp, entries, want, runVars>> /\ SignOnly

Stamp(p) ==
    /\ pc[p] = "stamp"
    /\ stamp' = want[p]
    /\ Goto(p, "update")
    /\ UNCHANGED <<signed, esp, entries, want, tmp, runVars>> /\ SignOnly

\* bootctl takes the .signed copy if there is one, and copies what is newer than
\* the copy on the ESP; or it fails.
BootctlCopies(now, s, v) ==
    LET offered == IF s = NoFile THEN SignedBy("nobody", v) ELSE s
    IN {now} \cup (IF offered.ver > now.ver THEN {offered} ELSE {})

BootctlUpdate(p) ==
    /\ pc[p] \in {"refresh", "update"}
    /\ esp' \in BootctlCopies(esp, signed, src)
    /\ Goto(p, IF pc[p] = "refresh" THEN "keep" ELSE "check")
    /\ UNCHANGED <<loaderVars, entries, want, tmp, runVars>> /\ SignOnly

\* The copy on the ESP is the distribution's, or carries our signature, or is
\* replaced: bootctl skips a copy of the same version.
InstallLoader(p) ==
    /\ \/ pc[p] = "keep" /\ esp # signed
       \/ pc[p] = "check" /\ esp.by # "ours"
    /\ \/ esp' = signed /\ Goto(p, "prune") /\ UNCHANGED runVars
       \/ SignFails(p) /\ UNCHANGED esp
    /\ UNCHANGED <<loaderVars, entries, want, tmp>> /\ SignOnly

LoaderInPlace(p) ==
    /\ \/ pc[p] = "keep" /\ esp = signed
       \/ pc[p] = "check" /\ esp.by = "ours"
    /\ Goto(p, "prune")
    /\ UNCHANGED <<loaderVars, esp, entries, want, tmp, runVars>> /\ SignOnly

\* Mutant: the entries go whether or not there is one for shim.
PruneAlways == entries' \in {entries, entries \ {"direct"}}

\* prune_direct_sdboot_entries: only where shim has an entry.  efibootmgr may fail.
PruneDirect ==
    IF "shim" \in entries THEN entries' \in {entries, entries \ {"direct"}} ELSE UNCHANGED entries

Prune(p) ==
    /\ pc[p] = "prune"
    /\ PruneDirect /\ SignEnds(p)
    /\ UNCHANGED <<loaderVars, esp, want, tmp>> /\ SignOnly

SignBootLoader(p) ==
    \/ Judge(p) \/ Sign(p) \/ Replace(p) \/ Stamp(p)
    \/ BootctlUpdate(p) \/ InstallLoader(p) \/ LoaderInPlace(p) \/ Prune(p)

-----------------------------------------------------------------------------
(* The setup: key, packages, request.                                      *)

SetupSame == UNCHANGED <<want, tmp, listed, setups>>

\* Every package run ends with the apt hook, and the setup waits for its own.
HookRuns == IF hook THEN Goto("hook", "judge") ELSE UNCHANGED pc

Start ==
    /\ pc["setup"] = "off" /\ setups < MaxSetups
    /\ setups' = setups + 1 /\ chainOk' = TRUE /\ result' = "none"
    /\ Goto("setup", "key")
    /\ UNCHANGED <<packageVars, loaderVars, espVars, firmwareVars, key, apt, want, tmp, chained,
                   listed>>

\* generate_signing_key, which keeps a key that is there.
GenerateKey ==
    /\ pc["setup"] = "key"
    /\ \/ key' = TRUE /\ Goto("setup", "packages") /\ UNCHANGED runVars
       \/ /\ ~key /\ result' = "not-queued" /\ Goto("setup", "off")
          /\ UNCHANGED <<key, chainOk, chained>>
    /\ UNCHANGED <<packageVars, loaderVars, espVars, firmwareVars, apt>> /\ SetupSame

\* install_shim_packages: the placeholder and shim-signed, or chain_ok is 0.
InstallShimPackages ==
    /\ pc["setup"] = "packages"
    /\ \/ lib /\ Goto("setup", "queue") /\ UNCHANGED <<lib, chainOk>>
       \/ ~lib /\ Goto("setup", "queue") /\ chainOk' = FALSE /\ UNCHANGED lib
       \/ /\ ~lib /\ apt = "idle" /\ pc["hook"] = "off"
          /\ lib' = TRUE /\ UNCHANGED chainOk
          /\ pc' = [setup |-> "queue", hook |-> IF hook THEN "judge" ELSE "off"]
    /\ UNCHANGED <<src, ships, hook, loaderVars, espVars, firmwareVars, key, apt, result, chained>>
    /\ SetupSame

QueueFails == result' = "not-queued" /\ Goto("setup", "off") /\ UNCHANGED <<chainOk, chained>>
Queued == Goto("setup", IF chainOk THEN "restore" ELSE "hooks") /\ UNCHANGED runVars

\* queue_key_enrollment: a request that waits is revoked first (see Enroll).
QueueKey ==
    /\ pc["setup"] = "queue" /\ pc["hook"] = "off"
    /\ \/ mok = "enrolled" /\ Queued /\ UNCHANGED mok
       \/ QueueFails /\ UNCHANGED mok
       \/ mok # "enrolled" /\ mok' = "none" /\ Goto("setup", "import") /\ UNCHANGED runVars
    /\ UNCHANGED <<packageVars, loaderVars, espVars, entries, sb, key, apt>> /\ SetupSame

ImportKey ==
    /\ pc["setup"] = "import"
    /\ \/ mok' = "queued" /\ Queued
       \/ QueueFails /\ UNCHANGED mok
    /\ UNCHANGED <<packageVars, loaderVars, espVars, entries, sb, key, apt>> /\ SetupSame

-----------------------------------------------------------------------------
(* setup_shim_chain.                                                       *)

\* restore_distribution_sdboot: what an earlier version signed over is put back by
\* reinstalling its package.
RestoreDistribution ==
    /\ pc["setup"] = "restore"
    /\ \/ Goto("setup", "restored") /\ UNCHANGED <<loaderVars, esp, entries>>
       \/ /\ ships /\ signed.by = "ours" /\ apt = "idle" /\ pc["hook"] = "off"
          /\ signed' = SignedBy("distro", src) /\ stamp' = 0
          /\ esp' \in BootctlCopies(esp, signed', src)
          /\ entries' \in {entries, entries \cup {"direct"}}
          /\ pc' = [setup |-> "restored", hook |-> IF hook THEN "judge" ELSE "off"]
    /\ UNCHANGED runVars
    /\ UNCHANGED <<packageVars, vendor, fallback, beside, csv, sb, mok, key, apt>> /\ SetupSame

\* systemd-boot is signed once that package run is over.
SignFirst ==
    /\ pc["setup"] = "restored" /\ pc["hook"] = "off"
    /\ Goto("setup", "judge")
    /\ UNCHANGED <<packageVars, loaderVars, espVars, firmwareVars, key, apt, runVars>> /\ SetupSame

ChainSame == UNCHANGED <<packageVars, loaderVars, esp, sb, mok, key, apt>> /\ SetupSame

After(f) == CASE f = "shim" -> "fb" [] f = "fb" -> "mm" [] f = "mm" -> "fallback"

\* esp_install of shim, fallback loader and MOK Manager: as a whole, or not at all.
InstallVendorFile(f) ==
    /\ pc["setup"] = f
    /\ \/ vendor' = vendor \cup {f} /\ Goto("setup", After(f)) /\ UNCHANGED runVars
       \/ f \notin vendor /\ NoChain /\ UNCHANGED vendor
    /\ UNCHANGED <<fallback, beside, csv, entries>> /\ ChainSame

\* The fallback path: shim, and fbx64 next to it.
InstallFallback ==
    /\ pc["setup"] = "fallback"
    /\ \/ fallback' = "shim" /\ Goto("setup", "beside") /\ UNCHANGED runVars
       \/ fallback # "shim" /\ NoChain /\ UNCHANGED fallback
    /\ UNCHANGED <<vendor, beside, csv, entries>> /\ ChainSame

\* Mutant: a copy that fails is only warned about.
InstallBesideLenient ==
    /\ pc["setup"] = "beside"
    /\ beside' \in {TRUE, beside} /\ Goto("setup", "csv") /\ UNCHANGED runVars
    /\ UNCHANGED <<vendor, fallback, csv, entries>> /\ ChainSame

InstallBeside ==
    /\ pc["setup"] = "beside"
    /\ \/ beside' = TRUE /\ Goto("setup", "csv") /\ UNCHANGED runVars
       \/ ~beside /\ NoChain /\ UNCHANGED beside
    /\ UNCHANGED <<vendor, fallback, csv, entries>> /\ ChainSame

\* BOOTX64.CSV is written in place.
WriteCsv ==
    /\ pc["setup"] = "csv"
    /\ \/ csv' = TRUE /\ Goto("setup", "entry") /\ UNCHANGED runVars
       \/ ~csv /\ NoChain /\ UNCHANGED csv
    /\ UNCHANGED <<vendor, fallback, beside, entries>> /\ ChainSame

CreateEntry ==
    /\ pc["setup"] = "entry"
    /\ \/ entries' = entries \cup {"shim"} /\ Goto("setup", "last-prune") /\ UNCHANGED runVars
       \/ "shim" \notin entries /\ NoChain /\ UNCHANGED entries
    /\ UNCHANGED <<vendor, fallback, beside, csv>> /\ ChainSame

\* The direct entries go, and the setup names the boot path.
FinishChain ==
    /\ pc["setup"] = "last-prune"
    /\ PruneDirect
    /\ chained' = TRUE /\ Goto("setup", "hooks") /\ UNCHANGED <<chainOk, result>>
    /\ UNCHANGED <<vendor, fallback, beside, csv>> /\ ChainSame

\* install_signing_hooks.
InstallHooks ==
    /\ pc["setup"] = "hooks"
    /\ hook' = TRUE /\ result' = IF chainOk THEN "done" ELSE "no-chain"
    /\ Goto("setup", "off")
    /\ UNCHANGED <<src, ships, lib, loaderVars, espVars, firmwareVars, key, apt, chainOk, chained>>
    /\ SetupSame

SetupStep ==
    \/ Start \/ GenerateKey \/ InstallShimPackages \/ QueueKey \/ ImportKey
    \/ RestoreDistribution \/ SignFirst \/ \E f \in Files : InstallVendorFile(f)
    \/ InstallFallback \/ InstallBeside \/ WriteCsv \/ CreateEntry \/ FinishChain \/ InstallHooks

-----------------------------------------------------------------------------
(* apt, the firmware and the user.                                         *)

\* A new systemd-boot is unpacked; its package may have begun to hold a .signed
\* copy.
AptUnpack ==
    /\ apt = "idle" /\ pc["hook"] = "off" /\ src <= MaxUpgrades
    /\ apt' = "unpacked" /\ src' = src + 1
    /\ ships' \in {ships, TRUE}
    /\ signed' = IF ships' THEN SignedBy("distro", src') ELSE signed
    /\ UNCHANGED <<lib, hook, stamp, espVars, firmwareVars, key, pc, want, tmp, runVars, listed, setups>>

\* Its postinst runs bootctl, which adds its own entries again; then the hook.
AptConfigure ==
    /\ apt = "unpacked" /\ apt' = "idle"
    /\ esp' \in BootctlCopies(esp, signed, src)
    /\ entries' \in {entries, entries \cup {"direct"}}
    /\ HookRuns
    /\ UNCHANGED <<packageVars, loaderVars, vendor, fallback, beside, csv, sb, mok, key, want, tmp,
                   runVars, listed, setups>>

\* The machine stops, at any step, and starts again: shim shows MOK Manager, and
\* fbx64 makes the entry if BOOTX64.EFI was needed.
Restart ==
    /\ Boots
    /\ pc' = [p \in Proc |-> "off"] /\ tmp' = [p \in Proc |-> NoFile] /\ apt' = "idle"
    /\ LET byShim == \/ "shim" \in entries /\ ShimStarts(sb)
                     \/ ("direct" \in entries => sb) /\ fallback = "shim"
       IN /\ mok' \in (IF byShim /\ mok = "queued" /\ "mm" \in vendor
                       THEN {"queued", "none", "enrolled"} ELSE {mok})
          /\ entries' = IF byShim THEN entries \cup {"shim"} ELSE entries
    /\ UNCHANGED <<packageVars, loaderVars, espVars, sb, key, want, runVars, listed, setups>>

\* The firmware forgets its entries.
FirmwareReset ==
    /\ chained /\ entries # {} /\ entries' = {}
    /\ UNCHANGED <<packageVars, loaderVars, espVars, sb, mok, key, apt, pc, want, tmp, runVars, listed, setups>>

\* "Check that the System tab shows the keys as enrolled, and only then turn
\* Secure Boot on", after a setup that has reported the boot path.
TurnOn ==
    /\ chained /\ mok = "enrolled" /\ ~sb
    /\ pc = [p \in Proc |-> "off"] /\ apt = "idle"
    /\ sb' = TRUE
    /\ UNCHANGED <<packageVars, loaderVars, espVars, entries, mok, key, apt, pc, want, tmp, runVars, listed, setups>>

Next ==
    \/ SetupStep \/ (\E p \in Proc : SignBootLoader(p))
    \/ AptUnpack \/ AptConfigure \/ Restart \/ FirmwareReset \/ TurnOn

Spec == Init /\ [][Next]_vars

-----------------------------------------------------------------------------
\* The machine always has something the firmware starts, wherever the setup, the
\* hook or an upgrade fails or stops, and once Secure Boot is turned on
\* (esp_install, prune_direct_sdboot_entries, setup_shim_chain).  One case is
\* left open by the code: where BOOTX64.EFI was all the firmware had, it is shim
\* before fbx64 is next to it and the CSV is there.
AlwaysBoots ==
    \/ Boots
    \/ ~listed /\ fallback = "shim" /\ ~(beside /\ csv)

\* Once the setup has named the boot path, the machine would start with Secure Boot
\* on although the firmware forgets its entries, through every upgrade, hook
\* and further setup, unless the key is not trusted after all.
FallbackIsWhole == chained /\ (esp.by = "distro" \/ mok # "none") => FallbackStarts(TRUE)
=============================================================================
