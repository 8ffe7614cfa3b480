------------------------------ MODULE Install ------------------------------
(***************************************************************************)
(* do_install of scripts/privileged-install.sh: install one verified set   *)
(* of kernel packages as root, from the staged .debs to the boot menu.     *)
(*                                                                         *)
(* One action is one command of the script, or one outcome of it, so a     *)
(* power cut (Crash) can fall between any two of them.  dpkg runs its      *)
(* maintainer hooks inside ConfigurePackages, the Kernel Pop hook          *)
(* (--sign-new-kernel) among them.  The helper may be run again after any  *)
(* outcome, a crash included, and meets whatever the last run left: a      *)
(* package run cut off earlier, its own or an update's, is finished first, *)
(* whichever kernel it was about.                                          *)
(*                                                                         *)
(* A definition marked "mutant" is not part of the specification: it is a  *)
(* plausible mistake in the definition that follows it.                    *)
(***************************************************************************)
EXTENDS KernelStore, Naturals

CONSTANT MaxRuns    \* bound: runs of the helper, an interrupted update counted

ASSUME MaxRunsAssumption == MaxRuns \in Nat

VARIABLES
    runs,           \* the package runs begun so far
    pc,             \* the next command of do_install
    name,           \* the version in the package's name
    payload,        \* the version of the files inside the package
    kver,           \* the version the script goes on with
    modulesBefore,  \* before_modules, the listing taken before dpkg
    signedNow,      \* signed_now
    warned,         \* which of SIGN WARNING and BOOT PENDING were printed
    prevSaved,      \* prev_saved
    result,         \* how the run ended
    contents,       \* the kernel whose files linux-image-<v> holds
    before          \* history: the disk as the run found it

runVars == <<name, payload, kver, modulesBefore, signedNow, warned, prevSaved>>
vars    == <<storeVars, contents, runVars, runs, pc, result, before>>

Steps == {"idle", "preflight", "trial", "snapshot", "dpkg", "configure",
          "repair", "modules", "image", "sign", "marker", "initramfs",
          "initrd", "loader", "sync", "espfail", "rollback", "default",
          "restore", "summary"}

\* Outcomes that promise that nothing was changed ...
Refusals == {"refused"}
\* ... and those that only report what is missing.
Failures == {"locked", "broken", "no-modules", "no-image", "no-initramfs",
             "no-entry", "no-grub"}
Results  == {"none", "done", "crashed", "rolled-back", "stuck"}
            \cup Refusals \cup Failures

Disk == [pkg |-> pkg, image |-> image, ours |-> ours, modules |-> modules,
         initrd |-> initrd, entry |-> entry, esp |-> esp, espOurs |-> espOurs,
         saved |-> saved]

TypeOK ==
    /\ StoreTypeOK
    /\ runs \in 0..MaxRuns
    /\ pc \in Steps
    /\ name \in Kver /\ payload \in Kver /\ kver \in Kver
    /\ modulesBefore \in SUBSET Kver
    /\ signedNow \in BOOLEAN
    /\ warned \in SUBSET {"sign", "pending"}
    /\ prevSaved \in Kver \cup {NoKernel}
    /\ result \in Results
    /\ contents \in [Kver -> Kver]

Init ==
    /\ StoreInit
    /\ name = running /\ payload = running /\ kver = running
    /\ modulesBefore = {} /\ signedNow = FALSE /\ warned = {}
    /\ prevSaved = NoKernel
    /\ runs = 0 /\ pc = "idle" /\ result = "none"
    /\ contents = [v \in Kver |-> v]
    /\ before = Disk

-----------------------------------------------------------------------------
At(step)  == pc = step
Goto(step) == pc' = step /\ UNCHANGED <<result, before, runs>>

\* die, or the end of the run.
End(outcome) == pc' = "idle" /\ result' = outcome /\ UNCHANGED <<before, runs>>
Die(outcome) == End(outcome) /\ UNCHANGED <<storeVars, contents, runVars>>

Present(n)     == pkg[n] # "none"
Interrupted(n) == pkg[n] \in {"unpacked", "broken"}

\* No package of another name holds kernel p's files (dpkg would refuse the
\* second), and package n holds no other kernel's.
HeldByNone(n, p) == \A m \in Kver : Present(m) => (contents[m] = p <=> m = n)

\* An update of the distribution's, switched off while dpkg unpacked or before
\* it configured kernel v: what the first run may find.
UpdateInterrupted(v) ==
    /\ At("idle") /\ result = "none" /\ runs < MaxRuns
    /\ HeldByNone(v, v) /\ ~\E n \in Kver : Interrupted(n)
    /\ Unpack(v, v) \/ HalfUnpack(v, v)
    /\ contents' = [contents EXCEPT ![v] = v]
    /\ runs' = runs + 1
    /\ UNCHANGED <<saved, machineVars, runVars, pc, result>>
    /\ before' = Disk'

\* The staged packages name kernel n, and carry the files of kernel p.  The
\* app builds with its own local version, so neither is a distribution's.
Start(n, p) ==
    /\ At("idle") /\ runs < MaxRuns
    /\ {n, p} \cap Distro = {}
    /\ HeldByNone(n, p)
    /\ name' = n /\ payload' = p /\ kver' = n
    /\ modulesBefore' = {} /\ signedNow' = FALSE /\ warned' = {}
    /\ prevSaved' = NoKernel
    /\ runs' = runs + 1 /\ pc' = "preflight" /\ result' = "none" /\ before' = Disk
    /\ UNCHANGED <<storeVars, contents>>

(* Secure Boot: what could not boot is refused before dpkg.                *)

\* Mutant: a key that is set up is taken to be enrolled.
PreflightAcceptsKey == ~sb \/ key

\* secure_boot_preflight lets the run go on.
PreflightAccepts ==
    \/ ~sb
    \/ key /\ enrollment \in {"enrolled", "pending"}

Preflight ==
    /\ At("preflight")
    /\ \/ /\ PreflightAccepts
          /\ warned' = IF sb /\ enrollment = "pending" THEN {"pending"} ELSE {}
          /\ Goto(IF sb /\ key THEN "trial" ELSE "snapshot")
          /\ UNCHANGED <<storeVars, contents, name, payload, kver, modulesBefore,
                         signedNow, prevSaved>>
       \/ sb /\ Die("refused")   \* no key, no tools, not enrolled, no answer

\* trial_sign_image: it needs boot/vmlinuz-<kver> in the package.
TrialSign ==
    /\ At("trial")
    /\ \/ payload = name /\ Goto("snapshot") /\ UNCHANGED <<storeVars, contents, runVars>>
       \/ Die("refused")

SnapshotModules ==
    /\ At("snapshot")
    /\ modulesBefore' = modules
    /\ Goto("dpkg")
    /\ UNCHANGED <<storeVars, contents, name, payload, kver, signedNow, warned, prevSaved>>

(* dpkg -i, and apt-get install -f when it fails.                          *)

\* wait_for_package_lock gives up: in dpkg_install, in the repair, or in the
\* purge that rolls back.
LockTimeout ==
    /\ pc \in {"dpkg", "repair", "rollback"}
    /\ Die("locked")

\* apt-get install -f, on a package whose installation was cut off:
\* configures it, or removes it.
AptFix(n) ==
    \/ pkg[n] = "unpacked" /\ Configure(n, contents[n], TRUE)
    \/ Interrupted(n) /\ Purge(n, contents[n])

\* finish_interrupted_dpkg, before every call of dpkg or apt-get, on what any
\* earlier package run left of any kernel: dpkg --configure -a, apt-get
\* install -f, apt-get install --reinstall.  Each may fail on any package.
FinishInterrupted(n) ==
    /\ pc \in {"dpkg", "repair", "rollback"}
    /\ \/ pkg[n] = "unpacked" /\ \E done \in BOOLEAN : Configure(n, contents[n], done)
       \/ AptFix(n)
       \/ pkg[n] = "broken" /\ Unpack(n, contents[n])
    /\ UNCHANGED <<contents, saved, machineVars, runVars, runs, pc, result, before>>

UnpackPackages ==
    /\ At("dpkg")
    /\ contents' = [contents EXCEPT ![name] = payload]
    /\ \/ Unpack(name, payload) /\ Goto("configure")
       \/ HalfUnpack(name, payload) /\ (Goto("repair") \/ End("crashed"))
    /\ UNCHANGED <<saved, machineVars, runVars>>

ConfigurePackages ==
    /\ At("configure")
    /\ \E done \in BOOLEAN :
        /\ Configure(name, payload, done)
        /\ Goto(IF done THEN "modules" ELSE "repair")
    /\ UNCHANGED <<contents, saved, machineVars, runVars>>

\* dpkg -i stops before it has unpacked or configured anything.
DpkgErrors ==
    /\ pc \in {"dpkg", "configure"}
    /\ Goto("repair")
    /\ UNCHANGED <<storeVars, contents, runVars>>

\* apt-get install -f: gives up, finds nothing to fix, or fixes what is
\* interrupted, this kernel or another.
Repair ==
    /\ At("repair")
    /\ \/ Die("broken")
       \/ Goto("modules") /\ UNCHANGED <<storeVars, contents, runVars>>
       \/ /\ \E n \in Kver : AptFix(n)
          /\ Goto("modules")
          /\ UNCHANGED <<contents, saved, machineVars, runVars>>

(* Cross-checks of what dpkg says it did.                                  *)

\* Mutant: the listing that compares the directories may come back empty.
CrossCheckUnguarded ==
    /\ At("modules")
    /\ IF kver \in modules
       THEN Goto("image") /\ UNCHANGED <<storeVars, contents, runVars>>
       ELSE /\ kver' \in (modules \ modulesBefore) \cup {NoKernel}
            /\ Goto("image")
            /\ UNCHANGED <<storeVars, contents, name, payload, modulesBefore,
                           signedNow, warned, prevSaved>>

\* kver is the packaged version, or the modules directory that appeared.
CrossCheckModules ==
    /\ At("modules")
    /\ IF kver \in modules
       THEN Goto("image") /\ UNCHANGED <<storeVars, contents, runVars>>
       ELSE \/ /\ kver' \in modules \ modulesBefore
               /\ Goto("image")
               /\ UNCHANGED <<storeVars, contents, name, payload, modulesBefore,
                              signedNow, warned, prevSaved>>
            \/ modules \subseteq modulesBefore /\ Die("no-modules")

CheckImage ==
    /\ At("image")
    /\ IF kver \in image
       THEN Goto("sign") /\ UNCHANGED <<storeVars, contents, runVars>>
       ELSE Die("no-image")

(* Signing, when the signing setup has been done.                          *)

\* Mutant: the install is refused, but dpkg has run by then.
SigningFailedLate(next) ==
    IF sb THEN Die("refused")
    ELSE /\ warned' = warned \cup {"sign"}
         /\ Goto(next)
         /\ UNCHANGED <<storeVars, contents, name, payload, kver, modulesBefore,
                        signedNow, prevSaved>>

\* The failure of a signing step: undo the install when the kernel could
\* not boot, else say so and go on.
SigningFailed(next) ==
    IF sb
    THEN Goto("rollback") /\ UNCHANGED <<storeVars, contents, runVars>>
    ELSE /\ warned' = warned \cup {"sign"}
         /\ Goto(next)
         /\ UNCHANGED <<storeVars, contents, name, payload, kver, modulesBefore,
                        signedNow, prevSaved>>

\* sign_kernel on the image in /boot.
Sign ==
    /\ At("sign")
    /\ \/ ~key /\ Goto("initramfs") /\ UNCHANGED <<storeVars, contents, runVars>>
       \/ key /\ SigningFailed("initramfs")
       \/ /\ key
          /\ IF kver \in ours THEN UNCHANGED fileVars ELSE ReplaceWithSigned(kver)
          /\ signedNow' = TRUE
          /\ Goto("marker")
          /\ UNCHANGED <<contents, loaderVars, saved, machineVars, name, payload, kver,
                         modulesBefore, warned, prevSaved>>

WriteMarker ==
    /\ At("marker")
    /\ WriteSignedMarker(kver)
    /\ Goto("initramfs")
    /\ UNCHANGED <<contents, loaderVars, saved, machineVars, runVars>>

(* Initramfs, generated and then looked for.                               *)

GenerateInitramfs ==
    /\ At("initramfs")
    /\ \/ /\ initrd' \in {initrd, initrd \cup {kver}}
          /\ Goto("initrd")
          /\ UNCHANGED <<contents, pkg, image, ours, marker, modules, loaderVars, saved,
                         machineVars, runVars>>
       \/ Die("no-initramfs")

CheckInitramfs ==
    /\ At("initrd")
    /\ IF kver \in initrd
       THEN Goto("loader") /\ UNCHANGED <<storeVars, contents, runVars>>
       ELSE Die("no-initramfs")

(* The boot menu: verified where a hook made it, written for GRUB.         *)

UpdateGrub ==
    /\ At("loader") /\ bl = "grub"
    /\ \/ /\ entry' = image
          /\ \E savedDefault \in BOOLEAN :   \* GRUB_DEFAULT=saved is set
                Goto(IF savedDefault THEN "default" ELSE "summary")
          /\ UNCHANGED <<contents, fileVars, esp, espOurs, saved, machineVars, runVars>>
       \/ Die("no-grub")

\* The ESP copy is refreshed and checked only for a kernel signed just now.
ThenSync == Goto(IF signedNow THEN "sync" ELSE "summary")

VerifyEntry ==
    /\ At("loader") /\ bl # "grub"
    /\ \/ /\ bl = "systemd-boot"
          /\ IF kver \in entry
             THEN ThenSync /\ UNCHANGED <<storeVars, contents, runVars>>
             ELSE Die("no-entry")
       \/ /\ bl = "kernelstub"     \* neither current nor previous: no slot
          /\ \/ kver \notin entry /\ Goto("summary") /\ UNCHANGED <<storeVars, contents, runVars>>
             \/ kver \in entry \cap esp /\ ThenSync /\ UNCHANGED <<storeVars, contents, runVars>>
             \/ kver \in entry \ esp /\ Die("no-entry")
       \/ bl = "unknown" /\ Goto("summary") /\ UNCHANGED <<storeVars, contents, runVars>>

SyncCopy ==
    /\ At("sync")
    /\ \E ok \in BOOLEAN :
        /\ SyncSignedToEsp(kver, ok)
        /\ Goto(IF ok THEN "summary" ELSE "espfail")
    /\ UNCHANGED <<contents, fileVars, saved, machineVars, runVars>>

\* Mutant: with Secure Boot off an unsigned ESP copy goes unreported.
EspCopyUnsignedSilently ==
    /\ At("espfail")
    /\ Goto(IF sb THEN "rollback" ELSE "summary")
    /\ UNCHANGED <<storeVars, contents, runVars>>

\* esp_copy_unsigned
EspCopyUnsigned == At("espfail") /\ SigningFailed("summary")

\* Mutant: apt-get purge is given a pattern.
RollbackByPattern ==
    /\ At("rollback")
    /\ \E n \in Kver : Present(n) /\ Purge(n, contents[n])
    /\ End("rolled-back")
    /\ UNCHANGED <<contents, saved, machineVars, runVars>>

\* rollback_install: apt-get purge of exactly the staged packages.
Rollback ==
    /\ At("rollback")
    /\ \/ /\ Present(name) /\ Purge(name, contents[name])
          /\ End("rolled-back") \/ End("stuck")
          /\ UNCHANGED <<contents, saved, machineVars, runVars>>
       \/ ~Present(name) /\ Die("rolled-back")
       \/ Die("stuck")

(* GRUB's saved default.                                                   *)

\* Mutant: a default that does not verify ends the run.
SetDefaultFatal ==
    /\ At("default")
    /\ prevSaved' = saved
    /\ \/ UNCHANGED saved /\ Goto("summary")
       \/ saved' = kver /\ (Goto("summary") \/ End("no-entry"))
    /\ UNCHANGED <<contents, fileVars, loaderVars, machineVars, name, payload, kver,
                   modulesBefore, signedNow, warned>>

SetDefault ==
    /\ At("default")
    /\ prevSaved' = saved
    /\ \/ UNCHANGED saved /\ Goto("summary")   \* no menu entry found for kver
       \/ /\ kver \in entry
          /\ \/ saved' = kver /\ Goto("summary")
             \/ saved' \in {saved, kver} /\ Goto("restore")  \* failed, or unverified
    /\ UNCHANGED <<contents, fileVars, loaderVars, machineVars, name, payload, kver,
                   modulesBefore, signedNow, warned>>

\* restore_grub_default: nothing to restore without a previous default.
RestoreDefault ==
    /\ At("restore")
    /\ saved' \in {saved} \cup ({prevSaved} \cap Kver)
    /\ Goto("summary")
    /\ UNCHANGED <<contents, fileVars, loaderVars, machineVars, runVars>>

Finish == At("summary") /\ Die("done")

(* What the window makes of the markers in the output of a run.            *)

ScriptReport == [signProblems |-> "sign" \in warned, afterEnrollment |-> "pending" \in warned]

\* Problems come first; DKMS problems are not modelled.
OutcomeMessage ==
    IF ScriptReport.signProblems THEN "problems"
    ELSE IF ScriptReport.afterEnrollment THEN "confirm the key" ELSE "reboot"

\* Power is cut, or the helper is killed.
Crash == pc # "idle" /\ Die("crashed")

Next ==
    \/ \E v \in Kver : UpdateInterrupted(v)
    \/ \E n, p \in Kver : Start(n, p)
    \/ Preflight \/ TrialSign \/ SnapshotModules
    \/ LockTimeout
    \/ \E n \in Kver : FinishInterrupted(n)
    \/ UnpackPackages \/ ConfigurePackages \/ DpkgErrors \/ Repair
    \/ CrossCheckModules \/ CheckImage
    \/ Sign \/ WriteMarker
    \/ GenerateInitramfs \/ CheckInitramfs
    \/ UpdateGrub \/ VerifyEntry \/ SyncCopy \/ EspCopyUnsigned \/ Rollback
    \/ SetDefault \/ RestoreDefault
    \/ Finish \/ Crash

Spec == Init /\ [][Next]_vars

-----------------------------------------------------------------------------
(* Properties.                                                             *)

\* The marker of a kernel is never newer than the image: what the app shows
\* as signed carries the signature, whatever dpkg, the hook, a failed
\* signing or a crash did to the image in between.
MarkerTruthful == marker \subseteq ours

\* An install that reports success leaves a kernel that boots: its files are
\* there, the menu has it where the script looked, and with Secure Boot
\* enforcing shim accepts the very copy the boot loader starts.
SuccessIsBootable ==
    result = "done" =>
        /\ Complete(kver)
        /\ bl \in {"grub", "systemd-boot"} => kver \in entry
        /\ (bl = "kernelstub" => kver \in entry) => ShimAccepts(kver)

\* "Kernel installed - reboot to activate" is only said of a kernel whose loader
\* copy is signed, if there is a key at all, and which waits for no enrollment:
\* "none of them may go unnoticed before a reboot" (start_install,
\* outcome_message).
SuccessIsCandid ==
    result = "done" =>
        /\ key /\ (bl \in EspLoaders => kver \in entry) /\ OutcomeMessage # "problems"
              => LoaderImageOurs(kver)
        /\ sb /\ enrollment = "pending" => OutcomeMessage # "reboot"

\* GRUB's saved default moves only to the kernel just installed, when all of
\* it is in place, it is in the menu and shim accepts it, or back to where it
\* was; and a run that ends with an error has left it where it was, so the
\* machine still starts the kernel it started before.
DefaultMovesOnlyToBootable ==
    [][/\ saved' # saved =>
            \/ saved' = prevSaved
            \/ saved' = kver /\ Complete(kver) /\ kver \in entry /\ ShimAccepts(kver)
       /\ result' \in Refusals \cup Failures \cup {"rolled-back", "stuck"}
            => saved' = before'.saved]_vars

\* Whatever happens to an install, a rollback and the finishing of an
\* interrupted package run included, every other kernel whose package was
\* installed stays installed, and keeps image, modules, initramfs and signature
\* (rollback_install: "exactly the packages of the staged .debs").  One whose own
\* package run was cut off earlier may be removed or replaced.
OtherKernelsKept ==
    \A n \in Kver \ {name} : before.pkg[n] = "installed" =>
        LET v == contents[n] IN
        /\ pkg[n] = "installed"
        /\ v \in before.image   => v \in image
        /\ v \in before.modules => v \in modules
        /\ v \in before.initrd  => v \in initrd
        /\ v \in before.ours    => v \in ours

\* What an install that ends with an error says of the disk is so.  "Nothing was
\* installed": refused by the Secure Boot preflight or by the trial signing, it has
\* changed nothing.  "Removed again": nothing of the packages' kernel is left in
\* /boot or under /lib/modules, and dpkg no longer has its image package.  (The
\* boot menu is left to the packages' postrm hooks.)
FailureIsAsReported ==
    /\ result \in Refusals => Disk = before
    /\ result = "rolled-back" =>
          /\ name \notin image \cup modules \cup initrd \cup ours \cup marker
          /\ pkg[name] = "none"

\* README: "With Secure Boot on, a kernel that could not boot is never
\* installed", also not by a run that fails on the way.
FailureInstallsNothingRefused ==
    result \in Failures /\ kver \notin before.entry /\ kver \in entry
        => ShimAccepts(kver)
=============================================================================
