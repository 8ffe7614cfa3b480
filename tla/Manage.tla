------------------------------- MODULE Manage -------------------------------
(***************************************************************************)
(* The modes of scripts/privileged-install.sh that work on kernels already *)
(* installed: --remove, --remove-many, --sign and the kernels' part of     *)
(* --setup-signing, with the KernelStore they share with the install.      *)
(*                                                                         *)
(* Meanwhile apt (unattended upgrades, say) installs and purges kernels:   *)
(* the package lock keeps it out of the script's own apt-get, and out of   *)
(* nothing else.  The kernel hook signs what apt installs (KernelStore's   *)
(* Configure).                                                             *)
(*                                                                         *)
(* Versions are numbers in the order of newest_kver_in_list.  Nothing here *)
(* asks whether Secure Boot is on.                                         *)
(***************************************************************************)
EXTENDS KernelStore, Naturals

CONSTANTS
    MaxRuns,    \* bound: runs of the script
    MaxOthers   \* bound: what apt and the user do besides

ASSUME ManageAssumption ==
    /\ Kver \subseteq Nat
    /\ MaxRuns \in Nat /\ MaxOthers \in Nat

VARIABLES
    runs, others,  \* counters of the bounds
    mode,          \* what the script was called for
    pc,            \* its next command
    todo,          \* kernels still to be worked on
    cur,           \* the kernel being worked on
    newest,        \* newest, read once by do_remove_many
    failed,        \* a kernel was not removed or not signed
    warned,        \* a SIGN WARNING or boot loader warning was printed
    result,        \* how the run ended
    removed,       \* kernels reported removed, with no warning
    before         \* history: packages and images as the run found them

runVars == <<mode, todo, cur, newest, failed, warned, removed, before>>
vars    == <<storeVars, runVars, runs, others, pc, result>>

Modes == {"remove", "remove-many", "sign", "setup"}
Steps == {"idle", "next", "check", "purge", "loader", "sign", "replace", "marker",
          "sync", "hooks"}

TypeOK ==
    /\ StoreTypeOK
    /\ runs \in 0..MaxRuns /\ others \in 0..MaxOthers
    /\ mode \in Modes /\ pc \in Steps
    /\ todo \subseteq Kver
    /\ cur \in Kver \cup {NoKernel} /\ newest \in Kver \cup {NoKernel}
    /\ failed \in BOOLEAN /\ warned \in BOOLEAN
    /\ result \in {"none", "done", "failed", "crashed"}
    /\ removed \subseteq before.image \ {running}
    /\ before \in [pkg : [Kver -> PkgStates], image : SUBSET Kver]

Disk == [pkg |-> pkg, image |-> image]

Init ==
    /\ StoreInit /\ ~sb /\ enrollment = "unknown" /\ saved = NoKernel
    /\ runs = 0 /\ others = 0 /\ mode = "remove" /\ pc = "idle" /\ todo = {}
    /\ cur = NoKernel /\ newest = NoKernel /\ failed = FALSE /\ warned = FALSE
    /\ result = "none" /\ removed = {} /\ before = Disk

-----------------------------------------------------------------------------
\* newest_kver_in_list.
Newest(K) == CHOOSE v \in K : \A w \in K : w <= v

Goto(step) == pc' = step /\ UNCHANGED result
End(outcome) == pc' = "idle" /\ result' = outcome
RunSame == UNCHANGED <<runVars, runs, others>>

\* One kernel is through, with a failure or a warning, or neither.  A mode
\* for one kernel ends here (die, or the last line), a loop goes on.
Through(fail, warn) ==
    /\ failed' = (failed \/ fail) /\ warned' = (warned \/ warn)
    /\ IF mode \in {"remove", "sign"}
       THEN End(IF fail THEN "failed" ELSE "done")
       ELSE Goto("next")
    /\ UNCHANGED <<mode, todo, cur, newest, before, runs, others>>

\* The script is called for the kernels K.  The app passes installed ones; the
\* setup takes installed_kvers, after it has made sure of the key.
Start(m, K) ==
    /\ pc = "idle" /\ runs < MaxRuns
    /\ K # {} /\ K \subseteq image
    /\ m \in {"remove", "sign"} => Cardinality(K) = 1
    /\ m = "setup" => K = image
    /\ runs' = runs + 1 /\ mode' = m /\ todo' = K /\ cur' = NoKernel
    /\ newest' = IF m = "remove-many" THEN Newest(image) ELSE NoKernel
    /\ failed' = FALSE /\ warned' = FALSE /\ result' = "none" /\ removed' = {}
    /\ before' = Disk
    /\ key' = (key \/ m = "setup")
    /\ pc' = "next"
    /\ UNCHANGED <<fileVars, loaderVars, saved, bl, sb, enrollment, hook, running, others>>

\* Mutant: the bulk removal skips only the running kernel.
WorkOnUnchecked(v) ==
    CASE mode = "remove-many" /\ v = running -> Goto("next")
      [] mode = "remove-many" /\ v # running -> Goto("check")
      [] mode = "remove" -> Goto("check")
      [] mode = "setup" /\ v \in image \cap ours -> Goto("next")
      [] OTHER -> Goto("sign")

\* What a mode does with the next kernel: --remove-many skips the running and
\* the newest one, the setup goes no further with one signed already.
WorkOn(v) ==
    CASE mode = "remove-many" /\ v \in {running, newest} -> Goto("next")
      [] mode = "remove-many" /\ v \notin {running, newest} -> Goto("check")
      [] mode = "remove" -> Goto("check")
      [] mode = "setup" /\ v \in image \cap ours -> Goto("next")
      [] OTHER -> Goto("sign")

\* The setup's kernel_signed branch: only the marker is written again.
AlreadySigned(v) == mode = "setup" /\ v \in image \cap ours

NextKernel ==
    /\ pc = "next"
    /\ \E v \in todo :
        /\ todo' = todo \ {v} /\ cur' = v
        /\ WorkOn(v)
        /\ marker' \in {marker} \cup (IF AlreadySigned(v) THEN {marker \cup {v}} ELSE {})
        /\ warned' = (warned \/ (AlreadySigned(v) /\ v \notin marker'))
    /\ UNCHANGED <<mode, newest, failed, removed, before, runs, others>>
    /\ UNCHANGED <<pkg, image, ours, modules, initrd, loaderVars, saved, machineVars>>

LoopEnds ==
    /\ pc = "next" /\ todo = {}
    /\ \/ mode = "setup" /\ (Goto("hooks") \/ End("failed"))  \* queue_key_enrollment
       \/ mode # "setup" /\ End(IF failed THEN "failed" ELSE "done")
    /\ RunSame /\ UNCHANGED storeVars

InstallHooks ==
    /\ pc = "hooks" /\ hook' = TRUE /\ End("done")
    /\ UNCHANGED <<fileVars, loaderVars, saved, bl, sb, key, enrollment, running>>
    /\ RunSame

-----------------------------------------------------------------------------
(* do_remove.                                                              *)

\* Mutant: only the app keeps the running kernel from being removed.
CheckRemoveAnything ==
    /\ pc = "check"
    /\ \/ cur \in image \cup modules /\ Goto("purge") /\ RunSame
       \/ cur \notin image \cup modules /\ Through(TRUE, FALSE) /\ UNCHANGED removed
    /\ UNCHANGED storeVars

\* A kernel that is not installed, or runs, is refused.
CheckRemove ==
    /\ pc = "check"
    /\ \/ cur \in (image \cup modules) \ {running} /\ Goto("purge") /\ RunSame
       \/ cur \notin (image \cup modules) \ {running} /\ Through(TRUE, FALSE) /\ UNCHANGED removed
    /\ UNCHANGED storeVars

\* apt has unpacked a kernel and not yet configured it: it holds dpkg's lock.
AptBusy == \E v \in Kver : pkg[v] = "unpacked"

\* apt-get purge of the kernel's packages, refused when that would take a
\* metapackage along; or rm, when no package owns the kernel.
PurgeKernel ==
    /\ pc = "purge"
    /\ \/ pkg[cur] # "none" /\ ~AptBusy
          /\ Purge(cur, cur) /\ Goto("loader") /\ RunSame
       \/ pkg[cur] # "none"
          /\ UNCHANGED <<fileVars, loaderVars>> /\ Through(TRUE, FALSE) /\ UNCHANGED removed
       \/ /\ pkg[cur] = "none"
          /\ image' = image \ {cur} /\ ours' = ours \ {cur} /\ marker' = marker \ {cur}
          /\ modules' = modules \ {cur} /\ initrd' = initrd \ {cur}
          /\ UNCHANGED <<pkg, loaderVars>>
          /\ Goto("loader") /\ RunSame
    /\ UNCHANGED <<saved, machineVars>>

\* Mutant: the boot menu is left to the packages' hooks.
CleanLoaderNever ==
    /\ pc = "loader"
    /\ removed' = removed \cup {cur}
    /\ Through(FALSE, FALSE)
    /\ UNCHANGED storeVars

\* The boot menu: kernel-install remove, update-grub, or kernelstub's own
\* hook; what could not be cleaned is warned about.
CleanLoader ==
    /\ pc = "loader"
    /\ \/ /\ bl = "grub" /\ entry' = image
          /\ removed' = removed \cup {cur}
          /\ Through(FALSE, FALSE) /\ UNCHANGED <<esp, espOurs>>
       \/ /\ bl = "grub"
          /\ Through(TRUE, FALSE) /\ UNCHANGED <<removed, loaderVars>>
       \/ /\ bl = "systemd-boot"
          /\ entry' = entry \ {cur} /\ esp' = esp \ {cur} /\ espOurs' = espOurs \ {cur}
          /\ removed' = removed \cup {cur}
          /\ Through(FALSE, FALSE)
       \/ /\ bl = "kernelstub"
          /\ removed' = removed \cup {cur}
          /\ Through(FALSE, FALSE) /\ UNCHANGED loaderVars
       \/ /\ bl \in {"systemd-boot", "unknown"}
          /\ Through(FALSE, TRUE) /\ UNCHANGED <<removed, loaderVars>>
    /\ UNCHANGED <<fileVars, saved, machineVars>>

-----------------------------------------------------------------------------
(* do_sign, and the signing loop of do_setup_signing.                      *)

\* sign_kernel up to the move: an image that is ours is left alone, and
\* whatever fails leaves the image alone.
SignCopy ==
    /\ pc = "sign"
    /\ \/ Through(TRUE, TRUE) /\ UNCHANGED removed
       \/ /\ key /\ cur \in image
          /\ Goto(IF cur \in ours THEN "marker" ELSE "replace") /\ RunSame
    /\ UNCHANGED storeVars

\* The signed copy is moved over the image, even over one that has gone.
ReplaceImage ==
    /\ pc = "replace"
    /\ \/ /\ image' = image \cup {cur}
          /\ ours' = ours \cup {cur} /\ marker' = marker \ {cur}
          /\ Goto("marker") /\ RunSame
       \/ UNCHANGED <<image, ours, marker>> /\ Through(TRUE, TRUE) /\ UNCHANGED removed
    /\ UNCHANGED <<pkg, modules, initrd, loaderVars, saved, machineVars>>

\* Mutant: the marker is written without a look at the image.
RecordSignedAnyway ==
    /\ pc = "marker"
    /\ marker' \in {marker, marker \cup {cur}}
    /\ warned' = (warned \/ cur \notin marker')
    /\ Goto("sync")
    /\ UNCHANGED <<pkg, image, ours, modules, initrd, loaderVars, saved, machineVars>>
    /\ UNCHANGED <<mode, todo, cur, newest, failed, removed, before, runs, others>>

\* write_signed_marker stats the image, which may have gone since.
RecordSigned ==
    /\ pc = "marker"
    /\ marker' \in {marker, marker \cup ({cur} \cap image)}
    /\ warned' = (warned \/ cur \notin marker')
    /\ Goto("sync")
    /\ UNCHANGED <<pkg, image, ours, modules, initrd, loaderVars, saved, machineVars>>
    /\ UNCHANGED <<mode, todo, cur, newest, failed, removed, before, runs, others>>

\* Mutant: --sign takes a copy that could not be refreshed for a warning.
SyncEspLenient ==
    /\ pc = "sync"
    /\ \E ok \in BOOLEAN :
        /\ SyncSignedToEsp(cur, ok)
        /\ Through(FALSE, ~ok)
    /\ UNCHANGED removed
    /\ UNCHANGED <<fileVars, saved, machineVars>>

\* A copy that is not known to be signed is an error of --sign, and for the
\* setup a SIGN WARNING.
SyncEsp ==
    /\ pc = "sync"
    /\ \E ok \in BOOLEAN :
        /\ SyncSignedToEsp(cur, ok)
        /\ Through(~ok /\ mode = "sign", ~ok)
    /\ UNCHANGED removed
    /\ UNCHANGED <<fileVars, saved, machineVars>>

\* The machine goes down, or the script is killed.
Crash ==
    /\ pc # "idle" /\ End("crashed")
    /\ RunSame /\ UNCHANGED storeVars

-----------------------------------------------------------------------------
(* The others: the user between runs, apt during one.  None brings back a  *)
(* version the script's run found, and apt keeps the running kernel and    *)
(* the newest one.                                                         *)

Other ==
    /\ others < MaxOthers /\ others' = others + 1
    /\ UNCHANGED <<runVars, runs, pc, result, saved, machineVars>>

AptUnpack(v) ==
    /\ Other /\ pc # "idle" /\ ~AptBusy
    /\ v \notin before.image \cup image \cup modules
    /\ Unpack(v, v)

AptConfigure(v) ==
    /\ pkg[v] = "unpacked" /\ v \in image
    /\ Configure(v, v, TRUE)
    /\ UNCHANGED <<runVars, runs, others, pc, result, saved, machineVars>>

AptPurge(v) ==
    /\ Other /\ pc # "idle" /\ ~AptBusy
    /\ pkg[v] = "installed" /\ v # running
    /\ \E w \in image : w > v /\ pkg[w] = "installed"
    /\ Purge(v, v)

\* make install: a kernel no package owns.
MakeInstall(v) ==
    /\ Other /\ pc = "idle" /\ runs < MaxRuns
    /\ v \notin before.image \cup image \cup modules /\ pkg[v] = "none"
    /\ image' = image \cup {v} /\ modules' = modules \cup {v} /\ initrd' = initrd \cup {v}
    /\ UNCHANGED <<pkg, ours, marker>>
    /\ \/ bl = "grub" /\ entry' = image' /\ UNCHANGED <<esp, espOurs>>
       \/ bl # "grub" /\ LoaderHook(v, ours)

Script ==
    \/ \E m \in Modes, K \in SUBSET Kver : Start(m, K)
    \/ NextKernel \/ LoopEnds \/ InstallHooks
    \/ CheckRemove \/ PurgeKernel \/ CleanLoader
    \/ SignCopy \/ ReplaceImage \/ RecordSigned \/ SyncEsp
    \/ Crash

Next ==
    \/ Script
    \/ \E v \in Kver : AptUnpack(v) \/ AptConfigure(v) \/ AptPurge(v) \/ MakeInstall(v)

Spec == Init /\ [][Next]_vars

-----------------------------------------------------------------------------
(* Properties.                                                             *)

\* kernelstub keeps no copy of a kernel it does not list.
NoCopyToCheck(v) == bl = "kernelstub" /\ v \notin entry

\* The machine keeps a kernel to boot: the running one whole and, in a bulk
\* removal, one at least as new as the newest it started with, whatever was
\* asked for and whatever apt removes meanwhile (do_remove, do_remove_many).
KernelsKept ==
    /\ Complete(running)
    /\ mode = "remove-many" => \E v \in image : \A w \in before.image : w <= v

\* A kernel reported removed is gone, and from the boot menu too.  kernelstub
\* is told of it only by the hook of its packages (do_remove).
RemovedLeavesMenu ==
    \A v \in removed :
        /\ v \notin image
        /\ v \in entry => bl = "kernelstub" /\ before.pkg[v] = "none"

\* --sign reports success only when the image the boot loader starts is the
\* signed one, whatever apt and its hooks do meanwhile (do_sign).
SignReachesLoader ==
    mode = "sign" /\ result = "done" /\ cur \in image =>
        LoaderImageOurs(cur) \/ (NoCopyToCheck(cur) /\ cur \in ours)

\* "Sign every installed kernel" without a warning leaves no installed kernel
\* the boot loader would start unsigned (do_setup_signing).
SetupReachesLoader ==
    mode = "setup" /\ result = "done" /\ ~warned =>
        \A v \in before.image \cap image : LoaderImageOurs(v) \/ NoCopyToCheck(v)
=============================================================================
