--------------------------- MODULE InstallProofs ---------------------------
(* Theorems about Install, for every set of kernels and every machine.     *)
EXTENDS Install, KernelStoreProofs

USE KverAssumption, MaxRunsAssumption

-----------------------------------------------------------------------------
(* Type correctness.                                                       *)

\* The type of the run's own variables; the store's is StoreTypeOK.
RunTypeOK ==
    /\ runs \in 0..MaxRuns
    /\ pc \in Steps
    /\ name \in Kver /\ payload \in Kver /\ kver \in Kver
    /\ modulesBefore \in SUBSET Kver
    /\ signedNow \in BOOLEAN
    /\ warned \in SUBSET {"sign", "pending"}
    /\ prevSaved \in Kver \cup {NoKernel}
    /\ result \in Results
    /\ contents \in [Kver -> Kver]

LEMMA InitType == Init => TypeOK
<1> SUFFICES ASSUME Init PROVE TypeOK
  OBVIOUS
<1>1. RunTypeOK
  <2>1. running \in Kver
    BY DEF Init, StoreInit
  <2>2. runs \in 0..MaxRuns
    BY DEF Init
  <2>3. pc \in Steps /\ result \in Results
    BY DEF Init, Steps, Results
  <2>4. QED
    BY <2>1, <2>2, <2>3 DEF Init, RunTypeOK
<1>2. pkg \in [Kver -> PkgStates]
  <2>1. PICK K \in SUBSET Kver :
          pkg = [v \in Kver |-> IF v \in K THEN "installed" ELSE "none"]
    BY DEF Init, StoreInit
  <2>2. QED
    BY <2>1 DEF PkgStates
<1>3. entry \in SUBSET Kver
  <2>1. PICK K \in SUBSET Kver :
          /\ running \in K
          /\ entry \in (IF bl = "kernelstub"
                       THEN {{running} \cup o : o \in {{}} \cup {{k} : k \in K}}
                       ELSE {K})
    BY DEF Init, StoreInit
  <2>2. CASE bl = "kernelstub"
    <3>1. PICK o \in {{}} \cup {{k} : k \in K} : entry = {running} \cup o
      BY <2>1, <2>2
    <3>2. o \in SUBSET Kver
      BY <3>1
    <3>3. QED
      BY <3>1, <3>2, <2>1
  <2>3. CASE bl # "kernelstub"
    BY <2>1, <2>3
  <2>4. QED
    BY <2>2, <2>3
<1>4. StoreTypeOK
  BY <1>2, <1>3 DEF Init, StoreInit, StoreTypeOK, Loaders, Enrollments
<1>5. QED
  BY <1>1, <1>4 DEF TypeOK, RunTypeOK

LEMMA StepType == TypeOK /\ [Next]_vars => TypeOK'
<1> SUFFICES ASSUME TypeOK, [Next]_vars PROVE TypeOK'
  OBVIOUS
<1> USE DEF At, Goto, Die, End, Steps, Results, Refusals, Failures, runVars
<1>a. StoreTypeOK /\ RunTypeOK
  BY DEF TypeOK, RunTypeOK
<1>b. StoreTypeOK' /\ RunTypeOK' => TypeOK'
  BY DEF TypeOK, RunTypeOK
<1>c. UNCHANGED storeVars => StoreTypeOK'
  BY <1>a DEF StoreTypeOK, storeVars, fileVars, loaderVars, machineVars
<1>1. ASSUME NEW n \in Kver, NEW p \in Kver, Start(n, p) PROVE TypeOK'
  <2>1. runs' \in 0..MaxRuns
    BY <1>a, <1>1 DEF Start, RunTypeOK
  <2>2. pc' = "preflight" /\ result' = "none" /\ kver' = n /\ name' = n /\ payload' = p
    BY <1>1 DEF Start
  <2>3. RunTypeOK'
    BY <1>a, <1>1, <2>1, <2>2 DEF Start, RunTypeOK
  <2>4. QED
    BY <1>b, <1>c, <1>1, <2>3 DEF Start
<1>2. CASE Preflight
  BY <1>a, <1>b, <1>c, <1>2 DEF Preflight, RunTypeOK
<1>3. CASE TrialSign
  BY <1>a, <1>b, <1>c, <1>3 DEF TrialSign, RunTypeOK
<1>4. CASE SnapshotModules
  BY <1>a, <1>b, <1>c, <1>4 DEF SnapshotModules, RunTypeOK, StoreTypeOK
<1>5. CASE LockTimeout
  BY <1>a, <1>b, <1>c, <1>5 DEF LockTimeout, RunTypeOK
<1>d. ASSUME NEW n \in Kver, AptFix(n), UNCHANGED <<saved, machineVars>> PROVE StoreTypeOK'
  BY <1>a, <1>d, ConfigureType, PurgeType DEF AptFix, RunTypeOK
<1>6. ASSUME NEW n \in Kver, FinishInterrupted(n) PROVE TypeOK'
  <2>1. StoreTypeOK'
    BY <1>a, <1>d, <1>6, ConfigureType, UnpackType DEF FinishInterrupted, RunTypeOK
  <2>2. QED
    BY <1>a, <1>b, <1>6, <2>1 DEF FinishInterrupted, RunTypeOK
<1>7. CASE UnpackPackages
  <2>1. StoreTypeOK'
    BY <1>a, <1>7, UnpackType, HalfUnpackType DEF UnpackPackages, RunTypeOK
  <2>2. RunTypeOK'
    BY <1>a, <1>7 DEF UnpackPackages, RunTypeOK
  <2>3. QED
    BY <1>b, <2>1, <2>2
<1>8. CASE ConfigurePackages
  BY <1>a, <1>b, <1>8, ConfigureType DEF ConfigurePackages, RunTypeOK
<1>9. CASE DpkgErrors
  BY <1>a, <1>b, <1>c, <1>9 DEF DpkgErrors, RunTypeOK
<1>10. CASE Repair
  BY <1>a, <1>b, <1>c, <1>d, <1>10 DEF Repair, RunTypeOK
<1>11. CASE CrossCheckModules
  BY <1>a, <1>b, <1>c, <1>11 DEF CrossCheckModules, RunTypeOK, StoreTypeOK
<1>12. CASE CheckImage
  BY <1>a, <1>b, <1>c, <1>12 DEF CheckImage, RunTypeOK
<1>13. CASE Sign
  <2>1. StoreTypeOK'
    BY <1>a, <1>c, <1>13, SigningType
       DEF Sign, SigningFailed, RunTypeOK, StoreTypeOK, storeVars, fileVars,
           loaderVars, machineVars, ReplaceWithSigned
  <2>2. RunTypeOK'
    BY <1>a, <1>13 DEF Sign, SigningFailed, RunTypeOK
  <2>3. QED
    BY <1>b, <2>1, <2>2
<1>14. CASE WriteMarker
  BY <1>a, <1>b, <1>14, SigningType DEF WriteMarker, RunTypeOK
<1>15. CASE GenerateInitramfs
  BY <1>a, <1>b, <1>c, <1>15, ZenonT(60)
     DEF GenerateInitramfs, RunTypeOK, StoreTypeOK, loaderVars, machineVars
<1>16. CASE CheckInitramfs
  BY <1>a, <1>b, <1>c, <1>16 DEF CheckInitramfs, RunTypeOK
<1>17. CASE UpdateGrub
  BY <1>a, <1>b, <1>c, <1>17, ZenonT(60)
     DEF UpdateGrub, RunTypeOK, StoreTypeOK, fileVars, machineVars
<1>18. CASE VerifyEntry
  BY <1>a, <1>b, <1>c, <1>18 DEF VerifyEntry, ThenSync, RunTypeOK
<1>19. CASE SyncCopy
  BY <1>a, <1>b, <1>19, SyncType DEF SyncCopy, RunTypeOK
<1>20. CASE EspCopyUnsigned
  BY <1>a, <1>b, <1>c, <1>20 DEF EspCopyUnsigned, SigningFailed, RunTypeOK
<1>21. CASE Rollback
  BY <1>a, <1>b, <1>c, <1>21, PurgeType DEF Rollback, RunTypeOK
<1>22. CASE SetDefault
  BY <1>a, <1>b, <1>22
     DEF SetDefault, RunTypeOK, StoreTypeOK, fileVars, loaderVars, machineVars
<1>23. CASE RestoreDefault
  BY <1>a, <1>b, <1>23
     DEF RestoreDefault, RunTypeOK, StoreTypeOK, fileVars, loaderVars, machineVars
<1>24. CASE Finish
  BY <1>a, <1>b, <1>c, <1>24 DEF Finish, RunTypeOK
<1>25. CASE Crash
  BY <1>a, <1>b, <1>c, <1>25 DEF Crash, RunTypeOK
<1>26. CASE UNCHANGED vars
  BY <1>a, <1>b, <1>c, <1>26 DEF vars, storeVars, RunTypeOK
<1>27. ASSUME NEW v \in Kver, UpdateInterrupted(v) PROVE TypeOK'
  <2>1. StoreTypeOK'
    BY <1>a, <1>27, UnpackType, HalfUnpackType DEF UpdateInterrupted
  <2>2. RunTypeOK'
    BY <1>a, <1>27 DEF UpdateInterrupted, RunTypeOK
  <2>3. QED
    BY <1>b, <2>1, <2>2
<1>28. QED
  BY <1>1, <1>2, <1>3, <1>4, <1>5, <1>6, <1>7, <1>8, <1>9, <1>10, <1>11,
     <1>12, <1>13, <1>14, <1>15, <1>16, <1>17, <1>18, <1>19, <1>20, <1>21,
     <1>22, <1>23, <1>24, <1>25, <1>26, <1>27
  DEF Next

\* Every variable keeps its type, for any set of kernels and any machine.
THEOREM TypeCorrect == Spec => []TypeOK
<1>1. Init => TypeOK
  BY InitType
<1>2. TypeOK /\ [Next]_vars => TypeOK'
  BY StepType
<1>3. QED
  BY <1>1, <1>2, PTL DEF Spec

-----------------------------------------------------------------------------
(* What the steps a run has taken tell about its kernel.  The properties    *)
(* speak of the end of a run; this invariant carries each check from the   *)
(* step that makes it to the end.                                          *)

AfterInitrd  == {"loader", "sync", "espfail", "default", "restore", "summary"}
AfterSigning == AfterInitrd \cup {"marker", "initramfs", "initrd"}
AfterImage   == AfterSigning \cup {"sign"}
AfterModules == AfterImage \cup {"image"}
BeforeSigning == {"preflight", "trial", "snapshot", "dpkg", "configure",
                  "repair", "modules", "image", "sign"}

\* Past the preflight, an enforced Secure Boot means a key shim will trust.
PreflightDone == pc \notin {"idle", "preflight"} => PreflightAccepts

FilesDone ==
    /\ pc \in AfterModules => kver \in modules
    /\ pc \in AfterImage   => kver \in image
    /\ pc \in AfterInitrd  => kver \in initrd

\* With Secure Boot on the image is signed; signed_now says that it is.
SigningDone ==
    /\ pc \in BeforeSigning => ~signedNow
    /\ pc \in AfterSigning => (sb \/ pc = "marker" => signedNow) /\ (signedNow => kver \in ours)

\* The kernel's menu entry, and the copy it starts.
Bootable ==
    /\ bl \in {"grub", "systemd-boot"} => kver \in entry
    /\ (bl = "kernelstub" => kver \in entry) => ShimAccepts(kver)

LoaderDone ==
    /\ pc \in {"sync", "espfail"} => bl # "grub" /\ (bl = "systemd-boot" => kver \in entry)
    /\ pc \in {"default", "restore"} => bl = "grub"
    /\ pc \in {"default", "restore", "summary"} => Bootable
    /\ result = "done" => pc = "idle" /\ Complete(kver) /\ Bootable

FlowInv == PreflightDone /\ FilesDone /\ SigningDone /\ LoaderDone

\* Every file is a package's, no two packages hold one kernel's, and the run's
\* own package, once it is there, holds the payload.
OneHolder ==
    \A m, n \in Kver : Present(m) /\ Present(n) /\ contents[m] = contents[n] => m = n
Held(v) == \E n \in Kver : Present(n) /\ contents[n] = v
OwnFiles ==
    /\ OneHolder
    /\ \A v \in image \cup modules \cup initrd \cup ours \cup marker : Held(v)
    /\ pc # "idle" => HeldByNone(name, payload)
    /\ pc = "configure" => Present(name)

IInv == TypeOK /\ MarkerTruthful /\ FlowInv /\ OwnFiles

LEMMA InitIInv == Init => IInv
<1> SUFFICES ASSUME Init PROVE IInv
  OBVIOUS
<1>1. TypeOK
  BY InitType
<1>2. MarkerTruthful
  BY DEF Init, StoreInit, MarkerTruthful
<1>3. FlowInv
  BY DEF Init, FlowInv, PreflightDone, FilesDone, SigningDone, LoaderDone,
         AfterModules, AfterImage, AfterSigning, AfterInitrd, BeforeSigning
<1>4. OwnFiles
  <2>1. PICK K \in SUBSET Kver :
          /\ pkg = [v \in Kver |-> IF v \in K THEN "installed" ELSE "none"]
          /\ image = K /\ modules = K /\ initrd = K
          /\ ours \in (IF key THEN SUBSET K ELSE {{}})
    BY DEF Init, StoreInit
  <2>2. marker = ours /\ contents = [v \in Kver |-> v] /\ pc = "idle"
    BY DEF Init, StoreInit
  <2>3. \A v \in image \cup modules \cup initrd \cup ours \cup marker : v \in K
    BY <2>1, <2>2
  <2>4. \A v \in K : Held(v)
    BY <2>1, <2>2 DEF Held, Present
  <2>5. QED
    BY <2>2, <2>3, <2>4 DEF OwnFiles, OneHolder
<1>5. QED
  BY <1>1, <1>2, <1>3, <1>4 DEF IInv

\* A marker is written only for an image that carries the signature, and
\* whatever replaces or removes the image takes the marker's truth with it.
LEMMA StepMarker == IInv /\ [Next]_vars => MarkerTruthful'
<1> SUFFICES ASSUME IInv, [Next]_vars PROVE MarkerTruthful'
  OBVIOUS
<1>a. TypeOK /\ MarkerTruthful /\ FlowInv
  BY DEF IInv
<1>b. UNCHANGED fileVars => MarkerTruthful'
  BY <1>a DEF MarkerTruthful, fileVars
<1>c. ASSUME NEW n \in Kver, NEW p \in Kver, NEW done \in BOOLEAN,
             Configure(n, p, done)
      PROVE  MarkerTruthful'
  <2>1. ours \subseteq ours' /\ marker' \subseteq marker \cup (ours' \cap {p})
    BY <1>c DEF Configure, SignedByHook
  <2>2. QED
    BY <1>a, <2>1 DEF MarkerTruthful
<1>d. ASSUME NEW n \in Kver, NEW p \in Kver, Purge(n, p)
      PROVE  MarkerTruthful'
  BY <1>a, <1>d DEF MarkerTruthful, Purge
<1>e. ASSUME NEW n \in Kver, NEW p \in Kver, Unpack(n, p) \/ HalfUnpack(n, p)
      PROVE  MarkerTruthful'
  BY <1>a, <1>e DEF MarkerTruthful, Unpack, HalfUnpack
<1>f. ASSUME NEW n \in Kver, AptFix(n) PROVE MarkerTruthful'
  BY <1>a, <1>c, <1>d, <1>f DEF AptFix, TypeOK
<1>1. CASE UnpackPackages \/ \E v \in Kver : UpdateInterrupted(v)
  BY <1>a, <1>e, <1>1 DEF UnpackPackages, UpdateInterrupted, TypeOK
<1>2. CASE Sign
  <2>1. CASE UNCHANGED fileVars
    BY <1>b, <2>1
  <2>2. CASE ReplaceWithSigned(kver)
    BY <1>a, <2>2 DEF ReplaceWithSigned, MarkerTruthful
  <2>3. QED
    BY <1>2, <2>1, <2>2 DEF Sign, SigningFailed, Die, storeVars
<1>3. CASE WriteMarker
  <2>1. kver \in ours
    BY <1>a, <1>3 DEF WriteMarker, At, FlowInv, SigningDone, AfterSigning
  <2>2. QED
    BY <1>a, <1>3, <2>1 DEF WriteMarker, WriteSignedMarker, MarkerTruthful
<1>4. CASE GenerateInitramfs
  BY <1>a, <1>4 DEF GenerateInitramfs, Die, storeVars, fileVars, MarkerTruthful
<1>5. ASSUME NEW n \in Kver, FinishInterrupted(n) PROVE MarkerTruthful'
  BY <1>a, <1>5, <1>c, <1>e, <1>f DEF FinishInterrupted, TypeOK
<1>6. CASE ConfigurePackages
  BY <1>a, <1>6, <1>c DEF ConfigurePackages, TypeOK
<1>7. CASE Repair
  BY <1>a, <1>b, <1>7, <1>f DEF Repair, TypeOK, Die, storeVars
<1>8. CASE Rollback
  BY <1>a, <1>b, <1>8, <1>d DEF Rollback, TypeOK, Die, storeVars
<1>9. CASE \/ \E n, p \in Kver : Start(n, p)
           \/ Preflight \/ TrialSign \/ SnapshotModules \/ LockTimeout \/ DpkgErrors
           \/ CrossCheckModules \/ CheckImage \/ CheckInitramfs
  BY <1>b, <1>9
     DEF Start, Preflight, TrialSign, SnapshotModules, LockTimeout, DpkgErrors,
         CrossCheckModules, CheckImage, CheckInitramfs, Die, storeVars
<1>10. CASE \/ UpdateGrub \/ VerifyEntry \/ SyncCopy \/ EspCopyUnsigned
            \/ SetDefault \/ RestoreDefault \/ Finish \/ Crash \/ UNCHANGED vars
  BY <1>b, <1>10
     DEF UpdateGrub, VerifyEntry, SyncCopy, EspCopyUnsigned, SigningFailed,
         SetDefault, RestoreDefault, Finish, Crash, Die, storeVars, vars
<1>11. QED
  BY <1>1, <1>2, <1>3, <1>4, <1>5, <1>6, <1>7, <1>8, <1>9, <1>10 DEF Next

\* The end of a run keeps FlowInv; only a finished one has to show more.
LEMMA EndFlow ==
    ASSUME FlowInv, NEW outcome, End(outcome),
           outcome = "done" => (Complete(kver) /\ Bootable)'
    PROVE  FlowInv'
BY DEF End, FlowInv, PreflightDone, FilesDone, SigningDone, LoaderDone,
       AfterModules, AfterImage, AfterSigning, AfterInitrd, BeforeSigning

\* A step that ends the run early and touches nothing keeps FlowInv.
LEMMA DieFlow ==
    ASSUME FlowInv, NEW outcome, outcome # "done", Die(outcome)
    PROVE  FlowInv'
BY EndFlow DEF Die

LEMMA StepFlow == IInv /\ [Next]_vars => FlowInv'
<1> SUFFICES ASSUME IInv, [Next]_vars PROVE FlowInv'
  OBVIOUS
<1> USE DEF At, Goto
<1>a. TypeOK /\ FlowInv
  BY DEF IInv
<1>b. ASSUME NEW outcome, outcome # "done", Die(outcome) PROVE FlowInv'
  BY <1>a, <1>b, DieFlow
<1>c. ASSUME UNCHANGED storeVars
      PROVE  /\ PreflightAccepts' = PreflightAccepts
             /\ kver' = kver => Complete(kver)' = Complete(kver)
             /\ kver' = kver => Bootable' = Bootable
  BY <1>c DEF storeVars, fileVars, loaderVars, machineVars, PreflightAccepts,
              Complete, Bootable, ShimAccepts, LoaderImageOurs
<1>d. UNCHANGED machineVars => PreflightAccepts' = PreflightAccepts
  BY DEF machineVars, PreflightAccepts
<1> USE DEF PreflightDone, FilesDone, SigningDone, LoaderDone, AfterModules,
            AfterImage, AfterSigning, AfterInitrd, BeforeSigning
<1>1. ASSUME NEW n \in Kver, NEW p \in Kver, Start(n, p) PROVE FlowInv'
  BY <1>1 DEF Start, FlowInv
<1>2. CASE Preflight
  BY <1>a, <1>b, <1>c, <1>2 DEF Preflight, FlowInv
<1>3. CASE TrialSign \/ SnapshotModules \/ DpkgErrors
  BY <1>a, <1>b, <1>c, <1>3 DEF TrialSign, SnapshotModules, DpkgErrors, FlowInv, storeVars, runVars
<1>4. CASE LockTimeout \/ Crash
  BY <1>b, <1>4 DEF LockTimeout, Crash
<1>5. ASSUME NEW n \in Kver, FinishInterrupted(n) PROVE FlowInv'
  BY <1>a, <1>d, <1>5 DEF FinishInterrupted, FlowInv, runVars
<1>6. CASE UnpackPackages \/ ConfigurePackages
  <2>1. CASE End("crashed")
    BY <1>a, <2>1, EndFlow
  <2>2. CASE pc \in {"dpkg", "configure"} /\ UNCHANGED <<machineVars, runVars>>
             /\ pc' \in {"configure", "repair", "modules"} /\ result' = result
    BY <1>a, <1>d, <2>2 DEF FlowInv, runVars
  <2>3. QED
    BY <1>6, <2>1, <2>2 DEF UnpackPackages, ConfigurePackages
<1>7. CASE Repair
  <2>1. CASE Die("broken")
    BY <1>b, <2>1
  <2>2. CASE pc = "repair" /\ Goto("modules") /\ UNCHANGED <<machineVars, runVars>>
    BY <1>a, <1>d, <2>2 DEF FlowInv, machineVars, runVars
  <2>3. QED
    BY <1>7, <2>1, <2>2 DEF Repair, storeVars
<1>8. CASE CrossCheckModules
  <2>1. CASE Die("no-modules")
    BY <1>b, <2>1
  <2>2. CASE pc = "modules" /\ kver' \in modules /\ Goto("image")
             /\ UNCHANGED <<storeVars, signedNow>>
    BY <1>a, <1>c, <2>2 DEF FlowInv, storeVars, fileVars
  <2>3. QED
    BY <1>8, <2>1, <2>2 DEF CrossCheckModules, runVars
<1>9. CASE CheckImage
  <2>1. CASE Die("no-image")
    BY <1>b, <2>1
  <2>2. CASE pc = "image" /\ kver \in image /\ Goto("sign") /\ UNCHANGED <<storeVars, runVars>>
    BY <1>a, <1>c, <2>2 DEF FlowInv, storeVars, fileVars, runVars
  <2>3. QED
    BY <1>9, <2>1, <2>2 DEF CheckImage
<1>10. CASE Sign
  <2>1. CASE ~key /\ Goto("initramfs") /\ UNCHANGED <<storeVars, runVars>>
    BY <1>a, <1>c, <1>10, <2>1
       DEF Sign, FlowInv, PreflightAccepts, Start, storeVars, fileVars, machineVars, runVars
  <2>2. CASE key /\ SigningFailed("initramfs")
    <3>1. /\ pc = "sign" /\ pc' = IF sb THEN "rollback" ELSE "initramfs"
          /\ result' = result /\ UNCHANGED <<storeVars, kver, signedNow>>
      BY <1>10, <2>2 DEF Sign, SigningFailed, runVars
    <3>2. QED
      BY <1>a, <1>c, <3>1 DEF FlowInv, storeVars, fileVars, machineVars
  <2>3. CASE /\ IF kver \in ours THEN UNCHANGED fileVars ELSE ReplaceWithSigned(kver)
             /\ signedNow' = TRUE /\ Goto("marker")
             /\ UNCHANGED <<machineVars, kver>>
    <3>1. kver \in ours' /\ image' = image /\ modules' = modules
      BY <2>3 DEF ReplaceWithSigned, fileVars
    <3>2. QED
      BY <1>a, <1>d, <1>10, <2>3, <3>1 DEF Sign, FlowInv
  <2>4. QED
    BY <1>10, <2>1, <2>2, <2>3 DEF Sign
<1>11. CASE WriteMarker
  BY <1>a, <1>d, <1>11 DEF WriteMarker, WriteSignedMarker, FlowInv, machineVars, runVars
<1>12. CASE GenerateInitramfs
  <2>1. CASE Die("no-initramfs")
    BY <1>b, <2>1
  <2>2. CASE pc = "initramfs" /\ Goto("initrd")
             /\ UNCHANGED <<ours, image, modules, machineVars, runVars>>
    BY <1>a, <1>d, <2>2 DEF FlowInv, machineVars, runVars
  <2>3. QED
    BY <1>12, <2>1, <2>2 DEF GenerateInitramfs
<1>13. CASE CheckInitramfs
  <2>1. CASE Die("no-initramfs")
    BY <1>b, <2>1
  <2>2. CASE pc = "initrd" /\ kver \in initrd /\ Goto("loader")
             /\ UNCHANGED <<storeVars, runVars>>
    BY <1>a, <1>c, <2>2 DEF FlowInv, storeVars, fileVars, machineVars, runVars
  <2>3. QED
    BY <1>13, <2>1, <2>2 DEF CheckInitramfs
<1>14. CASE UpdateGrub
  BY <1>a, <1>b, <1>d, <1>14
     DEF UpdateGrub, FlowInv, PreflightAccepts, Bootable, ShimAccepts, LoaderImageOurs,
         EspLoaders, fileVars, machineVars, runVars
<1>15. CASE VerifyEntry
  BY <1>a, <1>b, <1>c, <1>15
     DEF VerifyEntry, ThenSync, FlowInv, PreflightAccepts, Bootable, ShimAccepts,
         LoaderImageOurs, EspLoaders, storeVars, fileVars, loaderVars, machineVars, runVars
<1>16. CASE SyncCopy
  BY <1>a, <1>d, <1>16
     DEF SyncCopy, SyncSignedToEsp, RefreshCopy, FlowInv, PreflightAccepts, Bootable,
         ShimAccepts, LoaderImageOurs, EspLoaders, loaderVars, fileVars, machineVars, runVars
<1>17. CASE EspCopyUnsigned
  <2>1. CASE sb
    BY <1>a, <1>c, <1>17, <2>1
       DEF EspCopyUnsigned, SigningFailed, FlowInv, storeVars, fileVars, runVars
  <2>2. CASE ~sb
    <3>1. /\ pc = "espfail" /\ pc' = "summary" /\ result' = result
          /\ UNCHANGED <<storeVars, kver, signedNow>>
      BY <1>17, <2>2 DEF EspCopyUnsigned, SigningFailed
    <3>2. Bootable
      BY <1>a, <3>1, <2>2 DEF FlowInv, Bootable, ShimAccepts
    <3>3. QED
      BY <1>a, <1>c, <3>1, <3>2 DEF FlowInv, storeVars, fileVars, machineVars
  <2>3. QED
    BY <2>1, <2>2
<1>18. CASE Rollback
  BY <1>a, <1>b, <1>18, EndFlow DEF Rollback
<1>19. CASE SetDefault \/ RestoreDefault
  BY <1>a, <1>d, <1>19
     DEF SetDefault, RestoreDefault, FlowInv, Bootable, ShimAccepts, LoaderImageOurs,
         fileVars, loaderVars, machineVars, runVars
<1>20. CASE Finish
  <2>1. Complete(kver) /\ Bootable
    BY <1>a, <1>20 DEF Finish, FlowInv, Complete
  <2>2. QED
    BY <1>a, <1>c, <1>20, <2>1, EndFlow DEF Finish, Die, runVars
<1>21. CASE UNCHANGED vars
  BY <1>a, <1>c, <1>21
     DEF vars, FlowInv, storeVars, fileVars, loaderVars, machineVars, runVars
<1>22. ASSUME NEW v \in Kver, UpdateInterrupted(v) PROVE FlowInv'
  BY <1>a, <1>22 DEF UpdateInterrupted, FlowInv, runVars
<1>23. QED
  BY <1>1, <1>2, <1>3, <1>4, <1>5, <1>6, <1>7, <1>8, <1>9, <1>10, <1>11,
     <1>12, <1>13, <1>14, <1>15, <1>16, <1>17, <1>18, <1>19, <1>20, <1>21, <1>22
  DEF Next

\* dpkg puts a kernel's files into one package, and what the script adds to
\* them it adds to a kernel it found.
LEMMA StepOwn == IInv /\ [Next]_vars => OwnFiles'
<1> SUFFICES ASSUME IInv, [Next]_vars PROVE OwnFiles'
  OBVIOUS
<1> USE DEF At, Goto, End
<1>a. TypeOK /\ FlowInv /\ OwnFiles
  BY DEF IInv
<1>b. pkg \in [Kver -> PkgStates] /\ contents \in [Kver -> Kver] /\ name \in Kver
      /\ payload \in Kver /\ kver \in Kver
  BY <1>a DEF TypeOK, StoreTypeOK
\* No package comes or goes, and no file but a held kernel's appears.
<1>c. ASSUME UNCHANGED <<contents, name, payload>>,
             pc' # "idle" => pc # "idle",
             \A n \in Kver : Present(n)' <=> Present(n),
             \A v \in image' \cup modules' \cup initrd' \cup ours' \cup marker' : Held(v),
             pc' = "configure" => Present(name)
      PROVE  OwnFiles'
  BY <1>a, <1>b, <1>c DEF OwnFiles, OneHolder, Held, HeldByNone
<1>d. ASSUME UNCHANGED <<fileVars, contents, name, payload>>, pc' # "idle" => pc # "idle",
             pc' # "configure"
      PROVE  OwnFiles'
  BY <1>a, <1>c, <1>d DEF OwnFiles, Present, fileVars
<1>e. ASSUME NEW n \in Kver, NEW done \in BOOLEAN, Present(n),
             Configure(n, contents[n], done), UNCHANGED <<contents, name, payload>>,
             pc # "idle", pc' # "configure"
      PROVE  OwnFiles'
  <2>1. \A m \in Kver : Present(m)' <=> Present(m)
    BY <1>b, <1>e, ConfigureFiles DEF Present
  <2>2. /\ image' = image /\ modules' = modules /\ initrd' \subseteq initrd \cup {contents[n]}
        /\ ours' \subseteq ours \cup image /\ marker' \subseteq marker \cup ours'
    BY <1>e, ConfigureFiles DEF Configure
  <2>3. Held(contents[n])
    BY <1>e DEF Held, Present
  <2>4. \A v \in image' \cup modules' \cup initrd' \cup ours' \cup marker' : Held(v)
    BY <1>a, <2>2, <2>3 DEF OwnFiles
  <2>5. QED
    BY <1>c, <1>e, <2>1, <2>4
<1>f. ASSUME NEW n \in Kver, Purge(n, contents[n]), Present(n), pc' # "configure",
             UNCHANGED <<contents, name, payload>>, pc # "idle"
      PROVE  OwnFiles'
  <2>1. \A m \in Kver : Present(m)' <=> Present(m) /\ m # n
    BY <1>b, <1>f, PurgeFiles DEF Present, PkgStates
  <2>2. \A v \in image' \cup modules' \cup initrd' \cup ours' \cup marker' :
           v # contents[n] /\ Held(v)
    BY <1>a, <1>f, PurgeFiles DEF OwnFiles
  <2>3. \A v \in image' \cup modules' \cup initrd' \cup ours' \cup marker' : Held(v)'
    BY <1>f, <2>1, <2>2 DEF Held
  <2>4. QED
    BY <1>a, <1>b, <1>f, <2>1, <2>3 DEF OwnFiles, OneHolder, HeldByNone
<1>g. ASSUME NEW n \in Kver, NEW p \in Kver, Unpack(n, p) \/ HalfUnpack(n, p),
             HeldByNone(n, p), contents' = [contents EXCEPT ![n] = p]
      PROVE  /\ OneHolder'
             /\ \A v \in image' \cup modules' \cup initrd' \cup ours' \cup marker' : Held(v)'
             /\ Present(n)' /\ HeldByNone(n, p)'
  <2>1. /\ \A m \in Kver : Present(m)' <=> Present(m) \/ m = n
        /\ \A m \in Kver \ {n} : contents'[m] = contents[m]
        /\ contents'[n] = p
    BY <1>b, <1>g DEF Unpack, HalfUnpack, Present
  <2>2. /\ image' \subseteq image \cup {p} /\ modules' \subseteq modules \cup {p}
        /\ initrd' = initrd /\ ours' \subseteq ours /\ marker' \subseteq marker
    BY <1>g DEF Unpack, HalfUnpack
  <2>3. \A v \in Kver : Held(v) => Held(v)'
    BY <1>b, <1>g, <2>1 DEF Held, HeldByNone
  <2>4. Held(p)'
    BY <2>1 DEF Held
  <2>5. \A v \in image' \cup modules' \cup initrd' \cup ours' \cup marker' :
           v = p \/ (v \in Kver /\ Held(v))
    BY <1>a, <2>2 DEF OwnFiles, TypeOK, StoreTypeOK
  <2>6. OneHolder' /\ HeldByNone(n, p)'
    BY <1>a, <1>b, <1>g, <2>1 DEF OwnFiles, OneHolder, HeldByNone
  <2>7. \A v \in image' \cup modules' \cup initrd' \cup ours' \cup marker' : Held(v)'
    <3> TAKE v \in image' \cup modules' \cup initrd' \cup ours' \cup marker'
    <3>1. CASE v = p
      BY <2>4, <3>1
    <3>2. CASE v # p
      BY <2>3, <2>5, <3>2
    <3>3. QED
      BY <3>1, <3>2
  <2>8. Present(n)'
    BY <2>1
  <2>9. QED
    BY <2>6, <2>7, <2>8
<1>h. ASSUME NEW n \in Kver, AptFix(n), UNCHANGED <<contents, name, payload>>, pc # "idle",
             pc' # "configure"
      PROVE  OwnFiles'
  BY <1>e, <1>f, <1>h DEF AptFix, Interrupted, Present
<1>i. ASSUME NEW outcome, Die(outcome) PROVE OwnFiles'
  BY <1>d, <1>i DEF Die, storeVars, runVars
<1>1. ASSUME NEW n \in Kver, NEW p \in Kver, Start(n, p) PROVE OwnFiles'
  <2>1. UNCHANGED <<fileVars, contents>> /\ HeldByNone(n, p) /\ name' = n /\ payload' = p
        /\ pc' = "preflight"
    BY <1>1 DEF Start, storeVars
  <2>2. OneHolder' /\ HeldByNone(n, p)'
    BY <1>a, <2>1 DEF OwnFiles, OneHolder, HeldByNone, Present, fileVars
  <2>3. \A v : Held(v)' <=> Held(v)
    BY <2>1 DEF Held, Present, fileVars
  <2>4. QED
    BY <1>a, <2>1, <2>2, <2>3 DEF OwnFiles, HeldByNone, Present, fileVars
<1>2. ASSUME NEW v \in Kver, UpdateInterrupted(v) PROVE OwnFiles'
  BY <1>g, <1>2 DEF UpdateInterrupted, OwnFiles
<1>3. CASE \/ Preflight \/ TrialSign \/ SnapshotModules \/ LockTimeout \/ DpkgErrors
           \/ CrossCheckModules \/ CheckImage \/ CheckInitramfs
  BY <1>d, <1>i, <1>3
     DEF Preflight, TrialSign, SnapshotModules, LockTimeout, DpkgErrors,
         CrossCheckModules, CheckImage, CheckInitramfs, storeVars, runVars
<1>4. ASSUME NEW n \in Kver, FinishInterrupted(n) PROVE OwnFiles'
  <2>1. UNCHANGED <<contents, name, payload, pc>> /\ pc \in {"dpkg", "repair", "rollback"}
    BY <1>4 DEF FinishInterrupted, runVars
  <2>2. CASE pkg[n] = "broken" /\ Unpack(n, contents[n])
    <3>1. HeldByNone(n, contents[n])
      BY <1>a, <2>2 DEF OwnFiles, OneHolder, HeldByNone, Present
    <3>2. contents' = [contents EXCEPT ![n] = contents[n]] /\ contents[n] \in Kver
      BY <1>b, <2>1
    <3>3. \A m \in Kver : Present(m)' <=> Present(m)
      BY <1>b, <2>2 DEF Unpack, Present
    <3>4. /\ OneHolder'
          /\ \A v \in image' \cup modules' \cup initrd' \cup ours' \cup marker' : Held(v)'
      BY <1>g, <2>2, <3>1, <3>2
    <3>5. HeldByNone(name, payload)'
      BY <1>a, <2>1, <3>3 DEF OwnFiles, HeldByNone
    <3>6. QED
      BY <2>1, <3>4, <3>5 DEF OwnFiles
  <2>3. QED
    BY <1>e, <1>h, <1>4, <2>1, <2>2 DEF FinishInterrupted, Present
<1>5. CASE UnpackPackages
  <2>1. /\ HeldByNone(name, payload) /\ contents' = [contents EXCEPT ![name] = payload]
        /\ name' = name /\ payload' = payload
        /\ Unpack(name, payload) \/ HalfUnpack(name, payload)
    BY <1>a, <1>5 DEF UnpackPackages, OwnFiles, runVars
  <2>2. /\ OneHolder' /\ Present(name)' /\ HeldByNone(name, payload)'
        /\ \A v \in image' \cup modules' \cup initrd' \cup ours' \cup marker' : Held(v)'
    BY <1>b, <1>g, <2>1
  <2>3. QED
    BY <2>1, <2>2 DEF OwnFiles, HeldByNone, Present
<1>6. CASE ConfigurePackages
  <2>1. contents[name] = payload /\ Present(name)
    BY <1>a, <1>b, <1>6 DEF ConfigurePackages, OwnFiles, HeldByNone
  <2>2. PICK done \in BOOLEAN : Configure(name, payload, done) /\ pc' \in {"modules", "repair"}
    BY <1>6 DEF ConfigurePackages
  <2>3. UNCHANGED <<contents, name, payload>> /\ pc = "configure"
    BY <1>6 DEF ConfigurePackages, runVars
  <2>4. QED
    BY <1>b, <1>e, <2>1, <2>2, <2>3
<1>7. CASE Repair
  BY <1>d, <1>h, <1>i, <1>7 DEF Repair, storeVars, runVars
<1>8. CASE Rollback
  BY <1>f, <1>i, <1>b, <1>8 DEF Rollback, runVars
<1>9. CASE Sign
  <2>1. CASE UNCHANGED <<fileVars, contents, name, payload>>
    BY <1>d, <1>9, <2>1 DEF Sign, SigningFailed, storeVars, runVars
  <2>2. CASE ReplaceWithSigned(kver) /\ UNCHANGED <<contents, name, payload>> /\ pc' = "marker"
    <3>1. kver \in image
      BY <1>a, <1>9 DEF Sign, FlowInv, FilesDone, AfterImage
    <3>2. \A v \in image' \cup modules' \cup initrd' \cup ours' \cup marker' : Held(v)
      BY <1>a, <2>2, <3>1 DEF ReplaceWithSigned, OwnFiles
    <3>3. QED
      BY <1>c, <1>9, <2>2, <3>2 DEF Sign, ReplaceWithSigned, Present
  <2>3. QED
    BY <1>9, <2>1, <2>2 DEF Sign, SigningFailed, storeVars, runVars
<1>10. CASE WriteMarker
  <2>1. kver \in ours
    BY <1>a, <1>10 DEF WriteMarker, FlowInv, SigningDone, AfterSigning
  <2>2. \A v \in image' \cup modules' \cup initrd' \cup ours' \cup marker' : Held(v)
    BY <1>a, <1>10, <2>1 DEF WriteMarker, WriteSignedMarker, OwnFiles
  <2>3. QED
    BY <1>c, <1>10, <2>2 DEF WriteMarker, WriteSignedMarker, Present, runVars
<1>11. CASE GenerateInitramfs
  <2>1. kver \in image
    BY <1>a, <1>11 DEF GenerateInitramfs, FlowInv, FilesDone, AfterImage, AfterSigning
  <2>2. CASE initrd' \in {initrd, initrd \cup {kver}} /\ pc' = "initrd"
             /\ UNCHANGED <<contents, pkg, image, ours, marker, modules, name, payload>>
    <3>1. \A v \in image' \cup modules' \cup initrd' \cup ours' \cup marker' : Held(v)
      BY <1>a, <2>1, <2>2 DEF OwnFiles
    <3>2. QED
      BY <1>c, <1>11, <2>2, <3>1 DEF GenerateInitramfs, Present
  <2>3. QED
    BY <1>i, <1>11, <2>2 DEF GenerateInitramfs, runVars
<1>12. CASE UpdateGrub \/ VerifyEntry \/ SyncCopy \/ EspCopyUnsigned
  BY <1>d, <1>i, <1>12
     DEF UpdateGrub, VerifyEntry, ThenSync, SyncCopy, EspCopyUnsigned, SigningFailed,
         storeVars, runVars
<1>13. CASE SetDefault \/ RestoreDefault \/ Finish \/ Crash
  BY <1>d, <1>i, <1>13 DEF SetDefault, RestoreDefault, Finish, Crash, storeVars, runVars
<1>14. CASE UNCHANGED vars
  BY <1>a, <1>14
     DEF vars, storeVars, fileVars, runVars, OwnFiles, OneHolder, Held, HeldByNone, Present
<1>15. QED
  BY <1>1, <1>2, <1>3, <1>4, <1>5, <1>6, <1>7, <1>8, <1>9, <1>10, <1>11, <1>12, <1>13, <1>14
  DEF Next

LEMMA IInvInvariant == Spec => []IInv
<1>1. IInv /\ [Next]_vars => IInv'
  BY StepType, StepMarker, StepFlow, StepOwn DEF IInv
<1>2. QED
  BY InitIInv, <1>1, PTL DEF Spec

\* The marker the app reads never claims a signature the image lacks.
THEOREM MarkerIsTruthful == Spec => []MarkerTruthful
<1>1. IInv => MarkerTruthful
  BY DEF IInv
<1>2. QED
  BY IInvInvariant, <1>1, PTL

\* An install that reports success leaves a kernel that boots, from whatever
\* earlier runs, failures and crashes left on the disk.
THEOREM SuccessBoots == Spec => []SuccessIsBootable
<1>1. IInv => SuccessIsBootable
  BY DEF IInv, FlowInv, LoaderDone, Bootable, SuccessIsBootable
<1>2. QED
  BY IInvInvariant, <1>1, PTL

-----------------------------------------------------------------------------
(* The other kernels.                                                      *)

\* Kernel v, whose package was installed when the run began, has what it had.
Keeps(v) ==
    /\ v \in before.image   => v \in image
    /\ v \in before.modules => v \in modules
    /\ v \in before.initrd  => v \in initrd
    /\ v \in before.ours    => v \in ours

\* Removing, unpacking and configuring touch the files of one package's kernel,
\* and that package is the staged one or was cut off: never an installed one.
LEMMA StepOthers == IInv /\ OtherKernelsKept /\ [Next]_vars => OtherKernelsKept'
<1> SUFFICES ASSUME IInv, OtherKernelsKept, [Next]_vars PROVE OtherKernelsKept'
  OBVIOUS
<1> USE DEF At, Goto, End
<1> DEFINE Other(n) == n \in Kver \ {name} /\ before.pkg[n] = "installed"
<1>o. TypeOK /\ OwnFiles /\ name \in Kver /\ payload \in Kver /\ contents \in [Kver -> Kver]
      /\ pkg \in [Kver -> PkgStates]
  BY DEF IInv, TypeOK, StoreTypeOK
<1>p. \A n : Other(n) => pkg[n] = "installed" /\ Keeps(contents[n])
  BY DEF OtherKernelsKept, Keeps
<1>a. ASSUME name' = name, before' = before,
             \A n \in Kver : Other(n) =>
                /\ contents'[n] = contents[n] /\ pkg'[n] = "installed"
                /\ contents[n] \in image   => contents[n] \in image'
                /\ contents[n] \in modules => contents[n] \in modules'
                /\ contents[n] \in initrd  => contents[n] \in initrd'
                /\ contents[n] \in ours    => contents[n] \in ours'
      PROVE  OtherKernelsKept'
  BY <1>a, <1>p DEF OtherKernelsKept, Keeps
<1>b. UNCHANGED <<fileVars, contents, name, before>> => OtherKernelsKept'
  BY <1>a, <1>p DEF fileVars
<1>c. ASSUME NEW outcome, Die(outcome) PROVE OtherKernelsKept'
  BY <1>b, <1>c DEF Die, storeVars, runVars
<1>d. ASSUME NEW n \in Kver, NEW p, NEW done, Configure(n, p, done),
             UNCHANGED <<contents, name, before>>
      PROVE  OtherKernelsKept'
  <2>1. image' = image /\ modules' = modules /\ initrd \subseteq initrd' /\ ours \subseteq ours'
    BY <1>d, ConfigureFiles
  <2>2. \A m \in Kver : pkg[m] = "installed" => pkg'[m] = "installed"
    BY <1>d, <1>o, ConfigureFiles
  <2>3. QED
    BY <1>a, <1>d, <1>p, <2>1, <2>2
\* A package that is removed or unpacked is the run's own or was cut off ...
<1>e. ASSUME NEW n \in Kver, n = name \/ Interrupted(n), Present(n), NEW m \in Kver, Other(m)
      PROVE  m # n /\ contents[m] # contents[n]
  BY <1>e, <1>o, <1>p DEF OwnFiles, OneHolder, Present, Interrupted
\* ... and the staged files are no other package's.
<1>f. ASSUME pc # "idle", NEW m \in Kver, Other(m) PROVE contents[m] # payload
  BY <1>f, <1>o, <1>p DEF OwnFiles, HeldByNone, Present
<1>g. ASSUME NEW n \in Kver, n = name \/ Interrupted(n), Present(n),
             Purge(n, contents[n]) \/ Unpack(n, contents[n]),
             UNCHANGED <<contents, name, before>>
      PROVE  OtherKernelsKept'
  <2>1. \A m \in Kver : Other(m) => m # n /\ contents[m] # contents[n]
    BY <1>e, <1>g
  <2>2. \A m \in Kver : Other(m) => pkg'[m] = pkg[m]
    BY <1>g, <1>o, <2>1 DEF Purge, Unpack
  <2>3. \A v : v # contents[n] =>
           /\ v \in image => v \in image'
           /\ v \in modules => v \in modules'
           /\ v \in initrd => v \in initrd'
           /\ v \in ours => v \in ours'
    BY <1>g DEF Purge, Unpack
  <2>4. QED
    BY <1>a, <1>g, <1>p, <2>1, <2>2, <2>3
<1>h. ASSUME NEW n \in Kver, AptFix(n), UNCHANGED <<contents, name, before>>
      PROVE  OtherKernelsKept'
  BY <1>d, <1>g, <1>h DEF AptFix, Interrupted, Present
<1>1. ASSUME NEW n \in Kver, NEW p \in Kver, Start(n, p) PROVE OtherKernelsKept'
  <2>1. /\ before'.image = image' /\ before'.modules = modules' /\ before'.pkg = pkg'
        /\ before'.initrd = initrd' /\ before'.ours = ours'
    BY <1>1 DEF Start, Disk, storeVars, fileVars
  <2>2. QED
    BY <2>1 DEF OtherKernelsKept
<1>2. CASE \/ Preflight \/ TrialSign \/ SnapshotModules \/ LockTimeout \/ DpkgErrors
           \/ CrossCheckModules \/ CheckImage \/ CheckInitramfs
  BY <1>b, <1>c, <1>2
     DEF Preflight, TrialSign, SnapshotModules, LockTimeout, DpkgErrors,
         CrossCheckModules, CheckImage, CheckInitramfs, storeVars, runVars
<1>3. ASSUME NEW n \in Kver, FinishInterrupted(n) PROVE OtherKernelsKept'
  BY <1>d, <1>g, <1>h, <1>3 DEF FinishInterrupted, Interrupted, Present, runVars
<1>4. CASE UnpackPackages
  <2>1. /\ Unpack(name, payload) \/ HalfUnpack(name, payload)
        /\ contents' = [contents EXCEPT ![name] = payload] /\ name' = name /\ before' = before
        /\ pc # "idle"
    BY <1>4 DEF UnpackPackages, runVars
  <2>2. \A m \in Kver : Other(m) => contents[m] # payload
    BY <1>f, <2>1
  <2>3. \A m \in Kver : Other(m) => pkg'[m] = pkg[m] /\ contents'[m] = contents[m]
    BY <1>o, <2>1 DEF Unpack, HalfUnpack
  <2>4. /\ image \subseteq image' /\ modules \subseteq modules' /\ initrd' = initrd
        /\ \A v : v # payload /\ v \in ours => v \in ours'
    BY <2>1 DEF Unpack, HalfUnpack
  <2>5. QED
    BY <1>a, <1>p, <2>1, <2>2, <2>3, <2>4
<1>5. CASE ConfigurePackages
  BY <1>5, <1>d, <1>o DEF ConfigurePackages, runVars
<1>6. CASE Repair
  BY <1>b, <1>c, <1>h, <1>6 DEF Repair, storeVars, runVars
<1>7. CASE Sign
  <2>1. CASE key /\ SigningFailed("initramfs")
    BY <1>b, <2>1 DEF SigningFailed, storeVars, runVars
  <2>2. CASE ReplaceWithSigned(kver) /\ UNCHANGED <<contents, name, before>>
    BY <1>a, <1>p, <2>2 DEF ReplaceWithSigned
  <2>3. QED
    BY <1>b, <1>7, <2>1, <2>2 DEF Sign, storeVars, runVars
<1>8. CASE WriteMarker
  BY <1>a, <1>p, <1>8 DEF WriteMarker, WriteSignedMarker, runVars
<1>9. CASE GenerateInitramfs
  <2>1. CASE initrd' \in {initrd, initrd \cup {kver}}
             /\ UNCHANGED <<contents, pkg, image, ours, modules, name, before>>
    BY <1>a, <1>p, <2>1
  <2>2. QED
    BY <1>c, <1>9, <2>1 DEF GenerateInitramfs, runVars
<1>10. CASE UpdateGrub \/ VerifyEntry \/ SyncCopy \/ EspCopyUnsigned
  BY <1>b, <1>c, <1>10
     DEF UpdateGrub, VerifyEntry, ThenSync, SyncCopy, EspCopyUnsigned, SigningFailed,
         storeVars, runVars
<1>11. CASE Rollback
  BY <1>c, <1>g, <1>o, <1>11 DEF Rollback, runVars
<1>12. CASE SetDefault \/ RestoreDefault \/ Finish \/ Crash \/ UNCHANGED vars
  BY <1>b, <1>c, <1>12
     DEF SetDefault, RestoreDefault, Finish, Crash, vars, storeVars, runVars
<1>13. ASSUME NEW v \in Kver, UpdateInterrupted(v) PROVE OtherKernelsKept'
  BY <1>13 DEF UpdateInterrupted, Disk, OtherKernelsKept
<1>14. QED
  BY <1>1, <1>2, <1>3, <1>4, <1>5, <1>6, <1>7, <1>8, <1>9, <1>10, <1>11, <1>12, <1>13
  DEF Next

\* Whatever happens to an install, every other kernel whose package was
\* installed when it began stays installed and keeps what it had: what finishing
\* an interrupted package run or repairing with apt removes or unpacks again is
\* a package that was cut off, and holds no installed kernel's files.
THEOREM OthersKept == Spec => []OtherKernelsKept
<1>1. Init => OtherKernelsKept
  BY DEF Init, Disk, OtherKernelsKept
<1>2. QED
  BY <1>1, IInvInvariant, StepOthers, PTL DEF Spec

\* An install changes what the app is told, one kernel at a time, as promised.
LEMMA StepImages == IInv /\ [Next]_vars => [Images!Next]_<<image, ours, marker>>
<1> SUFFICES ASSUME IInv, [Next]_vars PROVE [Images!Next]_<<image, ours, marker>>
  OBVIOUS
<1> USE DEF At
<1>a. TypeOK /\ FlowInv /\ marker \subseteq ours /\ name \in Kver /\ payload \in Kver /\ kver \in Kver
      /\ contents \in [Kver -> Kver]
  BY DEF IInv, TypeOK, MarkerTruthful
<1>b. UNCHANGED fileVars => UNCHANGED <<image, ours, marker>>
  BY DEF fileVars
<1>c. ASSUME NEW outcome, Die(outcome) PROVE UNCHANGED fileVars
  BY <1>c DEF Die, storeVars
<1>d. ASSUME NEW n \in Kver, AptFix(n) PROVE [Images!Next]_<<image, ours, marker>>
  BY <1>a, <1>d, ConfigureSigns, PurgeRemoves DEF AptFix
<1>1. CASE UnpackPackages \/ \E v \in Kver : UpdateInterrupted(v)
  BY <1>a, <1>1, UnpackPuts, HalfUnpackPuts DEF UnpackPackages, UpdateInterrupted
<1>2. CASE ConfigurePackages \/ \E n \in Kver : FinishInterrupted(n)
  BY <1>a, <1>d, <1>2, ConfigureSigns, UnpackPuts DEF ConfigurePackages, FinishInterrupted
<1>3. CASE Repair
  BY <1>a, <1>b, <1>c, <1>d, <1>3 DEF Repair, storeVars
<1>4. CASE Rollback
  BY <1>a, <1>b, <1>c, <1>4, PurgeRemoves DEF Rollback
<1>5. CASE Sign
  <2>1. kver \in image
    BY <1>a, <1>5 DEF Sign, FlowInv, FilesDone, AfterImage
  <2>2. UNCHANGED fileVars \/ ReplaceWithSigned(kver)
    BY <1>5 DEF Sign, SigningFailed, storeVars
  <2>3. QED
    BY <1>a, <1>b, <2>1, <2>2, ReplaceSigns
<1>6. CASE WriteMarker
  <2>1. kver \in ours
    BY <1>a, <1>6 DEF WriteMarker, FlowInv, SigningDone, AfterSigning
  <2>2. QED
    BY <1>a, <1>6, <2>1, MarkerTells DEF WriteMarker
<1>7. CASE GenerateInitramfs
  BY <1>b, <1>c, <1>7 DEF GenerateInitramfs
<1>8. CASE \/ \E n, p \in Kver : Start(n, p)
           \/ Preflight \/ TrialSign \/ SnapshotModules \/ LockTimeout \/ DpkgErrors
           \/ CrossCheckModules \/ CheckImage \/ CheckInitramfs
  BY <1>b, <1>c, <1>8
     DEF Start, Preflight, TrialSign, SnapshotModules, LockTimeout, DpkgErrors,
         CrossCheckModules, CheckImage, CheckInitramfs, storeVars
<1>9. CASE \/ UpdateGrub \/ VerifyEntry \/ SyncCopy \/ EspCopyUnsigned
           \/ SetDefault \/ RestoreDefault \/ Finish \/ Crash \/ UNCHANGED vars
  BY <1>b, <1>c, <1>9
     DEF UpdateGrub, VerifyEntry, ThenSync, SyncCopy, EspCopyUnsigned, SigningFailed,
         SetDefault, RestoreDefault, Finish, Crash, vars, storeVars
<1>10. QED
  BY <1>1, <1>2, <1>3, <1>4, <1>5, <1>6, <1>7, <1>8, <1>9 DEF Next

\* do_install implements SignedImages, through every failure, rollback and crash.
THEOREM InstallKeepsImages == Spec => KeepsImages
<1>1. Init => Images!Init
  BY StoreInitImages DEF Init
<1>2. QED
  BY IInvInvariant, StepImages, <1>1, PTL DEF Spec, KeepsImages, Images!Spec

-----------------------------------------------------------------------------
(* What a run says of itself: a warning for everything it leaves undone, a  *)
(* refusal that refused, a rollback that rolled back.                      *)

\* What the window may say of a finished run: the loader's copy is signed, or
\* SIGN WARNING was printed.
SignedOrSaid ==
    key /\ (bl \in EspLoaders => kver \in entry) /\ "sign" \notin warned
        => LoaderImageOurs(kver)
PendingSaid == sb /\ enrollment = "pending" => "pending" \in warned

Candid ==
    /\ pc \notin {"idle", "preflight"} => PendingSaid
    /\ pc \in AfterSigning /\ key => signedNow \/ "sign" \in warned
    /\ pc \in {"default", "restore", "summary"} => SignedOrSaid
    /\ result = "done" => PendingSaid /\ SignedOrSaid

\* A run has no result yet; until dpkg is next it has changed nothing.
Untouched ==
    /\ pc # "idle" => result = "none"
    /\ pc \in {"preflight", "trial", "snapshot"} \/ result \in Refusals => Disk = before

\* With Secure Boot on the packages' name and their files speak of one kernel:
\* the trial signing saw to it.
OneKernel == sb /\ pc \notin {"idle", "preflight", "trial"} => payload = name

RolledBack ==
    /\ pc = "rollback" => sb
    /\ result = "rolled-back" =>
          /\ name \notin image \cup modules \cup initrd \cup ours \cup marker
          /\ pkg[name] = "none"

\* The ends that are errors.
Stopped == Refusals \cup Failures \cup {"rolled-back", "stuck"}
\* Only the end of a run that has made its entry touches the saved default.
SavedKept ==
    pc \notin {"idle", "restore", "summary"} \/ result \in Stopped
        => saved = before.saved

\* What a run says, and what it owes to be able to say it; inductive beside IInv.
HInv == Candid /\ Untouched /\ OneKernel /\ RolledBack /\ SavedKept

LEMMA InitHonest == Init => HInv
BY DEF Init, HInv, Candid, Untouched, OneKernel, RolledBack, SavedKept, Stopped,
       Refusals, Failures, AfterSigning, AfterInitrd

\* Refusals come before dpkg.
LEMMA StepUntouched == Untouched /\ [Next]_vars => Untouched'
<1> SUFFICES ASSUME Untouched, [Next]_vars PROVE Untouched'
  OBVIOUS
<1> USE DEF At, Goto, End, Refusals
<1>a. UNCHANGED storeVars => Disk' = Disk
  BY DEF Disk, storeVars, fileVars, loaderVars
<1>b. ASSUME NEW outcome, outcome \notin Refusals, End(outcome) PROVE Untouched'
  BY <1>b DEF Untouched
<1>c. ASSUME NEW next, next \notin {"preflight", "trial", "snapshot"}, Goto(next),
             pc # "idle"
      PROVE  Untouched'
  BY <1>c DEF Untouched
<1>1. ASSUME NEW n \in Kver, NEW p \in Kver, Start(n, p) PROVE Untouched'
  BY <1>a, <1>1 DEF Start, Untouched
<1>2. CASE Preflight \/ TrialSign
  BY <1>a, <1>2 DEF Preflight, TrialSign, Die, Untouched
<1>3. CASE SnapshotModules \/ LockTimeout \/ UnpackPackages \/ ConfigurePackages \/ DpkgErrors
  BY <1>b, <1>c, <1>3
     DEF SnapshotModules, LockTimeout, UnpackPackages, ConfigurePackages, DpkgErrors, Die
<1>4. ASSUME NEW n \in Kver, FinishInterrupted(n) PROVE Untouched'
  BY <1>4 DEF FinishInterrupted, Untouched
<1>5. CASE Repair \/ CrossCheckModules \/ CheckImage \/ Sign \/ WriteMarker
  BY <1>b, <1>c, <1>5
     DEF Repair, CrossCheckModules, CheckImage, Sign, SigningFailed, WriteMarker, Die
<1>6. CASE GenerateInitramfs \/ CheckInitramfs \/ UpdateGrub \/ VerifyEntry
  BY <1>b, <1>c, <1>6
     DEF GenerateInitramfs, CheckInitramfs, UpdateGrub, VerifyEntry, ThenSync, Die
<1>7. CASE SyncCopy \/ EspCopyUnsigned \/ Rollback \/ SetDefault
  BY <1>b, <1>c, <1>7
     DEF SyncCopy, EspCopyUnsigned, SigningFailed, Rollback, SetDefault, Die
<1>8. CASE RestoreDefault \/ Finish \/ Crash
  BY <1>b, <1>c, <1>8 DEF RestoreDefault, Finish, Crash, Die
<1>9. CASE UNCHANGED vars
  BY <1>a, <1>9 DEF vars, Untouched
<1>10. ASSUME NEW v \in Kver, UpdateInterrupted(v) PROVE Untouched'
  BY <1>10 DEF UpdateInterrupted, Untouched
<1>11. QED
  BY <1>1, <1>2, <1>3, <1>4, <1>5, <1>6, <1>7, <1>8, <1>9, <1>10 DEF Next

\* Only a new run has other packages.
LEMMA StepOneKernel == IInv /\ OneKernel /\ [Next]_vars => OneKernel'
<1> SUFFICES ASSUME IInv, OneKernel, [Next]_vars PROVE OneKernel'
  OBVIOUS
<1> USE DEF At, Goto, End
<1>a. PreflightDone
  BY DEF IInv, FlowInv
<1>b. ASSUME pc' = "idle" \/ pc \notin {"idle", "preflight", "trial"},
             UNCHANGED <<sb, name, payload>>
      PROVE  OneKernel'
  BY <1>b DEF OneKernel
<1>1. ASSUME NEW n \in Kver, NEW p \in Kver, Start(n, p) PROVE OneKernel'
  BY <1>1 DEF Start, OneKernel
<1>2. CASE Preflight
  BY <1>b, <1>2 DEF Preflight, PreflightAccepts, OneKernel, Die, storeVars, machineVars, runVars
<1>3. CASE TrialSign
  BY <1>b, <1>3 DEF TrialSign, OneKernel, Die, storeVars, machineVars, runVars
<1>4. CASE LockTimeout \/ Finish \/ Crash
  BY <1>b, <1>4 DEF LockTimeout, Finish, Crash, Die, storeVars, machineVars, runVars
<1>5. CASE \/ SnapshotModules \/ UnpackPackages \/ ConfigurePackages \/ DpkgErrors \/ Repair
  BY <1>b, <1>5
     DEF SnapshotModules, UnpackPackages, ConfigurePackages, DpkgErrors, Repair, Die,
         storeVars, machineVars, runVars
<1>6. ASSUME NEW n \in Kver, FinishInterrupted(n) PROVE OneKernel'
  BY <1>b, <1>6 DEF FinishInterrupted, machineVars, runVars
<1>7. CASE \/ CrossCheckModules \/ CheckImage \/ GenerateInitramfs \/ CheckInitramfs
           \/ Sign \/ WriteMarker
  BY <1>b, <1>7
     DEF CrossCheckModules, CheckImage, GenerateInitramfs, CheckInitramfs, Sign,
         SigningFailed, WriteMarker, Die, storeVars, machineVars, runVars
<1>8. CASE \/ UpdateGrub \/ VerifyEntry \/ SyncCopy \/ EspCopyUnsigned
           \/ SetDefault \/ RestoreDefault \/ Rollback
  BY <1>b, <1>8
     DEF UpdateGrub, VerifyEntry, ThenSync, SyncCopy, EspCopyUnsigned, SigningFailed,
         SetDefault, RestoreDefault, Rollback, Die, storeVars, machineVars, runVars
<1>9. CASE UNCHANGED vars
  BY <1>9 DEF vars, OneKernel, storeVars, machineVars, runVars
<1>10. ASSUME NEW v \in Kver, UpdateInterrupted(v) PROVE OneKernel'
  BY <1>b, <1>10 DEF UpdateInterrupted, machineVars, runVars
<1>11. QED
  BY <1>1, <1>2, <1>3, <1>4, <1>5, <1>6, <1>7, <1>8, <1>9, <1>10 DEF Next

\* A rollback is taken with Secure Boot on alone, so it purges the very kernel
\* the packages are named for; if dpkg does not have it, no package holds it.
LEMMA StepRolledBack == IInv /\ Untouched /\ OneKernel /\ RolledBack /\ [Next]_vars => RolledBack'
<1> SUFFICES ASSUME IInv, Untouched, OneKernel, RolledBack, [Next]_vars PROVE RolledBack'
  OBVIOUS
<1> USE DEF At, Goto, End
<1>a. ASSUME pc # "idle", pc' # "rollback", result' # "rolled-back" PROVE RolledBack'
  BY <1>a DEF RolledBack
<1>b. ASSUME NEW outcome, outcome # "rolled-back", End(outcome), pc # "idle" PROVE RolledBack'
  BY <1>a, <1>b
<1>c. ASSUME NEW next, next # "rollback", Goto(next), pc # "idle" PROVE RolledBack'
  BY <1>a, <1>c DEF Untouched
<1>d. ASSUME UNCHANGED <<sb, result>>, sb, pc # "idle" PROVE RolledBack'
  BY <1>d DEF RolledBack, Untouched
<1>1. ASSUME NEW n \in Kver, NEW p \in Kver, Start(n, p) PROVE RolledBack'
  BY <1>1 DEF Start, RolledBack
<1>2. CASE \/ Preflight \/ TrialSign \/ SnapshotModules \/ LockTimeout
           \/ UnpackPackages \/ ConfigurePackages \/ DpkgErrors
  BY <1>b, <1>c, <1>2
     DEF Preflight, TrialSign, SnapshotModules, LockTimeout, UnpackPackages,
         ConfigurePackages, DpkgErrors, Die
<1>3. ASSUME NEW n \in Kver, FinishInterrupted(n) PROVE RolledBack'
  BY <1>3 DEF FinishInterrupted, RolledBack, Untouched, machineVars
<1>4. CASE Repair \/ CrossCheckModules \/ CheckImage \/ WriteMarker
  BY <1>b, <1>c, <1>4 DEF Repair, CrossCheckModules, CheckImage, WriteMarker, Die
<1>5. CASE Sign \/ EspCopyUnsigned
  BY <1>c, <1>d, <1>5
     DEF Sign, EspCopyUnsigned, SigningFailed, storeVars, machineVars
<1>6. CASE GenerateInitramfs \/ CheckInitramfs \/ UpdateGrub \/ VerifyEntry
  BY <1>b, <1>c, <1>6
     DEF GenerateInitramfs, CheckInitramfs, UpdateGrub, VerifyEntry, ThenSync, Die
<1>7. CASE SyncCopy \/ SetDefault \/ RestoreDefault \/ Finish \/ Crash
  BY <1>b, <1>c, <1>7 DEF SyncCopy, SetDefault, RestoreDefault, Finish, Crash, Die
<1>8. CASE Rollback
  <2>0. payload = name /\ HeldByNone(name, payload) /\ TypeOK /\ OwnFiles
    BY <1>8 DEF Rollback, RolledBack, OneKernel, IInv, OwnFiles
  <2>1. CASE Present(name) /\ Purge(name, contents[name]) /\ name' = name /\ pc' = "idle"
    <3>1. contents[name] = name
      BY <2>0, <2>1 DEF HeldByNone, TypeOK
    <3>2. name' \notin image' \cup modules' \cup initrd' \cup ours' \cup marker'
      BY <2>1, <3>1, PurgeFiles
    <3>3. pkg'[name'] = "none"
      BY <2>0, <2>1 DEF TypeOK, StoreTypeOK, Purge
    <3>4. QED
      BY <2>1, <3>2, <3>3 DEF RolledBack
  <2>2. CASE ~Present(name) /\ Die("rolled-back")
    <3>1. ~Held(name) /\ pkg[name] = "none"
      BY <2>0, <2>2 DEF Held, HeldByNone, Present
    <3>2. name \notin image \cup modules \cup initrd \cup ours \cup marker
      BY <2>0, <3>1 DEF OwnFiles
    <3>3. QED
      BY <2>2, <3>1, <3>2 DEF RolledBack, Die, storeVars, fileVars, runVars
  <2>3. QED
    BY <1>b, <1>8, <2>1, <2>2 DEF Rollback, Die, runVars
<1>9. CASE UNCHANGED vars
  BY <1>9 DEF vars, storeVars, fileVars, machineVars, runVars, RolledBack
<1>10. ASSUME NEW v \in Kver, UpdateInterrupted(v) PROVE RolledBack'
  BY <1>10 DEF UpdateInterrupted, RolledBack
<1>11. QED
  BY <1>1, <1>2, <1>3, <1>4, <1>5, <1>6, <1>7, <1>8, <1>9, <1>10 DEF Next

\* Whatever is left undone is said before the run goes on, and what has been
\* said is never taken back.
LEMMA StepCandid == IInv /\ Untouched /\ Candid /\ [Next]_vars => Candid'
<1> SUFFICES ASSUME IInv, Untouched, Candid, [Next]_vars PROVE Candid'
  OBVIOUS
<1> USE DEF At, Goto, End, AfterSigning, AfterInitrd
<1>a. TypeOK /\ FlowInv /\ (pc # "idle" => result = "none")
  BY DEF IInv, Untouched
<1>b. ASSUME NEW outcome, outcome # "done", End(outcome) PROVE Candid'
  BY <1>b DEF Candid
<1>c. UNCHANGED <<sb, enrollment, warned>> => PendingSaid' = PendingSaid
  BY DEF PendingSaid
<1>d. UNCHANGED <<storeVars, kver, warned>> => SignedOrSaid' = SignedOrSaid
  BY DEF SignedOrSaid, LoaderImageOurs, storeVars, fileVars, loaderVars, machineVars
<1>e. PendingSaid /\ UNCHANGED <<sb, enrollment>> /\ warned \subseteq warned' => PendingSaid'
  BY DEF PendingSaid
\* From before signing to before signing.
<1>f. ASSUME pc \in BeforeSigning \cup {"rollback"}, pc' \in BeforeSigning \cup {"rollback"},
             UNCHANGED <<sb, enrollment, warned, result>>, pc # "preflight", pc' # "preflight"
      PROVE  Candid'
  BY <1>a, <1>c, <1>f DEF Candid, BeforeSigning
\* From signing to short of the summary.
<1>g. ASSUME pc \in AfterSigning, pc' \in AfterSigning \ {"default", "restore", "summary"},
             UNCHANGED <<sb, enrollment, warned, key, signedNow, result>>
      PROVE  Candid'
  BY <1>a, <1>c, <1>g DEF Candid
\* ... to the summary.
<1>h. ASSUME pc \in AfterSigning, pc' \in {"default", "restore", "summary"},
             UNCHANGED <<sb, enrollment, key, signedNow, result>>,
             warned \subseteq warned', SignedOrSaid'
      PROVE  Candid'
  BY <1>a, <1>e, <1>h DEF Candid
<1>1. ASSUME NEW n \in Kver, NEW p \in Kver, Start(n, p) PROVE Candid'
  BY <1>1 DEF Start, Candid
<1>2. CASE Preflight
  BY <1>a, <1>b, <1>2 DEF Preflight, Candid, PendingSaid, Die, storeVars, machineVars
<1>3. CASE TrialSign \/ SnapshotModules \/ DpkgErrors \/ CrossCheckModules \/ CheckImage
  BY <1>b, <1>f, <1>3
     DEF TrialSign, SnapshotModules, DpkgErrors, CrossCheckModules, CheckImage, Die,
         BeforeSigning, storeVars, machineVars, runVars
<1>4. CASE LockTimeout \/ Crash
  BY <1>b, <1>4 DEF LockTimeout, Crash, Die
<1>5. ASSUME NEW n \in Kver, FinishInterrupted(n) PROVE Candid'
  BY <1>f, <1>5 DEF FinishInterrupted, BeforeSigning, machineVars, runVars
<1>6. CASE UnpackPackages \/ ConfigurePackages \/ Repair
  BY <1>b, <1>f, <1>6
     DEF UnpackPackages, ConfigurePackages, Repair, Die, BeforeSigning, storeVars,
         machineVars, runVars
<1>7. CASE Sign
  <2>1. pc = "sign" /\ PendingSaid
    BY <1>7 DEF Sign, Candid
  <2>2. UNCHANGED <<sb, key, enrollment>> /\ warned \subseteq warned' /\ result' = result
    BY <1>7 DEF Sign, SigningFailed, storeVars, machineVars, runVars
  <2>3. pc' \in {"marker", "initramfs"} /\ key => signedNow' \/ "sign" \in warned'
    BY <1>7 DEF Sign, SigningFailed
  <2>4. pc' \in {"marker", "initramfs", "rollback"}
    BY <1>7 DEF Sign, SigningFailed
  <2>5. QED
    BY <1>a, <1>e, <2>1, <2>2, <2>3, <2>4 DEF Candid
<1>8. CASE WriteMarker \/ GenerateInitramfs \/ CheckInitramfs
  BY <1>b, <1>g, <1>8
     DEF WriteMarker, GenerateInitramfs, CheckInitramfs, Die, storeVars, machineVars, runVars
<1>9. CASE UpdateGrub
  <2>1. CASE Die("no-grub")
    BY <1>b, <2>1 DEF Die
  <2>2. CASE /\ pc = "loader" /\ bl = "grub" /\ pc' \in {"default", "summary"} /\ result' = result
             /\ UNCHANGED <<fileVars, machineVars, runVars>>
    <3>1. key /\ "sign" \notin warned => kver \in ours
      BY <1>a, <2>2 DEF Candid, FlowInv, SigningDone
    <3>2. SignedOrSaid'
      BY <2>2, <3>1 DEF SignedOrSaid, LoaderImageOurs, EspLoaders, fileVars, machineVars, runVars
    <3>3. QED
      BY <1>h, <2>2, <3>2 DEF machineVars, runVars
  <2>3. QED
    BY <1>9, <2>1, <2>2 DEF UpdateGrub
<1>10. CASE VerifyEntry
  <2>1. CASE End("no-entry")
    BY <1>b, <2>1
  <2>2. CASE Goto("sync") /\ UNCHANGED <<storeVars, runVars>>
    BY <1>g, <1>10, <2>2 DEF VerifyEntry, storeVars, machineVars, runVars
  <2>3. CASE Goto("summary") /\ UNCHANGED <<storeVars, runVars>>
    <3>1. key /\ "sign" \notin warned => signedNow /\ kver \in ours
      BY <1>a, <1>10 DEF VerifyEntry, Candid, FlowInv, SigningDone
    <3>2. key /\ "sign" \notin warned
            => bl = "unknown" \/ (bl = "kernelstub" /\ kver \notin entry)
      BY <1>10, <2>3, <3>1 DEF VerifyEntry, ThenSync, Die
    <3>3. SignedOrSaid
      BY <3>1, <3>2 DEF SignedOrSaid, LoaderImageOurs, EspLoaders
    <3>4. QED
      BY <1>d, <1>h, <1>10, <2>3, <3>3 DEF VerifyEntry, storeVars, machineVars, runVars
  <2>4. QED
    BY <1>10, <2>1, <2>2, <2>3 DEF VerifyEntry, ThenSync, Die
<1>11. CASE SyncCopy
  <2>1. UNCHANGED <<fileVars, machineVars, runVars>> /\ pc = "sync"
        /\ pc' \in {"summary", "espfail"} /\ result' = result
    BY <1>11 DEF SyncCopy
  <2>2. ASSUME pc' = "summary" PROVE SignedOrSaid'
    <3>1. SyncSignedToEsp(kver, TRUE)
      BY <1>11, <2>2 DEF SyncCopy
    <3>2. \/ kver \in espOurs'
          \/ (bl \notin EspLoaders \/ kver \notin entry) /\ UNCHANGED loaderVars
      BY <3>1 DEF SyncSignedToEsp
    <3>3. key /\ "sign" \notin warned => kver \in ours
      BY <1>a, <2>1 DEF Candid, FlowInv, SigningDone
    <3>4. QED
      BY <2>1, <3>2, <3>3
         DEF SignedOrSaid, LoaderImageOurs, fileVars, loaderVars, machineVars, runVars
  <2>3. QED
    BY <1>g, <1>h, <2>1, <2>2 DEF machineVars, runVars
<1>12. CASE EspCopyUnsigned
  <2>1. CASE sb
    BY <1>a, <1>c, <1>12, <2>1 DEF EspCopyUnsigned, SigningFailed, Candid, storeVars, machineVars, runVars
  <2>2. CASE ~sb
    <3>1. /\ pc = "espfail" /\ pc' = "summary" /\ result' = result
          /\ warned' = warned \cup {"sign"} /\ UNCHANGED <<storeVars, signedNow>>
      BY <1>12, <2>2 DEF EspCopyUnsigned, SigningFailed
    <3>2. SignedOrSaid'
      BY <3>1 DEF SignedOrSaid
    <3>3. QED
      BY <1>h, <3>1, <3>2 DEF storeVars, machineVars
  <2>3. QED
    BY <2>1, <2>2
<1>13. CASE Rollback
  BY <1>b, <1>13 DEF Rollback, Die
<1>14. CASE SetDefault \/ RestoreDefault
  <2>1. pc \in {"default", "restore"} /\ pc' \in {"restore", "summary"} /\ result' = result
        /\ UNCHANGED <<fileVars, loaderVars, machineVars, kver, warned, signedNow>>
    BY <1>14 DEF SetDefault, RestoreDefault, runVars
  <2>2. SignedOrSaid'
    BY <2>1 DEF Candid, SignedOrSaid, LoaderImageOurs, fileVars, loaderVars, machineVars
  <2>3. QED
    BY <1>h, <2>1, <2>2 DEF machineVars
<1>15. CASE Finish
  <2>1. PendingSaid /\ SignedOrSaid
    BY <1>15 DEF Finish, Candid
  <2>2. PendingSaid' /\ SignedOrSaid'
    BY <1>c, <1>d, <1>15, <2>1 DEF Finish, Die, storeVars, machineVars, runVars
  <2>3. QED
    BY <1>15, <2>2 DEF Finish, Die, Candid
<1>16. CASE UNCHANGED vars
  BY <1>c, <1>d, <1>16 DEF vars, Candid, storeVars, machineVars, runVars
<1>17. ASSUME NEW v \in Kver, UpdateInterrupted(v) PROVE Candid'
  BY <1>17 DEF UpdateInterrupted, Candid
<1>18. QED
  BY <1>1, <1>2, <1>3, <1>4, <1>5, <1>6, <1>7, <1>8, <1>9, <1>10, <1>11,
     <1>12, <1>13, <1>14, <1>15, <1>16, <1>17
  DEF Next

\* Only SetDefault and RestoreDefault write the saved default, and no step
\* after them ends the run with an error.
LEMMA StepSavedKept == Untouched /\ SavedKept /\ [Next]_vars => SavedKept'
<1> SUFFICES ASSUME Untouched, SavedKept, [Next]_vars PROVE SavedKept'
  OBVIOUS
<1> USE DEF At, Goto, End, SavedKept
<1>a. ASSUME NEW outcome, End(outcome), UNCHANGED saved,
             pc \notin {"idle", "restore", "summary"} \/ outcome \notin Stopped
      PROVE  SavedKept'
  BY <1>a
<1>b. ASSUME UNCHANGED <<saved, before>>, pc \notin {"idle", "restore", "summary"}
      PROVE  SavedKept'
  BY <1>b
<1>1. ASSUME NEW n \in Kver, NEW p \in Kver, Start(n, p) PROVE SavedKept'
  BY <1>1 DEF Start, Disk, storeVars
<1>2. CASE \/ Preflight \/ TrialSign \/ SnapshotModules \/ LockTimeout
           \/ UnpackPackages \/ ConfigurePackages \/ DpkgErrors \/ Repair
  BY <1>b, <1>2
     DEF Preflight, TrialSign, SnapshotModules, LockTimeout, UnpackPackages,
         ConfigurePackages, DpkgErrors, Repair, Die, storeVars
<1>3. ASSUME NEW n \in Kver, FinishInterrupted(n) PROVE SavedKept'
  BY <1>b, <1>3 DEF FinishInterrupted
<1>4. CASE \/ CrossCheckModules \/ CheckImage \/ Sign \/ WriteMarker
           \/ GenerateInitramfs \/ CheckInitramfs
  BY <1>b, <1>4
     DEF CrossCheckModules, CheckImage, Sign, SigningFailed, WriteMarker,
         GenerateInitramfs, CheckInitramfs, Die, storeVars
<1>5. CASE UpdateGrub \/ VerifyEntry \/ SyncCopy \/ EspCopyUnsigned \/ Rollback
  BY <1>b, <1>5
     DEF UpdateGrub, VerifyEntry, ThenSync, SyncCopy, EspCopyUnsigned, SigningFailed,
         Rollback, Die, storeVars
<1>6. CASE SetDefault \/ RestoreDefault
  BY <1>6 DEF SetDefault, RestoreDefault, Untouched, Stopped, Refusals, Failures
<1>7. CASE Finish \/ Crash
  BY <1>a, <1>7 DEF Finish, Crash, Die, storeVars, Stopped, Refusals, Failures
<1>8. CASE UNCHANGED vars
  BY <1>8 DEF vars, storeVars
<1>9. ASSUME NEW v \in Kver, UpdateInterrupted(v) PROVE SavedKept'
  BY <1>9 DEF UpdateInterrupted, Stopped, Refusals, Failures
<1>10. QED
  BY <1>1, <1>2, <1>3, <1>4, <1>5, <1>6, <1>7, <1>8, <1>9 DEF Next

LEMMA HInvInvariant == Spec => [](IInv /\ HInv)
<1>1. IInv /\ HInv /\ [Next]_vars => HInv'
  BY StepUntouched, StepOneKernel, StepRolledBack, StepCandid, StepSavedKept DEF HInv
<1>2. QED
  BY IInvInvariant, InitHonest, <1>1, PTL DEF Spec

\* "Reboot to activate" is said of signed kernels alone, when there is a key.
THEOREM SuccessSaysAll == Spec => []SuccessIsCandid
<1>1. HInv => SuccessIsCandid
  BY DEF HInv, Candid, SignedOrSaid, PendingSaid, SuccessIsCandid, OutcomeMessage, ScriptReport
<1>2. QED
  BY HInvInvariant, <1>1, PTL

\* "Nothing was installed" and "removed again" are true when they are said.
THEOREM FailureSaysTrue == Spec => []FailureIsAsReported
<1>1. HInv => FailureIsAsReported
  BY DEF HInv, Untouched, RolledBack, FailureIsAsReported
<1>2. QED
  BY HInvInvariant, <1>1, PTL

\* The saved default moves to a kernel that boots or back, and an error leaves
\* it where it was.
THEOREM DefaultMoves == Spec => DefaultMovesOnlyToBootable
<1>1. ASSUME IInv, [Next]_vars, saved' # saved
      PROVE  \/ saved' = prevSaved
             \/ saved' = kver /\ Complete(kver) /\ kver \in entry /\ ShimAccepts(kver)
  <2>1. SetDefault \/ RestoreDefault
    BY <1>1
       DEF Next, UpdateInterrupted, Start, Preflight, TrialSign, SnapshotModules, LockTimeout,
           FinishInterrupted, UnpackPackages, ConfigurePackages, DpkgErrors, Repair,
           CrossCheckModules, CheckImage, Sign, SigningFailed, WriteMarker,
           GenerateInitramfs, CheckInitramfs, UpdateGrub, VerifyEntry, ThenSync, SyncCopy,
           EspCopyUnsigned, Rollback, Finish, Crash, Die, vars, storeVars
  <2>2. CASE RestoreDefault
    BY <1>1, <2>2 DEF RestoreDefault
  <2>3. CASE SetDefault
    <3>1. saved' = kver /\ kver \in entry /\ pc = "default"
      BY <1>1, <2>3 DEF SetDefault, At
    <3>2. Complete(kver) /\ ShimAccepts(kver)
      BY <1>1, <3>1
         DEF IInv, FlowInv, FilesDone, LoaderDone, Bootable, Complete, AfterModules,
             AfterImage, AfterSigning, AfterInitrd
    <3>3. QED
      BY <3>1, <3>2
  <2>4. QED
    BY <2>1, <2>2, <2>3
<1>2. HInv' => (result' \in Refusals \cup Failures \cup {"rolled-back", "stuck"}
                  => saved' = before'.saved)
  BY DEF HInv, SavedKept, Stopped
<1>3. IInv /\ HInv /\ HInv' /\ [Next]_vars
        => [/\ saved' # saved =>
                 \/ saved' = prevSaved
                 \/ saved' = kver /\ Complete(kver) /\ kver \in entry /\ ShimAccepts(kver)
            /\ result' \in Refusals \cup Failures \cup {"rolled-back", "stuck"}
                 => saved' = before'.saved]_vars
  BY <1>1, <1>2
<1>4. QED
  BY HInvInvariant, <1>3, PTL DEF Spec, DefaultMovesOnlyToBootable

=============================================================================
