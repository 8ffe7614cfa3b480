---------------------------- MODULE ManageProofs ----------------------------
(* Theorems about Manage, for every set of kernels, every machine, and any  *)
(* number of runs and of steps of apt.                                      *)
EXTENDS Manage, KernelStoreProofs, FiniteSetTheorems, WellFoundedInduction

USE KverAssumption, ManageAssumption

-----------------------------------------------------------------------------
(* The inductive invariant.                                                *)

\* The steps that work on one kernel.
Removing == {"check", "purge", "loader"}
Signing  == {"sign", "replace", "marker", "sync"}

\* Where a run is: what it works on was there when it started, and is what the
\* mode allows.
CursorInv ==
    /\ todo \subseteq before.image
    /\ pc \in Removing \cup Signing => cur \in before.image
    /\ pc \in Removing => mode \in {"remove", "remove-many"}
    /\ pc \in Signing => mode \in {"sign", "setup"}
    /\ pc = "hooks" => mode = "setup"
    /\ pc = "next" /\ mode \in {"sign", "remove"} => todo # {}
    /\ pc # "idle" => result = "none"
    /\ pc \in {"purge", "loader"} => cur # running
    /\ pc \in Removing /\ mode = "remove-many" => cur # newest

\* Signatures and markers are on images; one just put there stays.
FilesInv ==
    /\ marker \subseteq ours /\ ours \subseteq image
    /\ pc \in {"marker", "sync"} /\ cur \in image => cur \in ours

\* The running kernel is whole, and do_remove_many keeps what is as new as the
\* newest that was there.
KeptInv ==
    /\ KernelsKept
    /\ mode = "remove-many" => newest \in before.image /\ \A w \in before.image : w <= newest

\* What was removed is gone; kernelstub forgets a kernel with its package.
MenuInv ==
    /\ RemovedLeavesMenu
    /\ mode \in {"sign", "setup"} => removed = {}
    /\ pc = "loader" => cur \notin image /\ pkg[cur] = "none"
    /\ bl = "kernelstub" =>
         \A v \in before.image : before.pkg[v] # "none" /\ pkg[v] = "none" => v \notin entry

\* The boot loader starts a signed image, or has a copy of none.
Reaches(v) == v \in ours /\ (LoaderImageOurs(v) \/ NoCopyToCheck(v))

\* After a --sign that succeeded.
LoaderInv ==
    mode = "sign" /\ result = "done" => cur \in before.image /\ (cur \in image => Reaches(cur))

ManageInv == TypeOK /\ CursorInv /\ FilesInv /\ KeptInv /\ MenuInv /\ LoaderInv

-----------------------------------------------------------------------------
(* The newest kernel.                                                      *)

\* A set of kernels that is not empty has a newest: the sets of those newer
\* than one of them are well-founded by inclusion, and the least is empty.
LEMMA NewestIsMax ==
    ASSUME NEW K \in SUBSET Kver, K # {}
    PROVE  Newest(K) \in K /\ \A w \in K : w <= Newest(K)
<1> DEFINE Above(v) == {w \in K : w > v}
<1> DEFINE T == {Above(v) : v \in K}
<1>1. K \subseteq Nat
  OBVIOUS
<1>2. \A v \in K : Above(v) \in FiniteSubsetsOf(K)
  <2>1. IsFiniteSet(K)
    BY FS_Subset
  <2>2. FiniteSubsetsOf(K) = SUBSET K
    BY <2>1, FS_FiniteSubsetsOfFinite
  <2>3. QED
    BY <2>2
<1>3. T \subseteq FiniteSubsetsOf(K) /\ T # {}
  BY <1>2
<1>4. IsWellFoundedOn(StrictSubsetOrdering(K), FiniteSubsetsOf(K))
  BY FS_StrictSubsetOrderingWellFounded
<1>5. PICK A \in T : \A B \in T : <<B, A>> \notin StrictSubsetOrdering(K)
  <2> HIDE DEF T
  <2> QED
    BY <1>3, <1>4, WFMin
<1>6. PICK v \in K : A = Above(v)
  BY <1>5
<1>7. \A w \in K : w <= v
  <2>1. SUFFICES ASSUME NEW w \in K, w > v PROVE FALSE
    BY <1>1
  <2>2. Above(w) \subseteq Above(v) /\ w \in Above(v) /\ w \notin Above(w)
    <3>1. v \in Nat /\ w \in Nat /\ ~(w > w)
      BY <1>1
    <3>2. \A x \in K : x > w => x > v
      BY <1>1, <2>1
    <3>3. QED
      BY <2>1, <3>1, <3>2
  <2>3. Above(w) \in SUBSET K /\ Above(v) \in SUBSET K /\ Above(w) \in T
    OBVIOUS
  <2>4. <<Above(w), Above(v)>> \in StrictSubsetOrdering(K)
    <3> HIDE DEF Above
    <3>1. Above(w) # Above(v)
      BY <2>2
    <3>2. <<Above(w), Above(v)>> \in (SUBSET K) \X (SUBSET K)
      BY <2>3
    <3>3. QED
      BY <2>2, <3>1, <3>2 DEF StrictSubsetOrdering
  <2>5. QED
    BY <1>5, <1>6, <2>3, <2>4
<1>8. QED
  BY <1>7 DEF Newest

-----------------------------------------------------------------------------
(* What the steps do to a run.                                             *)

\* A kernel is through: a mode for one kernel ends, a loop goes on.
LEMMA ThroughDoes ==
    ASSUME TypeOK, NEW fail \in BOOLEAN, NEW warn \in BOOLEAN, Through(fail, warn)
    PROVE  /\ failed' \in BOOLEAN /\ warned' \in BOOLEAN
           /\ UNCHANGED <<mode, todo, cur, newest, before, runs, others>>
           /\ mode \in {"remove", "sign"} =>
                pc' = "idle" /\ result' = IF fail THEN "failed" ELSE "done"
           /\ mode \in {"remove-many", "setup"} => pc' = "next" /\ result' = result
BY DEF Through, End, Goto, TypeOK

\* The steps that leave the store alone.
Quiet == LoopEnds \/ CheckRemove \/ SignCopy \/ Crash

LEMMA QuietDoes ==
    ASSUME ManageInv, Quiet
    PROVE  /\ UNCHANGED <<storeVars, mode, todo, cur, newest, removed, before, runs, others>>
           /\ failed' \in BOOLEAN /\ warned' \in BOOLEAN
           /\ \/ pc' = "idle" /\ result' \in {"failed", "crashed"}
              \/ pc' = "idle" /\ result' = "done" /\ mode \notin {"sign", "setup"}
              \/ pc' = "next" /\ result' = result /\ mode \in {"remove-many", "setup"} /\ pc # "idle"
              \/ pc' = "hooks" /\ result' = result /\ mode = "setup" /\ pc = "next"
              \/ pc = "check" /\ pc' = "purge" /\ result' = result /\ cur # running
              \/ pc = "sign" /\ pc' = "marker" /\ result' = result /\ cur \in ours
              \/ pc = "sign" /\ pc' = "replace" /\ result' = result
<1>1. TypeOK /\ CursorInv
  BY DEF ManageInv
<1>2. mode \in Modes /\ failed \in BOOLEAN /\ warned \in BOOLEAN
  BY <1>1 DEF TypeOK
<1>3. CASE LoopEnds
  BY <1>1, <1>2, <1>3 DEF LoopEnds, Goto, End, RunSame, runVars, CursorInv, Modes
<1>4. CASE CheckRemove
  <2>1. CASE cur # running /\ Goto("purge") /\ RunSame
    BY <1>2, <1>4, <2>1 DEF CheckRemove, Goto, RunSame, runVars
  <2>2. CASE Through(TRUE, FALSE) /\ UNCHANGED removed
    <3>1. pc = "check" /\ mode \in {"remove", "remove-many"}
      BY <1>1, <1>4 DEF CheckRemove, CursorInv, Removing
    <3>2. QED
      BY <1>1, <1>4, <2>2, <3>1, ThroughDoes DEF CheckRemove
  <2>3. QED
    BY <1>4, <2>1, <2>2 DEF CheckRemove
<1>5. CASE SignCopy
  <2>1. CASE Through(TRUE, TRUE) /\ UNCHANGED removed
    <3>1. pc = "sign" /\ mode \in {"sign", "setup"}
      BY <1>1, <1>5 DEF SignCopy, CursorInv, Signing
    <3>2. QED
      BY <1>1, <1>5, <2>1, <3>1, ThroughDoes DEF SignCopy
  <2>2. CASE key /\ cur \in image /\ Goto(IF cur \in ours THEN "marker" ELSE "replace") /\ RunSame
    BY <1>2, <1>5, <2>2 DEF SignCopy, Goto, RunSame, runVars
  <2>3. QED
    BY <1>5, <2>1, <2>2 DEF SignCopy
<1>6. CASE Crash
  BY <1>2, <1>6 DEF Crash, End, RunSame, runVars
<1>7. QED
  BY <1>3, <1>4, <1>5, <1>6 DEF Quiet

\* The files of kernel v go, and with its package what kernelstub knows of it.
Gone(v) ==
    /\ image' = image \ {v} /\ ours' = ours \ {v} /\ marker' = marker \ {v}
    /\ modules' = modules \ {v} /\ initrd' = initrd \ {v}
    /\ pkg' = [pkg EXCEPT ![v] = "none"]
    /\ entry' \subseteq entry \/ (bl = "grub" /\ entry' = image')
    /\ bl = "kernelstub" /\ pkg[v] # "none" => v \notin entry'

\* PurgeKernel takes the kernel away and goes on, or leaves everything alone.
LEMMA PurgeDoes ==
    ASSUME ManageInv, PurgeKernel
    PROVE  /\ pc = "purge" /\ cur \in before.image \ {running} /\ cur \in Kver
           /\ mode \in {"remove", "remove-many"} /\ (mode = "remove-many" => cur # newest)
           /\ UNCHANGED <<saved, machineVars, mode, todo, cur, newest, removed, before, runs, others>>
           /\ failed' \in BOOLEAN /\ warned' \in BOOLEAN
           /\ StoreTypeOK'
           /\ \/ Gone(cur) /\ pc' = "loader" /\ result' = result
              \/ /\ UNCHANGED <<fileVars, loaderVars>>
                 /\ \/ pc' = "idle" /\ result' = "failed"
                    \/ pc' = "next" /\ result' = result /\ mode = "remove-many"
<1>1. TypeOK /\ CursorInv /\ StoreTypeOK
  BY DEF ManageInv, TypeOK
<1>2. failed \in BOOLEAN /\ warned \in BOOLEAN /\ before.image \subseteq Kver
  BY <1>1 DEF TypeOK
<1>3. /\ pc = "purge" /\ cur \in before.image \ {running} /\ cur \in Kver
      /\ mode \in {"remove", "remove-many"} /\ (mode = "remove-many" => cur # newest)
  BY <1>1, <1>2 DEF PurgeKernel, CursorInv, Removing
<1>4. UNCHANGED <<saved, machineVars>>
  BY DEF PurgeKernel
<1>5. CASE pkg[cur] # "none" /\ Purge(cur, cur) /\ Goto("loader") /\ RunSame
  <2>1. Gone(cur)
    BY <1>5, PurgeFiles DEF Gone
  <2>2. StoreTypeOK'
    BY <1>1, <1>3, <1>4, <1>5, PurgeType
  <2>3. QED
    BY <1>2, <1>3, <1>4, <1>5, <2>1, <2>2 DEF Goto, RunSame, runVars
<1>6. CASE UNCHANGED <<fileVars, loaderVars>> /\ Through(TRUE, FALSE) /\ UNCHANGED removed
  <2>1. StoreTypeOK'
    BY <1>1, <1>4, <1>6 DEF StoreTypeOK, fileVars, loaderVars, machineVars
  <2>2. QED
    BY <1>1, <1>3, <1>4, <1>6, <2>1, ThroughDoes
<1>7. CASE /\ pkg[cur] = "none"
           /\ image' = image \ {cur} /\ ours' = ours \ {cur} /\ marker' = marker \ {cur}
           /\ modules' = modules \ {cur} /\ initrd' = initrd \ {cur}
           /\ UNCHANGED <<pkg, loaderVars>>
           /\ Goto("loader") /\ RunSame
  <2>1. pkg' = [pkg EXCEPT ![cur] = "none"]
    BY <1>1, <1>3, <1>7 DEF StoreTypeOK
  <2>2. Gone(cur)
    BY <1>7, <2>1 DEF Gone, loaderVars
  <2>3. StoreTypeOK'
    BY <1>1, <1>4, <1>7 DEF StoreTypeOK, loaderVars, machineVars
  <2>4. QED
    BY <1>2, <1>3, <1>4, <1>7, <2>2, <2>3 DEF Goto, RunSame, runVars
<1>8. QED
  BY <1>5, <1>6, <1>7 DEF PurgeKernel

\* CleanLoader reports the kernel removed only when the menu lists it no more,
\* except on kernelstub, and touches no file.
LEMMA CleanDoes ==
    ASSUME ManageInv, CleanLoader
    PROVE  /\ pc = "loader" /\ cur \in before.image \ {running} /\ cur \in Kver
           /\ mode \in {"remove", "remove-many"}
           /\ UNCHANGED <<fileVars, saved, machineVars, mode, todo, cur, newest, before, runs, others>>
           /\ failed' \in BOOLEAN /\ warned' \in BOOLEAN
           /\ entry' \subseteq entry \/ (bl = "grub" /\ entry' = image)
           /\ \/ removed' = removed
              \/ removed' = removed \cup {cur} /\ (cur \in entry' => bl = "kernelstub" \/ cur \in image)
           /\ StoreTypeOK'
           /\ \/ pc' = "idle" /\ result' \in {"done", "failed"}
              \/ pc' = "next" /\ result' = result /\ mode = "remove-many"
<1>1. TypeOK /\ CursorInv /\ StoreTypeOK
  BY DEF ManageInv, TypeOK
<1>2. /\ pc = "loader" /\ cur \in before.image \ {running} /\ cur \in Kver
      /\ mode \in {"remove", "remove-many"}
  BY <1>1 DEF CleanLoader, CursorInv, Removing, TypeOK
<1>3. \E fail, warn \in BOOLEAN : Through(fail, warn)
  BY DEF CleanLoader
<1>4. /\ UNCHANGED <<mode, todo, cur, newest, before, runs, others>>
      /\ failed' \in BOOLEAN /\ warned' \in BOOLEAN
      /\ \/ pc' = "idle" /\ result' \in {"done", "failed"}
         \/ pc' = "next" /\ result' = result /\ mode = "remove-many"
  BY <1>1, <1>2, <1>3, ThroughDoes
<1>5. UNCHANGED <<fileVars, saved, machineVars>>
  BY DEF CleanLoader
<1>6. /\ entry' \subseteq entry \/ (bl = "grub" /\ entry' = image)
      /\ \/ removed' = removed
         \/ removed' = removed \cup {cur} /\ (cur \in entry' => bl = "kernelstub" \/ cur \in image)
      /\ entry' \in SUBSET Kver /\ esp' \in SUBSET Kver /\ espOurs' \in SUBSET Kver
  BY <1>1 DEF CleanLoader, loaderVars, StoreTypeOK
<1>7. StoreTypeOK'
  BY <1>1, <1>5, <1>6 DEF StoreTypeOK, fileVars, machineVars
<1>8. QED
  BY <1>2, <1>4, <1>5, <1>6, <1>7

-----------------------------------------------------------------------------
(* Types.                                                                  *)

RunTypeOK ==
    /\ runs \in 0..MaxRuns /\ others \in 0..MaxOthers
    /\ mode \in Modes /\ pc \in Steps
    /\ todo \subseteq Kver
    /\ cur \in Kver \cup {NoKernel} /\ newest \in Kver \cup {NoKernel}
    /\ failed \in BOOLEAN /\ warned \in BOOLEAN
    /\ result \in {"none", "done", "failed", "crashed"}
    /\ removed \subseteq before.image \ {running}
    /\ before \in [pkg : [Kver -> PkgStates], image : SUBSET Kver]

LEMMA StartDoes ==
    ASSUME TypeOK, NEW m \in Modes, NEW K \in SUBSET Kver, Start(m, K)
    PROVE  /\ pc = "idle" /\ pc' = "next" /\ mode' = m /\ todo' = K /\ K \subseteq image /\ K # {}
           /\ result' = "none" /\ removed' = {} /\ before' = Disk
           /\ before'.image = image /\ before'.pkg = pkg
           /\ before' \in [pkg : [Kver -> PkgStates], image : SUBSET Kver]
           /\ UNCHANGED <<fileVars, loaderVars, saved, bl, running>>
           /\ IF m = "remove-many"
              THEN newest' \in image /\ \A w \in image : w <= newest'
              ELSE newest' = NoKernel
           /\ RunTypeOK' /\ StoreTypeOK'
<1>1. StoreTypeOK /\ image \in SUBSET Kver /\ image # {}
  BY DEF TypeOK, StoreTypeOK, Start
<1>2. IF m = "remove-many"
      THEN newest' \in image /\ \A w \in image : w <= newest'
      ELSE newest' = NoKernel
  BY <1>1, NewestIsMax DEF Start
<1>3. /\ before' = Disk /\ before'.image = image /\ before'.pkg = pkg
      /\ before' \in [pkg : [Kver -> PkgStates], image : SUBSET Kver]
  BY <1>1 DEF Start, Disk, StoreTypeOK
<1>4. /\ pc = "idle" /\ pc' = "next" /\ mode' = m /\ todo' = K /\ K \subseteq image /\ K # {}
      /\ result' = "none" /\ removed' = {} /\ cur' = NoKernel
      /\ UNCHANGED <<fileVars, loaderVars, saved, bl, running, sb, enrollment, hook, others>>
      /\ failed' = FALSE /\ warned' = FALSE /\ runs < MaxRuns /\ runs' = runs + 1
      /\ key' = (key \/ m = "setup")
  BY DEF Start
<1>5. runs' \in 0..MaxRuns
  BY <1>4 DEF TypeOK
<1>6. RunTypeOK'
  BY <1>1, <1>2, <1>3, <1>4, <1>5 DEF TypeOK, RunTypeOK, Steps
<1>7. StoreTypeOK'
  BY <1>1, <1>4 DEF StoreTypeOK, fileVars, loaderVars
<1>8. QED
  BY <1>2, <1>3, <1>4, <1>6, <1>7

\* What apt and make install leave of the run, whatever they do to the disk.
Outside == \E v \in Kver : AptUnpack(v) \/ AptConfigure(v) \/ AptPurge(v) \/ MakeInstall(v)

LEMMA OutsideDoes ==
    ASSUME ManageInv, Outside
    PROVE  /\ UNCHANGED <<runVars, runs, pc, result, saved, machineVars>>
           /\ others' \in 0..MaxOthers
           /\ StoreTypeOK'
<1>1. PICK v \in Kver : AptUnpack(v) \/ AptConfigure(v) \/ AptPurge(v) \/ MakeInstall(v)
  BY DEF Outside
<1>2. TypeOK /\ StoreTypeOK
  BY DEF ManageInv, TypeOK
<1>3. /\ UNCHANGED <<runVars, runs, pc, result, saved, machineVars>>
      /\ (Other \/ UNCHANGED others)
  BY <1>1 DEF AptUnpack, AptConfigure, AptPurge, MakeInstall, Other
<1>4. others' \in 0..MaxOthers
  BY <1>2, <1>3 DEF TypeOK, Other
<1>5. StoreTypeOK'
  <2>1. CASE AptUnpack(v)
    BY <1>2, <1>3, <2>1, UnpackType DEF AptUnpack
  <2>2. CASE AptConfigure(v)
    BY <1>2, <1>3, <2>2, ConfigureType DEF AptConfigure
  <2>3. CASE AptPurge(v)
    BY <1>2, <1>3, <2>3, PurgeType DEF AptPurge
  <2>4. CASE MakeInstall(v)
    <3>1. /\ image' = image \cup {v} /\ modules' = modules \cup {v} /\ initrd' = initrd \cup {v}
          /\ UNCHANGED <<pkg, ours, marker>>
          /\ \/ entry' = image' /\ UNCHANGED <<esp, espOurs>>
             \/ LoaderHook(v, ours)
      BY <2>4 DEF MakeInstall
    <3>2. entry' \in SUBSET Kver /\ esp' \in SUBSET Kver /\ espOurs' \in SUBSET Kver
      BY <1>2, <3>1 DEF StoreTypeOK, LoaderHook, RefreshCopy, loaderVars
    <3>3. QED
      BY <1>2, <1>3, <3>1, <3>2 DEF StoreTypeOK, machineVars
  <2>5. QED
    BY <1>1, <2>1, <2>2, <2>3, <2>4
<1>6. QED
  BY <1>3, <1>4, <1>5

\* The steps that sign a kernel go on, or give it up.
Sign == ReplaceImage \/ RecordSigned \/ SyncEsp

LEMMA SignDoes ==
    ASSUME ManageInv, Sign
    PROVE  /\ pc \in {"replace", "marker", "sync"} /\ mode \in {"sign", "setup"}
           /\ cur \in before.image /\ cur \in Kver
           /\ UNCHANGED <<pkg, modules, initrd, saved, machineVars>>
           /\ UNCHANGED <<mode, todo, cur, newest, removed, before, runs, others>>
           /\ failed' \in BOOLEAN /\ warned' \in BOOLEAN
           /\ StoreTypeOK'
           /\ image \subseteq image' /\ image' \subseteq image \cup {cur}
           /\ bl = "kernelstub" => entry' = entry
           /\ \/ pc' = "marker" /\ result' = result /\ pc = "replace"
              \/ pc' = "sync" /\ result' = result /\ pc = "marker"
              \/ pc' = "idle" /\ result' = "failed" /\ mode = "sign"
              \/ pc' = "idle" /\ result' = "done" /\ mode = "sign"
                 /\ pc = "sync" /\ SyncSignedToEsp(cur, TRUE) /\ UNCHANGED fileVars
              \/ pc' = "next" /\ result' = result /\ mode = "setup"
<1>1. TypeOK /\ CursorInv /\ StoreTypeOK /\ failed \in BOOLEAN /\ warned \in BOOLEAN
  BY DEF ManageInv, TypeOK
<1>2. /\ pc \in {"replace", "marker", "sync"} /\ mode \in {"sign", "setup"}
      /\ cur \in before.image /\ cur \in Kver
  BY <1>1 DEF Sign, ReplaceImage, RecordSigned, SyncEsp, CursorInv, Signing, TypeOK
<1>3. CASE ReplaceImage
  <2>1. UNCHANGED <<pkg, modules, initrd, loaderVars, saved, machineVars>> /\ pc = "replace"
    BY <1>3 DEF ReplaceImage
  <2>2. CASE /\ image' = image \cup {cur}
             /\ ours' = ours \cup {cur} /\ marker' = marker \ {cur}
             /\ Goto("marker") /\ RunSame
    <3>1. StoreTypeOK'
      BY <1>1, <1>2, <2>1, <2>2 DEF StoreTypeOK, loaderVars, machineVars
    <3>2. QED
      BY <1>1, <1>2, <2>1, <2>2, <3>1 DEF Goto, RunSame, runVars, loaderVars
  <2>3. CASE UNCHANGED <<image, ours, marker>> /\ Through(TRUE, TRUE) /\ UNCHANGED removed
    <3>1. StoreTypeOK'
      BY <1>1, <1>2, <2>1, <2>3 DEF StoreTypeOK, loaderVars, machineVars
    <3>2. QED
      BY <1>1, <1>2, <2>1, <2>3, <3>1, ThroughDoes DEF loaderVars
  <2>4. QED
    BY <1>3, <2>2, <2>3 DEF ReplaceImage
<1>4. CASE RecordSigned
  <2>1. StoreTypeOK'
    BY <1>1, <1>2, <1>4 DEF RecordSigned, StoreTypeOK, loaderVars, machineVars
  <2>2. QED
    BY <1>1, <1>2, <1>4, <2>1 DEF RecordSigned, Goto, loaderVars
<1>5. CASE SyncEsp
  <2>1. PICK ok \in BOOLEAN : SyncSignedToEsp(cur, ok) /\ Through(~ok /\ mode = "sign", ~ok)
    BY <1>5 DEF SyncEsp
  <2>2. UNCHANGED <<removed, fileVars, saved, machineVars>>
    BY <1>5 DEF SyncEsp
  <2>3. StoreTypeOK'
    BY <1>1, <1>2, <2>1, <2>2, SyncType
  <2>0. pc = "sync" /\ (bl = "kernelstub" => entry' = entry)
    BY <1>5, <2>1 DEF SyncEsp, SyncSignedToEsp, RefreshCopy, loaderVars
  <2>4. (~ok /\ mode = "sign") \in BOOLEAN /\ (~ok) \in BOOLEAN
    OBVIOUS
  <2>5. /\ failed' \in BOOLEAN /\ warned' \in BOOLEAN
        /\ UNCHANGED <<mode, todo, cur, newest, before, runs, others>>
        /\ mode = "sign" => pc' = "idle" /\ result' = IF (~ok /\ mode = "sign") THEN "failed" ELSE "done"
        /\ mode = "setup" => pc' = "next" /\ result' = result
    BY <1>1, <2>1, <2>4, ThroughDoes
  <2>6. CASE mode = "setup"
    BY <1>2, <2>0, <2>2, <2>3, <2>5, <2>6 DEF fileVars
  <2>7. CASE mode = "sign" /\ ok
    BY <1>2, <2>0, <2>1, <2>2, <2>3, <2>5, <2>7 DEF fileVars
  <2>8. CASE mode = "sign" /\ ~ok
    BY <1>2, <2>0, <2>2, <2>3, <2>5, <2>8 DEF fileVars
  <2>9. QED
    BY <1>2, <2>6, <2>7, <2>8
<1>6. QED
  BY <1>3, <1>4, <1>5 DEF Sign

\* The loops go to the next kernel, and the setup ends with the hooks.
LEMMA NextDoes ==
    ASSUME ManageInv, NextKernel
    PROVE  /\ pc = "next" /\ cur' \in todo /\ todo' = todo \ {cur'} /\ cur' \in Kver
           /\ UNCHANGED <<pkg, image, ours, modules, initrd, loaderVars, saved, machineVars>>
           /\ marker' \in {marker, marker \cup ({cur'} \cap image \cap ours)}
           /\ UNCHANGED <<mode, newest, failed, removed, before, runs, others, result>>
           /\ warned' \in BOOLEAN
           /\ StoreTypeOK'
           /\ \/ pc' = "check" /\ mode = "remove"
              \/ pc' = "check" /\ mode = "remove-many" /\ cur' \notin {running, newest}
              \/ pc' = "sign" /\ mode \in {"sign", "setup"}
              \/ pc' = "next" /\ mode \in {"remove-many", "setup"}
<1>1. TypeOK /\ StoreTypeOK /\ mode \in Modes /\ warned \in BOOLEAN /\ todo \subseteq Kver
  BY DEF ManageInv, TypeOK
<1>2. PICK v \in todo :
        /\ todo' = todo \ {v} /\ cur' = v
        /\ WorkOn(v)
        /\ marker' \in {marker} \cup (IF AlreadySigned(v) THEN {marker \cup {v}} ELSE {})
        /\ warned' = (warned \/ (AlreadySigned(v) /\ v \notin marker'))
  BY DEF NextKernel
<1>3. /\ pc = "next" /\ UNCHANGED <<pkg, image, ours, modules, initrd, loaderVars, saved, machineVars>>
      /\ UNCHANGED <<mode, newest, failed, removed, before, runs, others>>
  BY DEF NextKernel
<1>4. marker' = marker \/ (AlreadySigned(v) /\ marker' = marker \cup {v})
  BY <1>2
<1>5. marker' \in {marker, marker \cup ({v} \cap image \cap ours)}
  <2>1. CASE marker' = marker
    BY <2>1
  <2>2. CASE AlreadySigned(v) /\ marker' = marker \cup {v}
    <3>1. {v} \cap image \cap ours = {v}
      BY <2>2 DEF AlreadySigned
    <3>2. QED
      BY <2>2, <3>1
  <2>3. QED
    BY <1>4, <2>1, <2>2
<1>6. StoreTypeOK'
  BY <1>1, <1>2, <1>3, <1>5 DEF StoreTypeOK, loaderVars, machineVars
<1>7. result' = result
  BY <1>2 DEF WorkOn, Goto
<1>8. \/ pc' = "check" /\ mode = "remove"
      \/ pc' = "check" /\ mode = "remove-many" /\ v \notin {running, newest}
      \/ pc' = "sign" /\ mode \in {"sign", "setup"}
      \/ pc' = "next" /\ mode \in {"remove-many", "setup"}
  <2>1. CASE mode = "remove-many"
    BY <1>2, <2>1 DEF WorkOn, Goto
  <2>2. CASE mode = "remove"
    BY <1>2, <2>2 DEF WorkOn, Goto
  <2>3. CASE mode = "setup"
    BY <1>2, <2>3 DEF WorkOn, Goto
  <2>4. CASE mode = "sign"
    BY <1>2, <2>4 DEF WorkOn, Goto
  <2>5. QED
    BY <1>1, <2>1, <2>2, <2>3, <2>4 DEF Modes
<1>9. warned' \in BOOLEAN
  BY <1>1, <1>2
<1>10. QED
  BY <1>1, <1>2, <1>3, <1>5, <1>6, <1>7, <1>8, <1>9

-----------------------------------------------------------------------------
(* The invariant, step by step.                                            *)

LEMMA Typed == RunTypeOK' /\ StoreTypeOK' => TypeOK'
BY DEF RunTypeOK, TypeOK

\* The part of the invariant that speaks of images and of a run only.
LEMMA StartInv ==
    ASSUME ManageInv, NEW m \in Modes, NEW K \in SUBSET Kver, Start(m, K)
    PROVE  ManageInv'
<1>1. TypeOK /\ FilesInv /\ KeptInv
  BY DEF ManageInv
<1>2. /\ pc = "idle" /\ pc' = "next" /\ mode' = m /\ todo' = K /\ K \subseteq image /\ K # {}
      /\ result' = "none" /\ removed' = {} /\ before'.image = image /\ before'.pkg = pkg
      /\ UNCHANGED <<fileVars, loaderVars, saved, bl, running>>
      /\ (m = "remove-many" => newest' \in image /\ \A w \in image : w <= newest')
      /\ RunTypeOK' /\ StoreTypeOK'
  BY <1>1, StartDoes
<1>3. TypeOK'
  BY <1>2, Typed
<1>4. CursorInv'
  BY <1>2 DEF CursorInv, Removing, Signing
<1>5. FilesInv'
  BY <1>1, <1>2 DEF FilesInv, fileVars
<1>6. KeptInv'
  BY <1>1, <1>2 DEF KeptInv, KernelsKept, Complete, fileVars
<1>7. MenuInv'
  BY <1>2 DEF MenuInv, RemovedLeavesMenu, fileVars
<1>8. LoaderInv'
  BY <1>2 DEF LoaderInv
<1>9. QED
  BY <1>3, <1>4, <1>5, <1>6, <1>7, <1>8 DEF ManageInv

LEMMA NextInv ==
    ASSUME ManageInv, NextKernel
    PROVE  ManageInv'
<1>1. TypeOK /\ CursorInv /\ FilesInv /\ KeptInv /\ MenuInv
  BY DEF ManageInv
<1>2. /\ pc = "next" /\ cur' \in todo /\ todo' = todo \ {cur'} /\ cur' \in Kver
      /\ UNCHANGED <<pkg, image, ours, modules, initrd, loaderVars, saved, machineVars>>
      /\ marker' \in {marker, marker \cup ({cur'} \cap image \cap ours)}
      /\ UNCHANGED <<mode, newest, failed, removed, before, runs, others, result>>
      /\ warned' \in BOOLEAN
      /\ StoreTypeOK'
      /\ \/ pc' = "check" /\ mode = "remove"
         \/ pc' = "check" /\ mode = "remove-many" /\ cur' \notin {running, newest}
         \/ pc' = "sign" /\ mode \in {"sign", "setup"}
         \/ pc' = "next" /\ mode \in {"remove-many", "setup"}
  BY NextDoes
<1>3. TypeOK'
  <2>1. RunTypeOK'
    BY <1>1, <1>2 DEF TypeOK, RunTypeOK, Steps, machineVars
  <2>2. QED
    BY <1>2, <2>1, Typed
<1>4. CursorInv'
  BY <1>1, <1>2 DEF CursorInv, Removing, Signing, machineVars
<1>5. FilesInv'
  BY <1>1, <1>2 DEF FilesInv
<1>6. KeptInv'
  BY <1>1, <1>2 DEF KeptInv, KernelsKept, Complete, machineVars
<1>7. MenuInv'
  BY <1>1, <1>2 DEF MenuInv, RemovedLeavesMenu, loaderVars, machineVars
<1>8. LoaderInv'
  BY <1>1, <1>2 DEF LoaderInv, CursorInv
<1>9. QED
  BY <1>3, <1>4, <1>5, <1>6, <1>7, <1>8 DEF ManageInv

LEMMA QuietInv ==
    ASSUME ManageInv, Quiet
    PROVE  ManageInv'
<1>1. TypeOK /\ CursorInv /\ FilesInv /\ KeptInv /\ MenuInv
  BY DEF ManageInv
<1>2. /\ UNCHANGED <<storeVars, mode, todo, cur, newest, removed, before, runs, others>>
      /\ failed' \in BOOLEAN /\ warned' \in BOOLEAN
      /\ \/ pc' = "idle" /\ result' \in {"failed", "crashed"}
         \/ pc' = "idle" /\ result' = "done" /\ mode \notin {"sign", "setup"}
         \/ pc' = "next" /\ result' = result /\ mode \in {"remove-many", "setup"} /\ pc # "idle"
         \/ pc' = "hooks" /\ result' = result /\ mode = "setup" /\ pc = "next"
         \/ pc = "check" /\ pc' = "purge" /\ result' = result /\ cur # running
         \/ pc = "sign" /\ pc' = "marker" /\ result' = result /\ cur \in ours
         \/ pc = "sign" /\ pc' = "replace" /\ result' = result
  BY QuietDoes
<1>3. TypeOK'
  <2>1. RunTypeOK'
    BY <1>1, <1>2 DEF TypeOK, RunTypeOK, Steps, storeVars, machineVars
  <2>2. StoreTypeOK'
    BY <1>1, <1>2 DEF TypeOK, StoreTypeOK, storeVars, fileVars, loaderVars, machineVars
  <2>3. QED
    BY <2>1, <2>2, Typed
<1>4. CursorInv'
  BY <1>1, <1>2 DEF CursorInv, Removing, Signing, storeVars, machineVars
<1>5. FilesInv'
  BY <1>1, <1>2 DEF FilesInv, storeVars, fileVars
<1>6. KeptInv'
  BY <1>1, <1>2 DEF KeptInv, KernelsKept, Complete, storeVars, fileVars, machineVars
<1>7. MenuInv'
  BY <1>1, <1>2 DEF MenuInv, RemovedLeavesMenu, storeVars, fileVars, loaderVars, machineVars
<1>8. LoaderInv'
  BY <1>1, <1>2 DEF LoaderInv, CursorInv
<1>9. QED
  BY <1>3, <1>4, <1>5, <1>6, <1>7, <1>8 DEF ManageInv

LEMMA HooksInv ==
    ASSUME ManageInv, InstallHooks
    PROVE  ManageInv'
<1>1. TypeOK /\ CursorInv /\ FilesInv /\ KeptInv /\ MenuInv
  BY DEF ManageInv
<1>2. /\ pc = "hooks" /\ hook' = TRUE /\ pc' = "idle" /\ result' = "done"
      /\ UNCHANGED <<fileVars, loaderVars, saved, bl, sb, key, enrollment, running>>
      /\ UNCHANGED <<runVars, runs, others>>
  BY DEF InstallHooks, End, RunSame
<1>3. TypeOK'
  <2>1. RunTypeOK'
    BY <1>1, <1>2 DEF TypeOK, RunTypeOK, Steps, runVars
  <2>2. StoreTypeOK'
    BY <1>1, <1>2 DEF TypeOK, StoreTypeOK, fileVars, loaderVars
  <2>3. QED
    BY <2>1, <2>2, Typed
<1>4. CursorInv'
  BY <1>1, <1>2 DEF CursorInv, Removing, Signing, runVars
<1>5. FilesInv'
  BY <1>1, <1>2 DEF FilesInv, fileVars, runVars
<1>6. KeptInv'
  BY <1>1, <1>2 DEF KeptInv, KernelsKept, Complete, fileVars, runVars
<1>7. MenuInv'
  BY <1>1, <1>2 DEF MenuInv, RemovedLeavesMenu, fileVars, loaderVars, runVars
<1>8. LoaderInv'
  BY <1>1, <1>2 DEF LoaderInv, CursorInv, runVars
<1>9. QED
  BY <1>3, <1>4, <1>5, <1>6, <1>7, <1>8 DEF ManageInv

\* What keeps the machine bootable when a kernel goes: it is not the running
\* one, and if it is as new as the newest that was there, another one is.
LEMMA GoneKept ==
    ASSUME ManageInv, NEW v \in Kver, Gone(v), v # running,
           UNCHANGED <<mode, newest, before, running>>,
           mode = "remove-many" => \/ v \in before.image /\ v # newest
                                   \/ \E w \in image : w > v
    PROVE  KeptInv'
<1>1. TypeOK /\ KeptInv /\ image \subseteq Nat /\ before.image \subseteq Nat
  BY DEF ManageInv, TypeOK, StoreTypeOK
<1>2. Complete(running)'
  BY <1>1 DEF KeptInv, KernelsKept, Complete, Gone
<1>3. ASSUME mode = "remove-many" PROVE \E x \in image' : \A w \in before.image : w <= x
  <2>1. PICK x \in image : \A w \in before.image : w <= x
    BY <1>1, <1>3 DEF KeptInv, KernelsKept
  <2>2. CASE x # v
    BY <2>1, <2>2 DEF Gone
  <2>3. CASE x = v
    <3>1. ~(v \in before.image /\ v # newest)
      <4>1. SUFFICES ASSUME v \in before.image, v # newest PROVE FALSE
        OBVIOUS
      <4>2. newest \in before.image /\ v <= newest /\ newest <= v
        BY <1>1, <1>3, <2>1, <2>3, <4>1 DEF KeptInv
      <4>3. QED
        BY <1>1, <4>1, <4>2
    <3>2. PICK y \in image : y > v
      BY <1>3, <3>1
    <3>3. \A w \in before.image : w <= y
      BY <1>1, <2>1, <2>3, <3>2
    <3>4. y \in image'
      BY <1>1, <3>2 DEF Gone
    <3>5. QED
      BY <3>3, <3>4
  <2>4. QED
    BY <2>2, <2>3
<1>4. QED
  BY <1>1, <1>2, <1>3 DEF KeptInv, KernelsKept

\* ... and what a removal does to the menu.
LEMMA GoneMenu ==
    ASSUME ManageInv, NEW v \in Kver, Gone(v),
           UNCHANGED <<mode, cur, removed, before, bl>>,
           pc' = "loader" => pc = "loader" \/ cur = v
    PROVE  MenuInv'
<1>1. MenuInv /\ pkg \in [Kver -> PkgStates] /\ cur \in Kver \cup {NoKernel}
  BY DEF ManageInv, TypeOK, StoreTypeOK
<1>2. removed \cap image = {}
  BY <1>1 DEF MenuInv, RemovedLeavesMenu
<1>3. RemovedLeavesMenu'
  BY <1>1, <1>2 DEF MenuInv, RemovedLeavesMenu, Gone
<1>4. pc' = "loader" => cur \notin image' /\ pkg'[cur] = "none"
  <2>1. SUFFICES ASSUME pc' = "loader" PROVE cur \notin image' /\ pkg'[cur] = "none"
    OBVIOUS
  <2>2. CASE cur = v
    BY <1>1, <2>2 DEF Gone
  <2>3. CASE pc = "loader" /\ cur # v
    BY <1>1, <2>3 DEF Gone, MenuInv
  <2>4. QED
    BY <2>1, <2>2, <2>3
<1>5. ASSUME bl = "kernelstub", NEW w \in before.image, before.pkg[w] # "none", pkg'[w] = "none"
      PROVE  w \notin entry'
  <2>1. entry' \subseteq entry
    BY <1>5 DEF Gone
  <2>2. CASE pkg[w] = "none"
    BY <1>1, <1>5, <2>1, <2>2 DEF MenuInv
  <2>3. CASE pkg[w] # "none"
    <3>1. w = v
      BY <1>1, <1>5, <2>3 DEF Gone
    <3>2. QED
      BY <1>5, <2>3, <3>1 DEF Gone
  <2>4. QED
    BY <2>2, <2>3
<1>6. QED
  BY <1>1, <1>3, <1>4, <1>5 DEF MenuInv

LEMMA PurgeInv ==
    ASSUME ManageInv, PurgeKernel
    PROVE  ManageInv'
<1>1. TypeOK /\ CursorInv /\ FilesInv /\ KeptInv /\ MenuInv
  BY DEF ManageInv
<1>2. /\ pc = "purge" /\ cur \in before.image \ {running} /\ cur \in Kver
      /\ mode \in {"remove", "remove-many"} /\ (mode = "remove-many" => cur # newest)
      /\ UNCHANGED <<saved, machineVars, mode, todo, cur, newest, removed, before, runs, others>>
      /\ failed' \in BOOLEAN /\ warned' \in BOOLEAN
      /\ StoreTypeOK'
      /\ \/ Gone(cur) /\ pc' = "loader" /\ result' = result
         \/ /\ UNCHANGED <<fileVars, loaderVars>>
            /\ \/ pc' = "idle" /\ result' = "failed"
               \/ pc' = "next" /\ result' = result /\ mode = "remove-many"
  BY PurgeDoes
<1>3. TypeOK'
  <2>1. RunTypeOK'
    BY <1>1, <1>2 DEF TypeOK, RunTypeOK, Steps, machineVars
  <2>2. QED
    BY <1>2, <2>1, Typed
<1>4. CursorInv'
  BY <1>1, <1>2 DEF CursorInv, Removing, Signing, machineVars
<1>5. LoaderInv'
  BY <1>1, <1>2 DEF LoaderInv, CursorInv
<1>6. CASE Gone(cur) /\ pc' = "loader"
  <2>1. FilesInv'
    BY <1>1, <1>6 DEF FilesInv, Gone
  <2>2. KeptInv'
    BY <1>2, <1>6, GoneKept DEF machineVars
  <2>3. MenuInv'
    BY <1>2, <1>6, GoneMenu DEF machineVars
  <2>4. QED
    BY <1>3, <1>4, <1>5, <2>1, <2>2, <2>3 DEF ManageInv
<1>7. CASE UNCHANGED <<fileVars, loaderVars>> /\ pc' \in {"idle", "next"}
  <2>1. FilesInv'
    BY <1>1, <1>7 DEF FilesInv, fileVars
  <2>2. KeptInv'
    BY <1>1, <1>2, <1>7 DEF KeptInv, KernelsKept, Complete, fileVars, machineVars
  <2>3. MenuInv'
    BY <1>1, <1>2, <1>7 DEF MenuInv, RemovedLeavesMenu, fileVars, loaderVars, machineVars
  <2>4. QED
    BY <1>3, <1>4, <1>5, <2>1, <2>2, <2>3 DEF ManageInv
<1>8. QED
  BY <1>2, <1>6, <1>7

LEMMA CleanInv ==
    ASSUME ManageInv, CleanLoader
    PROVE  ManageInv'
<1>1. TypeOK /\ CursorInv /\ FilesInv /\ KeptInv /\ MenuInv
  BY DEF ManageInv
<1>2. /\ pc = "loader" /\ cur \in before.image \ {running} /\ cur \in Kver
      /\ mode \in {"remove", "remove-many"}
      /\ UNCHANGED <<fileVars, saved, machineVars, mode, todo, cur, newest, before, runs, others>>
      /\ failed' \in BOOLEAN /\ warned' \in BOOLEAN
      /\ entry' \subseteq entry \/ (bl = "grub" /\ entry' = image)
      /\ \/ removed' = removed
         \/ removed' = removed \cup {cur} /\ (cur \in entry' => bl = "kernelstub" \/ cur \in image)
      /\ StoreTypeOK'
      /\ \/ pc' = "idle" /\ result' \in {"done", "failed"}
         \/ pc' = "next" /\ result' = result /\ mode = "remove-many"
  BY CleanDoes
<1>3. TypeOK'
  <2>1. RunTypeOK'
    BY <1>1, <1>2 DEF TypeOK, RunTypeOK, Steps, machineVars
  <2>2. QED
    BY <1>2, <2>1, Typed
<1>4. CursorInv'
  BY <1>1, <1>2 DEF CursorInv, Removing, Signing, machineVars
<1>5. FilesInv'
  BY <1>1, <1>2 DEF FilesInv, fileVars
<1>6. KeptInv'
  BY <1>1, <1>2 DEF KeptInv, KernelsKept, Complete, fileVars, machineVars
<1>7. MenuInv'
  <2>1. cur \notin image /\ pkg[cur] = "none"
    BY <1>1, <1>2 DEF MenuInv
  <2>2. bl = "kernelstub" /\ before.pkg[cur] # "none" => cur \notin entry
    BY <1>1, <1>2, <2>1 DEF MenuInv
  <2>3. RemovedLeavesMenu'
    BY <1>1, <1>2, <2>1, <2>2 DEF MenuInv, RemovedLeavesMenu, fileVars, machineVars
  <2>4. QED
    BY <1>1, <1>2, <2>3 DEF MenuInv, fileVars, machineVars
<1>8. LoaderInv'
  BY <1>2 DEF LoaderInv
<1>9. QED
  BY <1>3, <1>4, <1>5, <1>6, <1>7, <1>8 DEF ManageInv

LEMMA SignInv ==
    ASSUME ManageInv, Sign
    PROVE  ManageInv'
<1>1. TypeOK /\ CursorInv /\ FilesInv /\ KeptInv /\ MenuInv
  BY DEF ManageInv
<1>2. /\ pc \in {"replace", "marker", "sync"} /\ mode \in {"sign", "setup"}
      /\ cur \in before.image /\ cur \in Kver
      /\ UNCHANGED <<pkg, modules, initrd, saved, machineVars>>
      /\ UNCHANGED <<mode, todo, cur, newest, removed, before, runs, others>>
      /\ failed' \in BOOLEAN /\ warned' \in BOOLEAN
      /\ StoreTypeOK'
      /\ image \subseteq image' /\ image' \subseteq image \cup {cur}
      /\ bl = "kernelstub" => entry' = entry
      /\ \/ pc' = "marker" /\ result' = result /\ pc = "replace"
         \/ pc' = "sync" /\ result' = result /\ pc = "marker"
         \/ pc' = "idle" /\ result' = "failed" /\ mode = "sign"
         \/ pc' = "idle" /\ result' = "done" /\ mode = "sign"
            /\ pc = "sync" /\ SyncSignedToEsp(cur, TRUE) /\ UNCHANGED fileVars
         \/ pc' = "next" /\ result' = result /\ mode = "setup"
  BY SignDoes
<1>3. TypeOK'
  <2>1. RunTypeOK'
    BY <1>1, <1>2 DEF TypeOK, RunTypeOK, Steps, machineVars
  <2>2. QED
    BY <1>2, <2>1, Typed
<1>4. CursorInv'
  BY <1>1, <1>2 DEF CursorInv, Removing, Signing
<1>5. FilesInv'
  <2>1. CASE ReplaceImage
    BY <1>1, <2>1 DEF ReplaceImage, Through, Goto, End, RunSame, runVars, FilesInv
  <2>2. CASE RecordSigned
    BY <1>1, <2>2 DEF RecordSigned, Goto, FilesInv
  <2>3. CASE SyncEsp
    <3>1. UNCHANGED fileVars /\ pc' \in {"idle", "next"}
      BY <2>3 DEF SyncEsp, Through, Goto, End
    <3>2. QED
      BY <1>1, <3>1 DEF FilesInv, fileVars
  <2>4. QED
    BY <2>1, <2>2, <2>3 DEF Sign
<1>6. KeptInv'
  BY <1>1, <1>2 DEF KeptInv, KernelsKept, Complete, machineVars
<1>7. MenuInv'
  <2>1. removed = {} /\ removed' = {}
    BY <1>1, <1>2 DEF MenuInv
  <2>2. RemovedLeavesMenu'
    BY <2>1 DEF RemovedLeavesMenu
  <2>3. QED
    BY <1>1, <1>2, <2>1, <2>2 DEF MenuInv, machineVars
<1>8. LoaderInv'
  <2>1. SUFFICES ASSUME result' = "done", cur' \in image' PROVE Reaches(cur)'
    BY <1>2 DEF LoaderInv, Reaches, LoaderImageOurs, NoCopyToCheck
  <2>2. pc = "sync" /\ SyncSignedToEsp(cur, TRUE) /\ UNCHANGED fileVars
    BY <1>1, <1>2, <2>1 DEF CursorInv
  <2>3. cur \in ours
    BY <1>1, <1>2, <2>1, <2>2 DEF FilesInv, fileVars
  <2>4. LoaderImageOurs(cur)' \/ NoCopyToCheck(cur)'
    BY <1>2, <2>2, <2>3
    DEF SyncSignedToEsp, LoaderImageOurs, NoCopyToCheck, EspLoaders, loaderVars, fileVars, machineVars
  <2>5. QED
    BY <1>2, <2>2, <2>3, <2>4 DEF Reaches, fileVars, LoaderImageOurs, NoCopyToCheck
<1>9. QED
  BY <1>3, <1>4, <1>5, <1>6, <1>7, <1>8 DEF ManageInv

\* A signed kernel that the loader starts signed is started signed still when
\* a hook has copied what is in /boot.
LEMMA StillReaches ==
    ASSUME NEW v, NEW signed, LoaderHook(v, signed), NEW w, Reaches(w), w \in signed,
           UNCHANGED bl, w \in ours', bl = "systemd-boot" => v # w \/ v \in signed
    PROVE  Reaches(w)'
<1>1. CASE bl = "systemd-boot"
  BY <1>1 DEF LoaderHook, RefreshCopy, Reaches, LoaderImageOurs, NoCopyToCheck, EspLoaders
<1>2. CASE bl = "kernelstub"
  BY <1>2 DEF LoaderHook, Reaches, LoaderImageOurs, NoCopyToCheck, EspLoaders
<1>3. CASE bl \notin {"systemd-boot", "kernelstub"}
  BY <1>3 DEF Reaches, LoaderImageOurs, NoCopyToCheck, EspLoaders
<1>4. QED
  BY <1>1, <1>2, <1>3

\* apt never brings back a version the run found, and neither does make install.
LEMMA OutsideInv ==
    ASSUME ManageInv, Outside
    PROVE  ManageInv'
<1>1. TypeOK /\ CursorInv /\ FilesInv /\ KeptInv /\ MenuInv /\ LoaderInv
  BY DEF ManageInv
<1>2. UNCHANGED <<runVars, runs, pc, result, saved, machineVars>> /\ others' \in 0..MaxOthers
      /\ StoreTypeOK'
  BY OutsideDoes
<1>3. /\ removed \subseteq before.image \ {running} /\ before.image \subseteq Kver
      /\ pkg \in [Kver -> PkgStates] /\ removed \cap image = {}
  BY <1>1 DEF TypeOK, StoreTypeOK, MenuInv, RemovedLeavesMenu
<1>4. TypeOK'
  <2>1. RunTypeOK'
    BY <1>1, <1>2 DEF TypeOK, RunTypeOK, runVars, machineVars
  <2>2. QED
    BY <1>2, <2>1, Typed
<1>5. CursorInv'
  BY <1>1, <1>2 DEF CursorInv, runVars, machineVars
<1>6. PICK v \in Kver : AptUnpack(v) \/ AptConfigure(v) \/ AptPurge(v) \/ MakeInstall(v)
  BY DEF Outside
<1>7. pc \in {"loader", "marker", "sync"} => cur \in before.image
  BY <1>1 DEF CursorInv, Removing, Signing
<1>8. pc # "idle" => LoaderInv'
  BY <1>1, <1>2 DEF CursorInv, LoaderInv, runVars
<1>9. CASE AptUnpack(v)
  <2>1. /\ v \notin before.image \cup image /\ pc # "idle"
        /\ image' = image \cup {v} /\ ours' = ours \ {v} /\ marker' = marker \ {v}
        /\ modules' = modules \cup {v} /\ initrd' = initrd
        /\ pkg' = [pkg EXCEPT ![v] = "unpacked"] /\ UNCHANGED loaderVars
    BY <1>9 DEF AptUnpack, Unpack
  <2>2. FilesInv'
    BY <1>1, <1>2, <1>7, <2>1 DEF FilesInv, runVars
  <2>3. KeptInv'
    BY <1>1, <1>2, <2>1 DEF KeptInv, KernelsKept, Complete, runVars, machineVars
  <2>4. MenuInv'
    <3>1. RemovedLeavesMenu'
      BY <1>1, <1>2, <1>3, <2>1 DEF MenuInv, RemovedLeavesMenu, runVars, machineVars, loaderVars
    <3>2. \A w \in before.image : pkg'[w] = pkg[w]
      BY <1>3, <2>1
    <3>3. QED
      BY <1>1, <1>2, <1>7, <2>1, <3>1, <3>2 DEF MenuInv, runVars, machineVars, loaderVars
  <2>5. QED
    BY <1>4, <1>5, <1>8, <2>1, <2>2, <2>3, <2>4 DEF ManageInv
<1>10. CASE AptConfigure(v)
  <2>1. /\ v \in image /\ pkg[v] = "unpacked"
        /\ image' = image /\ modules' = modules /\ initrd \subseteq initrd'
        /\ ours \subseteq ours' /\ ours' \subseteq ours \cup (image \cap {v})
        /\ marker' \subseteq marker \cup ours'
        /\ pkg' = pkg \/ pkg' = [pkg EXCEPT ![v] = "installed"]
    BY <1>10, ConfigureFiles DEF AptConfigure
  <2>2. \/ \E signed \in {ours, ours'} : LoaderHook(v, signed)
        \/ UNCHANGED loaderVars
    BY <1>10 DEF AptConfigure, Configure
  <2>3. FilesInv'
    BY <1>1, <1>2, <2>1 DEF FilesInv, runVars
  <2>4. KeptInv'
    BY <1>1, <1>2, <2>1 DEF KeptInv, KernelsKept, Complete, runVars, machineVars
  <2>5. MenuInv'
    <3>1. entry' \subseteq entry \cup {v} \/ (bl = "grub" /\ entry' = image)
      BY <2>2, HookEntry DEF loaderVars
    <3>2. RemovedLeavesMenu'
      BY <1>1, <1>2, <1>3, <2>1, <3>1 DEF MenuInv, RemovedLeavesMenu, runVars, machineVars
    <3>3. \A w \in Kver : pkg'[w] = "none" => pkg[w] = "none" /\ w # v
      BY <1>3, <2>1
    <3>4. pc = "loader" => cur # v /\ pkg'[cur] = "none"
      BY <1>1, <1>3, <1>7, <2>1 DEF MenuInv
    <3>5. QED
      BY <1>1, <1>2, <1>3, <2>1, <3>1, <3>2, <3>3, <3>4 DEF MenuInv, runVars, machineVars
  <2>6. LoaderInv'
    <3>1. SUFFICES ASSUME mode = "sign", result = "done", cur \in image PROVE Reaches(cur)'
      BY <1>1, <1>2, <2>1 DEF LoaderInv, Reaches, LoaderImageOurs, NoCopyToCheck, runVars
    <3>2. Reaches(cur) /\ cur \in ours /\ cur \in ours'
      BY <1>1, <2>1, <3>1 DEF LoaderInv, Reaches
    <3>3. UNCHANGED <<bl, cur>>
      BY <1>2 DEF machineVars, runVars
    <3>4. CASE UNCHANGED loaderVars
      BY <3>2, <3>3, <3>4 DEF Reaches, LoaderImageOurs, NoCopyToCheck, loaderVars
    <3>5. ASSUME NEW signed \in {ours, ours'}, LoaderHook(v, signed) PROVE Reaches(cur)'
      <4>1. cur \in signed
        BY <3>2
      <4>2. v # cur \/ v \in signed
        BY <4>1
      <4>3. QED
        BY <3>2, <3>3, <3>5, <4>1, <4>2, StillReaches DEF Reaches, LoaderImageOurs, NoCopyToCheck
    <3>6. QED
      BY <2>2, <3>4, <3>5
  <2>7. QED
    BY <1>4, <1>5, <2>3, <2>4, <2>5, <2>6 DEF ManageInv
<1>11. CASE AptPurge(v)
  <2>1. Gone(v) /\ v # running /\ (\E w \in image : w > v) /\ pc # "idle"
    BY <1>11, PurgeFiles DEF AptPurge, Gone
  <2>2. FilesInv'
    BY <1>1, <1>2, <2>1 DEF FilesInv, Gone, runVars
  <2>3. UNCHANGED <<mode, newest, before, running, cur, removed, bl, pc>>
    BY <1>2 DEF runVars, machineVars
  <2>4. KeptInv'
    BY <2>1, <2>3, GoneKept
  <2>5. MenuInv'
    BY <2>1, <2>3, GoneMenu
  <2>6. QED
    BY <1>4, <1>5, <1>8, <2>1, <2>2, <2>4, <2>5 DEF ManageInv
<1>12. CASE MakeInstall(v)
  <2>1. /\ v \notin before.image /\ pc = "idle"
        /\ image' = image \cup {v} /\ modules' = modules \cup {v} /\ initrd' = initrd \cup {v}
        /\ UNCHANGED <<pkg, ours, marker>>
        /\ \/ bl = "grub" /\ entry' = image' /\ UNCHANGED <<esp, espOurs>>
           \/ LoaderHook(v, ours)
    BY <1>12 DEF MakeInstall
  <2>2. FilesInv'
    BY <1>1, <1>2, <2>1 DEF FilesInv, runVars
  <2>3. KeptInv'
    BY <1>1, <1>2, <2>1 DEF KeptInv, KernelsKept, Complete, runVars, machineVars
  <2>4. MenuInv'
    <3>1. entry' \subseteq entry \cup {v} \/ (bl = "grub" /\ entry' \subseteq image')
      BY <2>1, HookEntry
    <3>2. RemovedLeavesMenu'
      BY <1>1, <1>2, <1>3, <2>1, <3>1 DEF MenuInv, RemovedLeavesMenu, runVars, machineVars
    <3>3. QED
      BY <1>1, <1>2, <1>3, <2>1, <3>1, <3>2 DEF MenuInv, runVars, machineVars
  <2>5. LoaderInv'
    <3>1. SUFFICES ASSUME mode = "sign", result = "done", cur \in image, cur \in before.image
                   PROVE  Reaches(cur)'
      BY <1>1, <1>2, <2>1 DEF LoaderInv, Reaches, LoaderImageOurs, NoCopyToCheck, runVars
    <3>2. Reaches(cur) /\ cur \in ours /\ cur \in ours' /\ v # cur
      BY <1>1, <2>1, <3>1 DEF LoaderInv, Reaches
    <3>3. UNCHANGED <<bl, cur>>
      BY <1>2 DEF machineVars, runVars
    <3>4. CASE bl = "grub"
      BY <3>2, <3>3, <3>4 DEF Reaches, LoaderImageOurs, NoCopyToCheck, EspLoaders
    <3>5. CASE LoaderHook(v, ours)
      BY <3>2, <3>3, <3>5, StillReaches DEF Reaches, LoaderImageOurs, NoCopyToCheck
    <3>6. QED
      BY <2>1, <3>4, <3>5
  <2>6. QED
    BY <1>4, <1>5, <2>2, <2>3, <2>4, <2>5 DEF ManageInv
<1>13. QED
  BY <1>6, <1>9, <1>10, <1>11, <1>12

-----------------------------------------------------------------------------
(* The invariant, and what follows.                                        *)

LEMMA InitInv == Init => ManageInv
<1>1. SUFFICES ASSUME Init PROVE ManageInv
  OBVIOUS
<1>2. PICK K \in SUBSET Kver :
        /\ running \in K
        /\ pkg = [v \in Kver |-> IF v \in K THEN "installed" ELSE "none"]
        /\ image = K /\ modules = K /\ initrd = K
        /\ ours \in (IF key THEN SUBSET K ELSE {{}})
        /\ entry \in (IF bl = "kernelstub"
                      THEN {{running} \cup o : o \in {{}} \cup {{k} : k \in K}}
                      ELSE {K})
        /\ esp = IF bl \in EspLoaders THEN entry ELSE {}
        /\ saved \in (IF bl = "grub" THEN K \cup {NoKernel} ELSE {NoKernel})
  BY <1>1 DEF Init, StoreInit
<1>3. /\ bl \in Machines /\ sb \in BOOLEAN /\ key \in BOOLEAN /\ hook \in BOOLEAN
      /\ enrollment = "unknown" /\ running \in Kver
      /\ marker = ours /\ espOurs = esp \cap ours
      /\ runs = 0 /\ others = 0 /\ mode = "remove" /\ pc = "idle" /\ todo = {}
      /\ cur = NoKernel /\ newest = NoKernel /\ failed = FALSE /\ warned = FALSE
      /\ result = "none" /\ removed = {} /\ before = Disk
  BY <1>1 DEF Init, StoreInit
<1>4. ours \subseteq K
  BY <1>2
<1>5. entry \subseteq K
  <2>1. CASE bl = "kernelstub"
    <3>1. PICK o \in {{}} \cup {{k} : k \in K} : entry = {running} \cup o
      BY <1>2, <2>1
    <3>2. o \subseteq K
      OBVIOUS
    <3>3. QED
      BY <1>2, <3>1, <3>2
  <2>2. CASE bl # "kernelstub"
    BY <1>2, <2>2
  <2>3. QED
    BY <2>1, <2>2
<1>6. StoreTypeOK
  <2>1. pkg \in [Kver -> PkgStates]
    BY <1>2 DEF PkgStates
  <2>2. esp \subseteq Kver /\ espOurs \subseteq Kver
    BY <1>2, <1>3, <1>5
  <2>3. saved \in Kver \cup {NoKernel}
    BY <1>2
  <2>4. QED
    BY <1>2, <1>3, <1>4, <1>5, <2>1, <2>2, <2>3 DEF StoreTypeOK, Enrollments
<1>7. before.image = image /\ before.pkg = pkg
      /\ before \in [pkg : [Kver -> PkgStates], image : SUBSET Kver]
  BY <1>3, <1>6 DEF Disk, StoreTypeOK
<1>8. TypeOK
  <2>1. runs \in 0..MaxRuns /\ others \in 0..MaxOthers
    BY <1>3
  <2>2. QED
    BY <1>3, <1>6, <1>7, <2>1 DEF TypeOK, Modes, Steps
<1>9. CursorInv /\ LoaderInv
  BY <1>3 DEF CursorInv, LoaderInv, Removing, Signing
<1>10. FilesInv
  BY <1>2, <1>3, <1>4 DEF FilesInv
<1>11. KeptInv
  BY <1>2, <1>3 DEF KeptInv, KernelsKept, Complete
<1>12. MenuInv
  BY <1>3, <1>7 DEF MenuInv, RemovedLeavesMenu
<1>13. QED
  BY <1>8, <1>9, <1>10, <1>11, <1>12 DEF ManageInv

LEMMA StepInv == ManageInv /\ [Next]_vars => ManageInv'
<1>1. SUFFICES ASSUME ManageInv, [Next]_vars PROVE ManageInv'
  OBVIOUS
<1>2. CASE UNCHANGED vars
  <2>1. UNCHANGED <<storeVars, runVars, runs, others, pc, result>>
    BY <1>2 DEF vars
  <2>2. StoreTypeOK' /\ RunTypeOK'
    BY <1>1, <2>1 DEF ManageInv, TypeOK, RunTypeOK, StoreTypeOK, storeVars, fileVars, loaderVars,
                      machineVars, runVars
  <2>3. CursorInv' /\ FilesInv' /\ KeptInv' /\ MenuInv' /\ LoaderInv'
    BY <1>1, <2>1 DEF ManageInv, CursorInv, FilesInv, KeptInv, KernelsKept, Complete, MenuInv,
        RemovedLeavesMenu, LoaderInv, Reaches, LoaderImageOurs, NoCopyToCheck,
        storeVars, fileVars, loaderVars, machineVars, runVars
  <2>4. QED
    BY <2>2, <2>3, Typed DEF ManageInv
<1>3. CASE Next
  <2>1. ASSUME NEW m \in Modes, NEW K \in SUBSET Kver, Start(m, K) PROVE ManageInv'
    BY <1>1, <2>1, StartInv
  <2>2. CASE Quiet \/ NextKernel \/ InstallHooks \/ PurgeKernel \/ CleanLoader \/ Sign \/ Outside
    BY <1>1, <2>2, QuietInv, NextInv, HooksInv, PurgeInv, CleanInv, SignInv, OutsideInv
  <2>3. QED
    BY <1>3, <2>1, <2>2 DEF Next, Script, Quiet, Sign, Outside
<1>4. QED
  BY <1>1, <1>2, <1>3

LEMMA Invariant == Spec => []ManageInv
BY InitInv, StepInv, PTL DEF Spec

\* The disk, the boot loader and the state of a run have their types.
THEOREM ManageTypeCorrect == Spec => []TypeOK
<1>1. ManageInv => TypeOK
  BY DEF ManageInv
<1>2. QED
  BY <1>1, Invariant, PTL

\* However many kernels are asked to be removed, and whatever apt removes at the
\* same time, the running kernel and one as new as the newest stay.
THEOREM KernelsAreKept == Spec => []KernelsKept
<1>1. ManageInv => KernelsKept
  BY DEF ManageInv, KeptInv
<1>2. QED
  BY <1>1, Invariant, PTL

\* A kernel that --remove or --remove-many reports removed is gone from /boot
\* and from the boot menu.
THEOREM RemovedIsGone == Spec => []RemovedLeavesMenu
<1>1. ManageInv => RemovedLeavesMenu
  BY DEF ManageInv, MenuInv
<1>2. QED
  BY <1>1, Invariant, PTL

\* What --sign reports signed is what the boot loader starts.
THEOREM SignedReachesLoader == Spec => []SignReachesLoader
<1>1. ManageInv => SignReachesLoader
  BY DEF ManageInv, LoaderInv, Reaches, SignReachesLoader
<1>2. QED
  BY <1>1, Invariant, PTL

-----------------------------------------------------------------------------
(* SignedImages.                                                           *)

\* Every step of the script, of apt beside it and of the user changes at most one
\* kernel's image, signature and marker, as promised.
LEMMA StepImages == ManageInv /\ [Next]_vars => [Images!Next]_<<image, ours, marker>>
<1> SUFFICES ASSUME ManageInv, [Next]_vars PROVE [Images!Next]_<<image, ours, marker>>
  OBVIOUS
<1>a. TypeOK /\ CursorInv /\ FilesInv
  BY DEF ManageInv
<1>b. marker \subseteq ours /\ ours \subseteq image
  BY <1>a DEF FilesInv
<1>c. pc \in {"purge", "replace", "marker"} => cur \in Kver
  BY <1>a DEF TypeOK, CursorInv, Removing, Signing
<1>d. UNCHANGED fileVars => UNCHANGED <<image, ours, marker>>
  BY DEF fileVars
<1>1. CASE \/ \E m \in Modes, K \in SUBSET Kver : Start(m, K)
           \/ Quiet \/ InstallHooks \/ CleanLoader \/ SyncEsp \/ UNCHANGED vars
  BY <1>d, <1>1
     DEF Start, Quiet, LoopEnds, CheckRemove, SignCopy, Crash, InstallHooks, CleanLoader, SyncEsp,
         vars, storeVars
<1>2. CASE NextKernel
  <2>1. image' = image /\ ours' = ours
        /\ \E v \in Kver : marker' = marker \/ (v \in ours /\ marker' = marker \cup {v})
    BY <1>a, <1>2 DEF NextKernel, AlreadySigned, TypeOK
  <2>2. QED
    BY <2>1 DEF Images!Next, Images!Tell
<1>3. CASE PurgeKernel
  <2>1. CASE Purge(cur, cur)
    BY <1>c, <1>3, <2>1, PurgeRemoves DEF PurgeKernel
  <2>2. CASE image' = image \ {cur} /\ ours' = ours \ {cur} /\ marker' = marker \ {cur}
    BY <1>c, <1>3, <2>2 DEF PurgeKernel, Images!Next, Images!Remove
  <2>3. QED
    BY <1>d, <1>3, <2>1, <2>2 DEF PurgeKernel
<1>4. CASE ReplaceImage
  <2>1. CASE image' = image \cup {cur} /\ ours' = ours \cup {cur} /\ marker' = marker \ {cur}
    BY <1>c, <1>4, <2>1 DEF ReplaceImage, Images!Next, Images!Sign
  <2>2. QED
    BY <1>4, <2>1 DEF ReplaceImage
<1>5. CASE RecordSigned
  <2>1. image' = image /\ ours' = ours /\ (cur \in image => cur \in ours)
        /\ marker' \in {marker, marker \cup ({cur} \cap image)}
    BY <1>a, <1>5 DEF RecordSigned, FilesInv
  <2>2. CASE cur \in image
    BY <1>c, <1>5, <2>1, <2>2 DEF RecordSigned, Images!Next, Images!Tell
  <2>3. CASE cur \notin image
    BY <2>1, <2>3
  <2>4. QED
    BY <2>2, <2>3
<1>6. ASSUME NEW v \in Kver, AptUnpack(v) \/ AptPurge(v)
      PROVE  Images!Next
  BY <1>6, UnpackPuts, PurgeRemoves DEF AptUnpack, AptPurge
<1>7. ASSUME NEW v \in Kver, AptConfigure(v)
      PROVE  [Images!Next]_<<image, ours, marker>>
  BY <1>b, <1>7, ConfigureSigns DEF AptConfigure
<1>8. ASSUME NEW v \in Kver, MakeInstall(v)
      PROVE  Images!Next
  <2>1. /\ image' = image \cup {v} /\ ours' = ours \ {v} /\ marker' = marker \ {v}
    BY <1>b, <1>8 DEF MakeInstall
  <2>2. QED
    BY <2>1 DEF Images!Next, Images!Put
<1>9. QED
  BY <1>1, <1>2, <1>3, <1>4, <1>5, <1>6, <1>7, <1>8 DEF Next, Script, Quiet

\* Removal, signing and setup implement SignedImages, through crashes and apt's
\* steps between any two commands of the script.
THEOREM ManageKeepsImages == Spec => KeepsImages
<1>1. Init => Images!Init
  BY StoreInitImages DEF Init
<1>2. QED
  BY Invariant, StepImages, <1>1, PTL DEF Spec, KeepsImages, Images!Spec
=============================================================================
