------------------------- MODULE KernelStoreProofs -------------------------
(* Lemmas about the operators of KernelStore, for every set of kernels.    *)
EXTENDS KernelStore, TLAPS

USE KverAssumption

-----------------------------------------------------------------------------
(* The operators of KernelStore keep the store's type.                     *)

\* Signing in /boot and the marker keep the types of the files.
LEMMA SigningType ==
    ASSUME StoreTypeOK, NEW v \in Kver,
           ReplaceWithSigned(v) \/ WriteSignedMarker(v),
           UNCHANGED <<loaderVars, saved, machineVars>>
    PROVE  StoreTypeOK'
BY DEF StoreTypeOK, ReplaceWithSigned, WriteSignedMarker, loaderVars, machineVars

\* What the loader lists and copies stays a set of kernels.
LEMMA SyncType ==
    ASSUME StoreTypeOK, NEW v \in Kver, NEW ok \in BOOLEAN,
           SyncSignedToEsp(v, ok),
           UNCHANGED <<fileVars, saved, machineVars>>
    PROVE  StoreTypeOK'
BY DEF StoreTypeOK, SyncSignedToEsp, RefreshCopy, loaderVars, fileVars, machineVars

\* dpkg's unpacking keeps the store's type.
LEMMA UnpackType ==
    ASSUME StoreTypeOK, NEW n \in Kver, NEW p \in Kver, Unpack(n, p),
           UNCHANGED <<saved, machineVars>>
    PROVE  StoreTypeOK'
BY DEF StoreTypeOK, Unpack, PkgStates, loaderVars, machineVars

\* ... so does an unpacking that is cut off ...
LEMMA HalfUnpackType ==
    ASSUME StoreTypeOK, NEW n \in Kver, NEW p \in Kver, HalfUnpack(n, p),
           UNCHANGED <<saved, machineVars>>
    PROVE  StoreTypeOK'
BY DEF StoreTypeOK, HalfUnpack, PkgStates, loaderVars, machineVars

\* ... its configuring does, whatever the hooks do ...
LEMMA ConfigureType ==
    ASSUME StoreTypeOK, NEW n \in Kver, NEW p \in Kver, NEW done \in BOOLEAN,
           Configure(n, p, done), UNCHANGED <<saved, machineVars>>
    PROVE  StoreTypeOK'
<1>1. pkg' \in [Kver -> PkgStates] /\ initrd' \in SUBSET Kver /\ ours' \in SUBSET Kver
  BY DEF StoreTypeOK, Configure, SignedByHook, PkgStates
<1>2. marker' \in SUBSET Kver /\ image' \in SUBSET Kver /\ modules' \in SUBSET Kver
  BY <1>1 DEF StoreTypeOK, Configure
<1>3. entry' \in SUBSET Kver /\ esp' \in SUBSET Kver /\ espOurs' \in SUBSET Kver
  <2>1. CASE UNCHANGED loaderVars
    BY <2>1 DEF StoreTypeOK, loaderVars
  <2>2. ASSUME NEW signed \in {ours, ours'}, LoaderHook(p, signed)
        PROVE  entry' \in SUBSET Kver /\ esp' \in SUBSET Kver /\ espOurs' \in SUBSET Kver
    BY <1>1, <2>2 DEF StoreTypeOK, LoaderHook, RefreshCopy, loaderVars
  <2>3. QED
    BY <2>1, <2>2 DEF Configure
<1>4. QED
  BY <1>1, <1>2, <1>3 DEF StoreTypeOK, machineVars

\* ... and so does its purging.
LEMMA PurgeType ==
    ASSUME StoreTypeOK, NEW n \in Kver, NEW p \in Kver, Purge(n, p),
           UNCHANGED <<saved, machineVars>>
    PROVE  StoreTypeOK'
BY DEF StoreTypeOK, Purge, LoaderForgets, PkgStates, loaderVars, machineVars

-----------------------------------------------------------------------------
(* What the operators change, and what they leave.                         *)

\* Configuring only ever adds signatures, and marks only signed images.
LEMMA ConfigureFiles ==
    ASSUME NEW n, NEW p, NEW done, Configure(n, p, done)
    PROVE  /\ image' = image /\ modules' = modules /\ initrd \subseteq initrd'
           /\ ours \subseteq ours' /\ ours' \subseteq ours \cup (image \cap {p})
           /\ marker' \subseteq marker \cup ours'
           /\ pkg' = pkg \/ pkg' = [pkg EXCEPT ![n] = "installed"]
<1>1. ours' \in {ours, ours \cup (image \cap {p})}
  BY DEF Configure, SignedByHook
<1>2. marker' \in {marker, marker \cup (ours' \cap {p})} /\ initrd' \in {initrd, initrd \cup {p}}
  BY DEF Configure
<1>3. image' = image /\ modules' = modules
  BY DEF Configure
<1>4. pkg' = pkg \/ pkg' = [pkg EXCEPT ![n] = "installed"]
  BY DEF Configure
<1>5. QED
  BY <1>1, <1>2, <1>3, <1>4

\* A boot loader's hook lists no more than kernel v besides what was listed,
\* or what is in /boot.
LEMMA HookEntry ==
    ASSUME NEW v, NEW signed, LoaderHook(v, signed)
    PROVE  entry' \subseteq entry \cup {v} \/ (bl = "grub" /\ entry' = image)
<1>1. CASE bl = "systemd-boot"
  BY <1>1 DEF LoaderHook, RefreshCopy
<1>2. CASE bl = "kernelstub"
  <2>1. PICK old \in {{}} \cup {{k} : k \in entry} : entry' = {v} \cup old
    BY <1>2 DEF LoaderHook
  <2>2. QED
    BY <2>1
<1>3. CASE bl \notin {"systemd-boot", "kernelstub"}
  BY <1>3 DEF LoaderHook, loaderVars
<1>4. QED
  BY <1>1, <1>2, <1>3

\* ... and no copy it makes loses a signature that /boot's image has.
LEMMA HookCopies ==
    ASSUME NEW v, NEW signed, LoaderHook(v, signed), NEW w \in signed,
           bl \in EspLoaders
    PROVE  \/ w \in espOurs'
           \/ bl = "kernelstub" /\ w \notin entry'
           \/ w \notin espOurs /\ bl = "systemd-boot"
<1>1. CASE bl = "systemd-boot"
  BY <1>1 DEF LoaderHook, RefreshCopy
<1>2. CASE bl = "kernelstub"
  BY <1>2 DEF LoaderHook
<1>3. QED
  BY <1>1, <1>2 DEF EspLoaders

\* Purging a package takes the files, and nothing else, of its kernel.
LEMMA PurgeFiles ==
    ASSUME NEW n, NEW p, Purge(n, p)
    PROVE  /\ image' = image \ {p} /\ ours' = ours \ {p} /\ marker' = marker \ {p}
           /\ modules' = modules \ {p} /\ initrd' = initrd \ {p}
           /\ pkg' = [pkg EXCEPT ![n] = "none"]
           /\ entry' \subseteq entry \/ (bl = "grub" /\ entry' = image')
           /\ bl = "kernelstub" => p \notin entry'
BY DEF Purge, LoaderForgets, loaderVars

-----------------------------------------------------------------------------
(* The operators implement SignedImages.                                   *)

\* The promise itself: every step of it leaves the app with the truth.
THEOREM ToldIsTrue == Images!Spec => []Images!Truthful
<1>1. Images!Init => Images!Truthful
  BY DEF Images!Init, Images!Truthful
<1>2. Images!Truthful /\ [Images!Next]_<<image, ours, marker>> => Images!Truthful'
  BY DEF Images!Truthful, Images!Next, Images!Put, Images!Sign, Images!Tell, Images!Remove
<1>3. QED
  BY <1>1, <1>2, PTL DEF Images!Spec

\* A machine before Kernel Pop touches it keeps the promise.
LEMMA StoreInitImages == StoreInit => Images!Init
BY DEF StoreInit, Images!Init

\* Unpacking and purging are a new image and none.
LEMMA UnpackPuts ==
    ASSUME NEW n, NEW p \in Kver, Unpack(n, p) PROVE Images!Next
BY DEF Unpack, Images!Next, Images!Put

\* ... and an unpacking cut off is a new image or a stutter.
LEMMA HalfUnpackPuts ==
    ASSUME NEW n, NEW p \in Kver, HalfUnpack(n, p)
    PROVE  [Images!Next]_<<image, ours, marker>>
BY DEF HalfUnpack, Images!Next, Images!Put

LEMMA PurgeRemoves ==
    ASSUME NEW n, NEW p \in Kver, Purge(n, p) PROVE Images!Next
BY DEF Purge, Images!Next, Images!Remove

\* Configuring signs and marks one image, or marks it, or neither.
LEMMA ConfigureSigns ==
    ASSUME marker \subseteq ours,
           NEW n, NEW p \in Kver, NEW done, Configure(n, p, done)
    PROVE  [Images!Next]_<<image, ours, marker>>
<1>1. image' = image /\ marker' \in {marker, marker \cup (ours' \cap {p})}
  BY DEF Configure
<1>2. CASE ours' = ours
  <2>1. CASE p \in ours
    BY <1>1, <1>2, <2>1 DEF Images!Next, Images!Tell
  <2>2. CASE p \notin ours
    BY <1>1, <1>2, <2>2
  <2>3. QED
    BY <2>1, <2>2
<1>3. CASE ours' # ours
  <2>1. ours' = ours \cup {p} /\ p \in image /\ p \notin ours
    BY <1>3 DEF Configure, SignedByHook
  <2>2. marker' \in {marker \ {p}, marker \cup {p}} /\ image' = image \cup {p}
    BY <1>1, <2>1
  <2>3. Images!Sign(p)
    BY <2>1, <2>2 DEF Images!Sign
  <2>4. QED
    BY <2>3 DEF Images!Next
<1>4. QED
  BY <1>2, <1>3

\* Signing in /boot is signing, and the marker is told of a signed image.
LEMMA ReplaceSigns ==
    ASSUME NEW v \in Kver, v \in image, ReplaceWithSigned(v) PROVE Images!Next
BY DEF ReplaceWithSigned, Images!Next, Images!Sign

LEMMA MarkerTells ==
    ASSUME NEW v \in Kver, v \in ours, WriteSignedMarker(v)
    PROVE  [Images!Next]_<<image, ours, marker>>
BY DEF WriteSignedMarker, Images!Next, Images!Tell
=============================================================================
