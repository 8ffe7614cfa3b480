---------------------------- MODULE KernelStore ----------------------------
(***************************************************************************)
(* What scripts/privileged-install.sh keeps on a machine for every kernel  *)
(* version, and the operations it is built from.                           *)
(*                                                                         *)
(* A kernel is a member of Kver.  The disk is a family of sets of kernels: *)
(* the kernels whose image is in /boot, the kernels whose image carries    *)
(* Kernel Pop's signature, and so on.  A "loader copy" is the image the    *)
(* boot loader itself starts: GRUB reads /boot, systemd-boot and           *)
(* kernelstub start the copy on the EFI system partition (the ESP).        *)
(*                                                                         *)
(* The operators below are actions on those sets, one for each effect of   *)
(* a command the script runs.  The modules that EXTEND this one give them  *)
(* their guards and their order.                                           *)
(***************************************************************************)
EXTENDS FiniteSets

CONSTANTS
    Kver,      \* kernel versions
    Distro,    \* those whose image the distribution ships already signed
    NoKernel,  \* not a kernel: no saved GRUB default, no kernel chosen
    Machines   \* boot loaders a machine may have: a subset of Loaders

Loaders     == {"grub", "systemd-boot", "kernelstub", "unknown"}
EspLoaders  == {"systemd-boot", "kernelstub"}
Enrollments == {"enrolled", "pending", "not-enrolled", "unknown"}
\* "broken" is half-installed, and marked to be reinstalled.
PkgStates   == {"none", "broken", "unpacked", "installed"}

ASSUME KverAssumption ==
    /\ IsFiniteSet(Kver)
    /\ Distro \subseteq Kver
    /\ NoKernel \notin Kver
    /\ Machines \subseteq Loaders

VARIABLES
    \* what dpkg and the script leave on the disk
    pkg,       \* dpkg's state of linux-image-<v>
    image,     \* kernels with /boot/vmlinuz-<v>
    ours,      \* ... whose image carries Kernel Pop's signature
    marker,    \* kernels whose signed marker describes the image in /boot
    modules,   \* kernels with /lib/modules/<v>
    initrd,    \* kernels with /boot/initrd.img-<v>
    \* what the boot loader knows
    entry,     \* kernels in the boot menu
    esp,       \* kernels with an image of their own on the ESP
    espOurs,   \* ... that carries Kernel Pop's signature
    saved,     \* the kernel GRUB's saved_entry names
    \* the machine
    bl,        \* the boot loader in charge
    sb,        \* Secure Boot is enforcing
    key,       \* the signing key set is complete
    enrollment,\* what mokutil --test-key says of the key
    hook,      \* /etc/kernel/postinst.d/zzz-kernel-pop-sign is installed
    running    \* uname -r

fileVars    == <<pkg, image, ours, marker, modules, initrd>>
loaderVars  == <<entry, esp, espOurs>>
machineVars == <<bl, sb, key, enrollment, hook, running>>
storeVars   == <<fileVars, loaderVars, saved, machineVars>>

StoreTypeOK ==
    /\ pkg \in [Kver -> PkgStates]
    /\ image \in SUBSET Kver
    /\ ours \in SUBSET Kver
    /\ marker \in SUBSET Kver
    /\ modules \in SUBSET Kver
    /\ initrd \in SUBSET Kver
    /\ entry \in SUBSET Kver
    /\ esp \in SUBSET Kver
    /\ espOurs \in SUBSET Kver
    /\ saved \in Kver \cup {NoKernel}
    /\ bl \in Loaders
    /\ sb \in BOOLEAN
    /\ key \in BOOLEAN
    /\ enrollment \in Enrollments
    /\ hook \in BOOLEAN
    /\ running \in Kver

(***************************************************************************)
(* A machine before Kernel Pop touches it: some kernels, the running one   *)
(* among them, each installed whole.  With the signing setup done, any of  *)
(* them may have been signed, and the loader's copies agree with /boot.    *)
(***************************************************************************)
StoreInit ==
    /\ bl \in Machines
    /\ sb \in BOOLEAN
    /\ key \in BOOLEAN
    /\ hook \in (IF key THEN BOOLEAN ELSE {FALSE})
    /\ enrollment \in (IF key THEN Enrollments ELSE {"unknown"})
    /\ running \in Kver
    /\ \E K \in SUBSET Kver :
        /\ running \in K
        /\ pkg = [v \in Kver |-> IF v \in K THEN "installed" ELSE "none"]
        /\ image = K /\ modules = K /\ initrd = K
        /\ ours \in (IF key THEN SUBSET K ELSE {{}})
        /\ entry \in (IF bl = "kernelstub"
                      THEN {{running} \cup o : o \in {{}} \cup {{k} : k \in K}}
                      ELSE {K})
        /\ esp = IF bl \in EspLoaders THEN entry ELSE {}
        /\ saved \in (IF bl = "grub" THEN K \cup {NoKernel} ELSE {NoKernel})
    /\ marker = ours
    /\ espOurs = esp \cap ours

-----------------------------------------------------------------------------
(* What a kernel needs to boot.                                            *)

\* The image the boot loader starts carries Kernel Pop's signature
\* (kernel_signed for GRUB, the check of sync_signed_to_esp for the others).
LoaderImageOurs(v) == IF bl \in EspLoaders THEN v \in espOurs ELSE v \in ours

\* shim starts it: Secure Boot is off, or the loader's image is signed with
\* a key that is enrolled, or will be once MOK Manager has been confirmed.
ShimAccepts(v) ==
    \/ ~sb
    \/ v \in Distro
    \/ LoaderImageOurs(v) /\ enrollment \in {"enrolled", "pending"}

\* Image, modules and initramfs are all on the disk.
Complete(v) == v \in image \cap modules \cap initrd

-----------------------------------------------------------------------------
(* Signing in /boot.                                                       *)

\* The signed copy is moved over the image; a marker left from the image
\* that was there no longer describes it.
ReplaceWithSigned(v) ==
    /\ ours' = ours \cup {v}
    /\ marker' = marker \ {v}
    /\ UNCHANGED <<pkg, image, modules, initrd>>

\* write_signed_marker: record the image as it is now, or fail to.
WriteSignedMarker(v) ==
    /\ marker' \in {marker, marker \cup {v}}
    /\ UNCHANGED <<pkg, image, ours, modules, initrd>>

-----------------------------------------------------------------------------
(* The boot loader's own copy.                                             *)

\* kernel-install add or bare kernelstub: copy /boot's image of v to the ESP,
\* where `signed` are the images in /boot that carry our signature.
\* kernelstub copies every kernel it keeps.
RefreshCopy(v, signed) ==
    \/ /\ bl = "systemd-boot"
       /\ entry' = entry \cup {v}
       /\ esp' = esp \cup {v}
       /\ espOurs' = (espOurs \ {v}) \cup (signed \cap {v})
    \/ /\ bl = "kernelstub"
       /\ esp' = entry
       /\ espOurs' = entry \cap signed
       /\ UNCHANGED entry

\* The loader's postinst hook for kernel v.  kernelstub keeps v and at most
\* one older kernel; update-grub lists every image in /boot.
LoaderHook(v, signed) ==
    \/ bl = "systemd-boot" /\ RefreshCopy(v, signed)
    \/ /\ bl = "kernelstub"
       /\ \E old \in {{}} \cup {{k} : k \in entry} : entry' = {v} \cup old
       /\ esp' = entry'
       /\ espOurs' = entry' \cap signed
    \/ /\ bl = "grub"
       /\ entry' = image
       /\ UNCHANGED <<esp, espOurs>>
    \/ /\ bl = "unknown"
       /\ UNCHANGED loaderVars

\* sync_signed_to_esp for kernel v, returning success as `ok`.  It succeeds
\* only when the loader has no copy of its own, or the copy verifies.
SyncSignedToEsp(v, ok) ==
    IF bl \notin EspLoaders \/ (bl = "kernelstub" /\ v \notin entry)
    THEN ok /\ UNCHANGED loaderVars
    ELSE /\ RefreshCopy(v, ours) \/ UNCHANGED loaderVars
         /\ ok => v \in espOurs'

\* What the loader still lists once kernel v's packages are purged: GRUB's
\* and kernelstub's postrm hooks drop it, systemd-boot has none.
LoaderForgets(v) ==
    \/ /\ bl = "kernelstub"
       /\ entry' = entry \ {v}
       /\ esp' = esp \ {v}
       /\ espOurs' = espOurs \ {v}
    \/ /\ bl = "grub"
       /\ entry' = image'
       /\ UNCHANGED <<esp, espOurs>>
    \/ /\ bl \in {"systemd-boot", "unknown"}
       /\ UNCHANGED loaderVars

-----------------------------------------------------------------------------
(* dpkg and apt-get (external), as the script relies on them.              *)

\* Unpacking package n puts kernel p's unsigned image and modules in place,
\* over whatever was there.
Unpack(n, p) ==
    /\ pkg' = [pkg EXCEPT ![n] = "unpacked"]
    /\ image' = image \cup {p}
    /\ ours' = ours \ {p}
    /\ marker' = marker \ {p}
    /\ modules' = modules \cup {p}
    /\ UNCHANGED <<initrd, loaderVars>>

\* Unpacking is cut off: of kernel p's image and modules either may be the
\* package's by then.
HalfUnpack(n, p) ==
    /\ pkg' = [pkg EXCEPT ![n] = "broken"]
    /\ \/ image' = image \cup {p} /\ ours' = ours \ {p} /\ marker' = marker \ {p}
       \/ UNCHANGED <<image, ours, marker>>
    /\ modules' \in {modules, modules \cup {p}}
    /\ UNCHANGED <<initrd, loaderVars>>

\* do_sign_new_kernel, run as the last postinst hook: what ours may be when
\* it returns.  It signs only an image with no signature at all, and the
\* hook ignores every failure.
SignedByHook(v) ==
    IF hook /\ key /\ v \in image \ Distro THEN {ours, ours \cup {v}} ELSE {ours}

\* Configuring package n runs /etc/kernel/postinst.d for kernel p: the
\* initramfs, the loader's hook, then Kernel Pop's.  Each may fail on its
\* own; `done` is FALSE when dpkg stops part way.
Configure(n, p, done) ==
    /\ pkg' = IF done THEN [pkg EXCEPT ![n] = "installed"] ELSE pkg
    /\ initrd' \in {initrd, initrd \cup {p}}
    /\ ours' \in SignedByHook(p)
    /\ marker' \in {marker, marker \cup (ours' \cap {p})}
    /\ \/ \E signed \in {ours, ours'} : LoaderHook(p, signed)
       \/ UNCHANGED loaderVars
    /\ UNCHANGED <<image, modules>>

\* Purging package n removes kernel p's files.
Purge(n, p) ==
    /\ pkg' = [pkg EXCEPT ![n] = "none"]
    /\ image' = image \ {p}
    /\ ours' = ours \ {p}
    /\ marker' = marker \ {p}
    /\ modules' = modules \ {p}
    /\ initrd' = initrd \ {p}
    /\ LoaderForgets(p)

-----------------------------------------------------------------------------
\* What the app is promised of /boot, SignedImages, is kept: an image that is
\* replaced, removed or signed is one kernel's, only a new one takes a signature
\* away, and a marker stands for an image that is there and signed
\* (sign_kernel, write_signed_marker, the hooks of dpkg).
Images == INSTANCE SignedImages WITH boot <- image, signed <- ours, told <- marker
KeepsImages == Images!Spec
=============================================================================
