# A TLA+ model of Kernel Pop

Kernel Pop builds kernel.org kernels as the user, and installs, signs and
removes kernels as root through one script. These modules model the parts of
it where the order of steps, a failure half way, or a second actor decides
whether the machine still boots, and whether what the window says is true. TLC
checks them on small instances; TLAPS proves their safety properties for
instances of any size.

Paths below are relative to the repository. *The script* is
`scripts/privileged-install.sh`.

## The system

| Part | State it keeps | Operations | What makes it correct |
|---|---|---|---|
| **Kernel store** (`/boot`, `/lib/modules`, dpkg, boot loader, ESP, `/var/lib/kernel-pop/signed`) | per kernel: package, image, signature, signed marker, modules, initramfs, menu entry, ESP copy and its signature; GRUB's saved default | dpkg's unpack/configure/purge and their hooks, signing, re-sync of the ESP copy | a marker never calls an unsigned image signed |
| **Install** (`do_install`) | the version it goes on with, listings taken before dpkg, what it has signed and warned about | preflight, trial signing, the finishing of interrupted package runs, dpkg and its repair, cross-checks, signing, initramfs, boot loader, GRUB default, rollback | success means the kernel boots; a refusal changes nothing; other installed kernels survive |
| **Removal and signing** (`do_remove`, `do_remove_many`, `do_sign`, kernels' loop of `do_setup_signing`) | the loop's position, the newest kernel as read once | purge or `rm`, boot menu clean-up, sign, marker, ESP re-sync | the running and the newest kernel stay; a removed kernel leaves the menu; a signed one is signed where the loader reads it |
| **Enrollment** (`queue_key_enrollment`; `src/system.rs`) | firmware request and its password, shared list of waiting keys | collect, revoke, import, retry, record | nothing that waited is lost silently; one password; "waiting" is true |
| **Build** (`src/build.rs`, `src/ui.rs`) | `BuildControl` (flag, process group), worker position, busy state, dialog, close timer | prepare, confirm or decline, build, cancel, close | a cancel ends everything it started and leaves nothing; the window outlives the build |
| **Publication** (`publish`, `run_build`) | three directories: listed, temporary, set aside | fill, move aside, swap, put back, delete | what is listed is whole; one fault loses no finished build |
| **Staging** (`stage_verified_debs`; `src/install.rs`) | private copy, manifest hashes | trusted copy, hash check, allowlist | what is installed is what was verified |
| **Install tab** (`src/ui.rs`, `src/build.rs`) | the list of builds, the selected one, whether it was checked, checks and listings under way | list, select, check, delete, install | an answer is applied to what it was asked about; only what was checked is installed |
| **Sources** (`src/source.rs`, `src/verify.rs`, `src/download.rs`) | part files, tarball, signature, private copy, signature state, override | download, retry, choose, drop, check, allow | a build names the trust its source really has |
| **System tab** (`src/ui.rs`, `src/system.rs`) | the last scan's answer, scans under way, the dialog and what it is about | scan, remove, prune, sign, set up | a stale list takes no kernel that matters; app and script judge Secure Boot alike |
| **Launcher** (`src/install.rs`) | one run under `pkexec`: output, exit code, message | check helper, authenticate, run, report | "cancelled" means nothing happened |
| **shim chain** (`setup_shim_chain`, `sign_boot_loader`) | ESP files and firmware entries | install, sign, restore, prune | the machine always has a loader the firmware starts |

How they interact: the window (GTK thread) starts worker threads for builds,
downloads and checks and gets their results as callbacks; one *busy* state keeps
two actions from running at once. Root work is one run of the script under
`pkexec`, whose output the app reads line by line. The script calls dpkg and
apt-get, which call the hooks in `/etc/kernel/postinst.d`, one of which is the
script again (`--sign-new-kernel`). The app may not read what root writes, so it
is told by small files: the signed marker of a kernel, the list of waiting keys,
the manifest of a finished build. apt runs on its own at any time; only dpkg's
lock is between it and the script.

What is hard: crashes between any two commands of root's script and runs that
meet what an earlier run left; hooks that fail without dpkg noticing; the ESP copy
that is made before the image is signed; signing, which holds no lock; a firmware
request that several tools rebuild; a cancel that races the start of a command; a
close request that waits for a build; directories swapped by two renames.
`PROJECT.json` lists each hazard at its line with the properties that cover it.

## Modules

| Module | Models | Composition |
|---|---|---|
| `KernelStore` | the machine: what is on the disk, what the boot loader knows, and the effect of each command on it | extended by `Install` and `Manage` |
| `SignedImages` | abstract: what the app is told about the images in `/boot` | implemented by `Install` and `Manage`, through `KernelStore` |
| `KernelStoreProofs` | lemmas: what each command on the store returns and keeps, and what it is in `SignedImages` | EXTENDS `KernelStore`, `TLAPS` |
| `Install` | `do_install`, one action per command | EXTENDS `KernelStore` |
| `InstallProofs` | theorems about `Install` | EXTENDS `Install`, `KernelStoreProofs` |
| `Manage` | `--remove`, `--remove-many`, `--sign`, the kernels' loop of `--setup-signing`, with apt beside them | EXTENDS `KernelStore` |
| `ManageProofs` | theorems about `Manage` | EXTENDS `Manage`, `KernelStoreProofs` |
| `Enroll` | `queue_key_enrollment`, mokutil, MOK Manager, other tools, and the status the app shows | |
| `Build` | worker thread, GTK thread, killer threads and processes of a build | |
| `Publish` | the directory swap of a finished build | |
| `BuildSession` | builds with their publications, and restarts of the app: the worker's last step is the whole of `Publish` | EXTENDS `Build`, `Publish` |
| `BuildProofs` | theorems about `BuildSession` | EXTENDS `BuildSession`, `TLAPS` |
| `Download` | `download_files`: attempts, part files, lengths, cancel | |
| `Source` | a tarball from its choice or download to the tree a build unpacks | EXTENDS `Download` |
| `SourceTrust` | abstract: what the Build page promises about trust | implemented by `Source` |
| `SourceProofs` | theorems about `Source`, and the refinement | EXTENDS `Source`, `TLAPS` |
| `Staging` | `stage_verified_debs`: root's copy of a user's folder | |
| `InstallPage` | the Install tab over finished builds, and the script's staging below it | EXTENDS `Staging` |
| `InstallPageProofs` | theorems about both | EXTENDS `InstallPage`, `TLAPS` |
| `SystemState` | pure: what app and script read of the machine, and how kernels are ordered | |
| `Privileged` | one run of the script under `pkexec`, and what the window says of it | |
| `SystemPage` | the System tab: scans, dialogs, runs, with apt and other tools beside them | EXTENDS `SystemState`, `Privileged` |
| `SystemPageProofs` | theorems about the three | EXTENDS `SystemPage`, `TLAPS` |
| `ShimChain` | shim in front of systemd-boot: the setup's steps on the ESP and in the firmware, the apt hook, upgrades, and what the firmware can start | |
| `SetupProofs` | theorems about `ShimChain`, and about `Enroll` | EXTENDS `Enroll`, `ShimChain`, `TLAPS` |
| `MC*` | finite instances of the constants | EXTENDS the module |

Each `MCx` with `x.cfg` (and the variants of it) is an instance TLC runs. A
definition whose comment begins with "Mutant" is not part of a specification: it
is a plausible mistake in the definition below it, kept to show which property
notices it.

### How state and actions correspond to the code

**KernelStore.** The disk is a family of sets of kernel versions: `image` is the
set with a `vmlinuz`, `ours` those whose image carries Kernel Pop's signature,
`marker` those whose marker describes the image now in `/boot` (an image that
is replaced leaves `marker`). `esp` and `espOurs` are the same for the boot
loader's own copies. The four values of `bl` are those `detect_bootloader`
prints; GRUB reads `/boot`, systemd-boot and kernelstub start ESP copies. dpkg,
apt, the loaders' hooks and shim are external: they are modelled by the effects
the script relies on, and each of them may fail by itself (`Configure`).

**Install.** `pc` names the next command. A `die` is an outcome in `result`, one
name per promise its message makes: `refused` ("Nothing was installed"),
`rolled-back` ("removed again"), `stuck`, `locked`, and so on. `name`, `payload`
and `kver` are three versions on purpose: the package's name, the files inside,
and what the script goes on with after its listing of `/lib/modules`; `contents` is
whose files a package holds, so that a kernel's package and its files can part.
`Crash` can fall between any two actions. `FinishInterrupted` is what
`finish_interrupted_dpkg` does before each call of dpkg or apt-get to *any* kernel whose
package was left unpacked or broken, by an earlier run or by an update that was
switched off (`UpdateInterrupted`): `dpkg --configure -a`, `apt-get install -f`
(`AptFix`: configures or removes it) and `--reinstall`, each of which may fail on any
package. `Repair` may fix any such kernel too. An assumption on the input is
`HeldByNone`: no package of another name holds the same kernel's files, which dpkg
refuses. apt's repair is taken to remove only what is interrupted, never a package that
is installed. `Finish` includes the summary.

**Manage.** One run works on the kernels in `todo`; `cur` is the one at hand.
`sign_kernel` is three actions (`SignCopy`, `ReplaceImage`, `RecordSigned`), since
apt can purge the kernel between them. `AptUnpack`, `AptConfigure` and
`AptPurge` interleave with a run; `MakeInstall` (a kernel no package owns)
happens between runs. Assumed of the others: apt keeps the running kernel and
the newest one, that it configures what it unpacks (runs of it that are cut off, and
what the script then makes of them, are `Install`'s), and that nobody brings back,
during a run, a version the run found when it began.

**Enroll.** `mokNew` is the firmware's request as a set of entries, `mokAuth`
its password. The constant `RequestSize` gives the size the app can see of each
request. A request replaced by another of the same size is taken for the recorded
one, which the code cannot see; in the instance some requests are of one size, and
`SizeTells` says when the one that waits is not among them.
Other tools import at any time and revoke only between setups.

**Build.** `run_with` is seven actions, from the first look at the flag to the
last. `cancel` is two (`RaiseFlag`, `SignalGroup`), because the worker runs
between its store and its load; the GTK thread is inside it meanwhile
(`signalling`), so no other callback runs. `KillerFires` is the thread that sends
SIGKILL five seconds later. A command may end by itself, on SIGTERM, or never. Deletions
of the tree and of packages may fail, which the code ignores; `undeleted` records it.

**Publish.** A set is the build it came from and the parts it has; a part is a
file, or files, `publish` writes in one go. Every step may fail and the machine may
stop at every step; a directory being deleted may then have lost any of its files.

**BuildSession.** `Build`'s `Publish` is one step there; here it is replaced by the steps
of `Publish`, between which the window's callbacks and the killer threads run
(`PublishOn`), and the worker's outcome is the publication's. `Restart` is a stop in the
middle of one: what is in memory goes, the three directories stay.

**Download and Source.** A download is a queue of files and the state of the one at
hand: `Attempt` is the request, `Chunk` the flag and some more data, as often as the
server sends any (there is no last chunk), `EndOfStream` the length check; a file gets
its real name in a step of `Source` (`PlaceFile`), which knows what that name is. What
a tarball or a signature holds is one of a few contents (`Content`, `Signature`),
enough to tell what gpgv tells apart. The thread of `set_source` is a step per file it
reads, because others may write to the user's files between any two (`SomebodyElse`);
only the private copy is out of their reach. gpgv is external: `GpgvStatus` is the set
of reports it may give. The user's `.tar.sign` is read twice, for its signer and by
gpgv, and may be another one each time (`SignatureNow`). `asked` is what the private
copy held when the question about the override was opened, `consented` what it held
when the question was asked that was answered yes, and `overtaken` says that a tarball
was chosen under the open dialog.

**Staging and InstallPage.** A folder is a manifest and packages, each named by the
build it came from; `Junk` is what no build wrote. `BuiltSet` is what the list
shows of a folder: two builds of one release look alike, which is the case in which
an answer meets another set than it was asked about. `check` has a slot per thread
of `verify_built_set`, `listing` the calls of `load_built`; both may end in any
order. The script reads the folder one file per step, under the same `SomebodyElse`.
Path, owner and type tests of the staging are its one refusal (`Die`).

**SystemState, Privileged and SystemPage.** A version is what `version_key` takes
from it and its rank in `sort -V`. A machine is the firmware and key facts that
either side reads; `DetectSecureBoot` and `DetectKernelSigning` are the app's view,
`PreflightPasses` the script's. A scan reads the key, then the kernels, then
answers, and scans overtake each other. Runs are in outline: which kernels go, what
the setup changes, and above all whether the script has printed anything before
it changes something, since `describe_failure` depends on it. `Manage` and `Enroll`
have the details.

**ShimChain.** The ESP is what matters of it: who signed the systemd-boot there and
which version it is, which of shim's files are in the vendor's directory and on the
fallback path, whether the CSV names systemd-boot. `Boots` says whether the firmware
can start anything. `sign_boot_loader` is run by the setup and by the apt hook, step by
step and at once, since neither holds a lock; `esp_install` writes a file as a whole or
not at all, because it renames. A setup that is the second on the machine meets what
the first, or its crash, left. The packages of shim are taken to hold all three files
(`fb` and `mm` are optional in the code). Assumed of the firmware: it starts the first
entry that works and `BOOTX64.EFI` if there is none, and with Secure Boot on it starts
shim only. Assumed of the user: Secure Boot is turned on once the keys are enrolled
*and* a setup has reported the boot path. The first half is README.md:209; the second is
needed, see below. Kernels are `Manage`'s, the request is `Enroll`'s.

## Runs

| Run | Question | Bounds |
|---|---|---|
| `install` | is what an install reports true, however it ends, and after an earlier install or update that was cut off anywhere? | 2 kernels built from source, all four loaders, 2 package runs, an interrupted update counted (the second on systemd-boot only, by a constraint) |
| `manage` | removal and signing against apt | 3 kernels, all loaders, 1 run, 2 events besides |
| `build` | cancel, decline and close at every interleaving; does a cancelled build end; is what is listed whole, and what do faults lose? | 3 builds of one release with their publications, 2 faults, up to 2 commands in prepare |
| `enroll` | is the request rebuilt without loss, and is the status true? | own key, DKMS key, one other certificate, one hash, 2 passwords; some requests are of one size |
| `source` | is what is called verified what was released, was what is not allowed, and does a cancelled download end? | 1 tarball, 3 attempts (as in the code) |
| `installpage` | is what the tab says true, and what is installed checked? | 2 releases, 3 builds (2 of one release), 2 checks and 2 listings at a time, 1 write by others |
| `systempage` | do stale scans and orders that differ cost a kernel; do app and script agree? | 3 versions the two orders disagree on, every firmware state, 2 scans at a time, 1 run, 1 act of others |
| `shim` | does the machine always have something to start? | 2 setups, 2 upgrades of systemd-boot; the firmware has an entry for systemd-boot, none, one for Ubuntu's shim, or the chain of an earlier version of the setup |

Why these are enough: an install touches its own kernel and what it might touch by
mistake is one other (`name` and `payload` may differ, which makes two); two runs are
one over whatever one left, an install or an update. The bulk removal needs three
kernels, for one that runs, one that was newest and one installed since; its race with
apt needs an install and a purge. In `Build` the third command would meet the same
states as the second, because `run_with` forgets the first. A publication can meet a
set listed, one set aside and one of its own, hence three builds; what is promised is
about one fault, and a second one shows that the rest holds after more. A page has one
source, so one tarball that anybody may rewrite meets what two would; the retries are
the code's own number. Mistaken answers on the Install tab need two sets that look
alike and one that does not, and two checks that overtake each other. The System tab
needs a newest kernel in each of the two orders and one more to remove, and a scan
that is older than the one shown. The second setup meets what the first left; one
upgrade meets the hook of the setup, and a second one the hook of the first.

What the runs show:

- `install`: a reported success is a kernel with image, modules and initramfs, in
  the menu, that shim accepts in the very copy the loader starts
  (`SuccessIsBootable`), with a warning where the copy is unsigned or the key is
  waiting (`SuccessIsCandid`). GRUB's default moves only to a
  kernel that boots, and a run that fails has not moved it
  (`DefaultMovesOnlyToBootable`). What a failed install says of the disk is so: a
  refused one changed nothing, an undone one is gone from disk and dpkg
  (`FailureIsAsReported`); and no kernel that dpkg had as installed lost anything, while
  interrupted package runs of any kernel were being finished (`OtherKernelsKept`).
- `manage`: it implements `SignedImages`, so markers stay true under races
  (`KeepsImages`), the running kernel
  and one at least as new as the newest survive (`KernelsKept`), a removed
  kernel leaves the menu (`RemovedLeavesMenu`; kernelstub with an unowned kernel is
  the exception the code leaves), and `--sign` reports success only when the
  loader's copy is signed (`SignReachesLoader`).
- `build`: no process outlives its worker (`NothingRunsUnattended`), a build
  reported as cancelled left neither tree nor packages, but for what could not be
  deleted (`CancelledLeavesNothing`), a declined tree is deleted under no other build
  (`DiscardIsAlone`), the window goes last (`ClosedAfterBuild`), and a cancel
  ends worker and processes (`CancelStopsBuild`). The listed set is whole
  (`OutIsWhole`), and one fault loses no finished build (`OneFaultLosesNothing`).
- `enroll`: what waited still waits or is trusted unless the setup says otherwise
  (`NothingWaitingLost`); a key shown as waiting is in the request, unless another
  request has the same size, and the password chosen last enrolls it
  (`PendingIsWaiting`).
- `source`: a part file that is shorter than the server said never gets the real name
  (`RenamesWhole`), "Good signature" is said only while the private copy holds what a
  release signer signed (`VerifiedIsReleased`), nothing else is unpacked unless the
  user said yes to the question about those very bytes, or chose the source while that
  question was open (`UnverifiedWasAllowed`; the second case is `source_override`), a
  download that is cancelled ends even if the server never stops sending
  (`CancelEndsDownload`), and all of it implements `SourceTrust` (`KeepsTrust`).
- `installpage`: dpkg is given one whole build (`GivenIsOneBuild`), the badge beside
  the selected set is true (`TabIsTruthful`), and the script is started only for a
  folder whose set was checked (`InstallsChecked`). What root installs is checked
  again by root, so the first property does not rest on the other two.
- `systempage`: a run reported as cancelled or not authorized changed nothing, though
  the script may end with 126 or 127 too (`CancelledChangedNothing`); a bulk removal
  spares the running kernel, the newest of the list it was chosen from in the app's
  order and the newest installed in the script's (`PruneKeepsNewest`); and what the
  app blocks, the script refuses, up to the differences named (`PreflightsAgree`).
- `shim`: there is always something the firmware starts, whatever fails or stops
  (`AlwaysBoots`), but for the one case named below; once the boot path is reported, the
  machine would start with Secure Boot on and its entries lost (`FallbackIsWhole`). Both
  hold through the upgrades that add bootctl's entries again and the hook that removes
  them.

### Disagreements the runs show

Each of these runs checks one sentence of the repository and TLC finds it violated:

| Run | What the code does |
|---|---|
| `install_failed_refused` | an install that fails between dpkg and signing leaves an unsigned kernel in the menu with Secure Boot on |
| `manage_setup` | the setup does not refresh the ESP copy of a kernel it finds signed in `/boot`, so an interrupted setup is never made good |
| `source_override` | the answer to "Build source that is not verified?" counts for a tarball dropped under that dialog, though src/ui.rs:81 says it is "given for this one tarball only" |
| `build_close` | the timer of a close request made during a build does not look at the busy state: it can close the window under a privileged action begun since |

Seen while modelling, in the models, and stated by the exemptions of the properties:

- `setup_shim_chain` makes `BOOTX64.EFI` shim before the fallback loader is next to it
  and the CSV is written. Where the firmware has no entry of its own and starts
  systemd-boot by that path, a failure between leaves nothing it can start, although
  README.md:233-236 says that "a failure leaves the old boot path in place"
  (`AlwaysBoots` exempts it, and only it).
- The rollback of an install purges packages and does nothing about the menu. The
  comments differ on whether a postrm hook does: scripts/privileged-install.sh:842-843
  says they "take the kernel out of the boot menu again", line 1315 that on systemd-boot
  there is none. The model follows the second, and an undone kernel keeps its entry there
  (`FailureIsAsReported` says nothing of the menu).
- The same rollback may name the wrong kernel. When the finishing of an interrupted run
  brings another kernel's directory under `/lib/modules` after the listing, and dpkg has
  left none for the packages' kernel, the script goes on with that other kernel (line
  1094), and says of *it* that it "was removed again" (line 850), although the packages'
  kernel is the one that went. `FailureIsAsReported` is about the packages' kernel; about
  the version the message names it fails.

Not disagreements, but worth knowing, and in the models: a crash between the two
renames and then a publication that fails deletes the earlier build (two faults);
`newest_kver_in_list` and `version_key` order 7.4.0-76-generic and 7.4.0-kernelpop
differently, so a bulk removal spares the newest of each; the finishing of an
interrupted package run may remove or replace any kernel whose own run it was, the
running one included; a cancel that comes during the object count or after make has
ended is not looked at; when the setup and the apt hook sign systemd-boot at once, the
stamp of the one can come to stand beside the file of the other, and systemd-boot
stays a version behind until its next upgrade; and after a setup that stopped between
queueing the keys and signing systemd-boot, on a machine that has Ubuntu's shim entry,
the System tab shows enrolled keys and a boot path through shim while systemd-boot on
the ESP is unsigned.

Runs switch deadlock checking off where the system may really stop: an app
nobody uses, a bound on runs that is used up. `enroll` and `source` never stop and are
checked.

### Fairness

`build` and `source` have liveness properties. The fairness of `build` is weak
fairness of the worker thread, of the thread that discards a tree, of the sleeping
killer threads, of the GTK main loop delivering a posted result, of `cancel()`
reaching its second half, and of a running timer: threads are scheduled by the
operating system and nothing disables those steps once enabled for good. Nothing is
assumed of the commands (they may ignore SIGTERM and run for ever) or of the user. The
property holds because SIGKILL is sent by a thread of ours and cannot be ignored.

`source` assumes weak fairness of the download's thread and of its callback, and of
nothing else: not of the user, of others, or of Cancel. A connection attempt and a read
of the stream have limits (30 s and 60 s, src/kernelorg.rs:99-106), after which they
fail, and the model has the failure as an outcome of the same step; the waits between
attempts are bounded. The stream as a whole has no limit, on purpose, so a server may
keep a download going for ever, a little at a time: what is claimed is that Cancel ends
it (`CancelEndsDownload`). That a *check* ends is not claimed: it fetches the signature in
the same way and has no Cancel, and of its commands only the key fetch has a timeout
(src/verify.rs:151-156); gpg's other calls, gpgv, xz, tar and the copy have none.

## Proofs

Each `xProofs` module proves, for every value of the constants its module's
assumptions allow, that the listed properties hold in every state. The argument is
the same each time: the properties speak of an end (a report, a badge, a removal) and
are not inductive, so an invariant says what must have been established at each step
before that end; `Init` implies it, every action preserves each of its parts, and it
implies the properties.

| Theorem | States | For every |
|---|---|---|
| `TypeCorrect`, `MarkerIsTruthful`, `SuccessBoots`, `SuccessSaysAll`, `OthersKept`, `FailureSaysTrue`, `DefaultMoves`, `InstallKeepsImages` | all properties of `install`, that its markers are truthful, and that it implements `SignedImages` | set of kernels, choice of machines, number of runs |
| `ManageTypeCorrect`, `ManageKeepsImages`, `KernelsAreKept`, `RemovedIsGone`, `SignedReachesLoader` | all properties of `manage`, one of them that it implements `SignedImages` | set of kernels, machines, bounds |
| `SessionTypeCorrect`, `NothingUnattended`, `CancelledClean`, `DeclinedAlone`, `WindowGoesLast`, `OutWhole`, `OneFaultKept` | the safety properties of `build` | number of builds, commands and faults |
| `SourceTypeCorrect`, `WholeRenamed`, `VerifiedReleased`, `UnverifiedAllowed`, `TrustKept` | the safety properties of `source`, and the refinement | set of tarballs, number of attempts |
| `InstallPageTypeCorrect`, `OneBuildGiven`, `TabTruthful`, `CheckedInstalled` | all properties of `installpage` | releases, packages, builds, bounds |
| `SystemPageTypeCorrect`, `CancelledIsHarmless`, `NewestIsKept`, `ChecksAgree` | all properties of `systempage` | finite set of versions in any two orders, machines, bounds |
| `RequestTypeCorrect`, `WaitingIsTrue`, `WaitingIsKept` | all properties of `enroll` | certificates, hashes, passwords, sizes |
| `ChainTypeCorrect`, `MachineBoots`, `FallbackHolds` | all properties of `shim` | layout at the start, number of setups and upgrades |

The invariants:

- `Install`: `IInv` is `TypeOK`, `MarkerTruthful`, `FlowInv` and `OwnFiles`. `FlowInv`
  says what the script has established at each command: `PreflightDone` (past the
  preflight with Secure Boot on, the key set is complete and enrolled or waiting),
  `FilesDone` (past each check, its file is there), `SigningDone` (past the signing step
  with a key, the image is ours or the run has been diverted) and `LoaderDone` (past the
  loader's check, the entry is there and its copy verified). `OwnFiles`: a kernel's files
  are held by one package, so that no command on one package, be it the repair of
  another, touches the files of an installed kernel; `OtherKernelsKept` rests on it. The
  store's operators are lemmas of `KernelStoreProofs`. The other properties are of what
  the script *says*, and rest on `HInv` beside it: `Candid` (a failed signing and a
  waiting key have been warned about), `Untouched` (up to the listing before dpkg the
  disk is as it was), `OneKernel` (with Secure Boot on, past the trial signing, the
  packages hold the kernel they are named for), `RolledBack` (what "removed again"
  stands for) and `SavedKept` (GRUB's default is as it was until the last steps). Each
  needs `IInv`, which is why they are two.
- `SignedImages`: its `Truthful` is an invariant of it (`ToldIsTrue`), so of whatever
  implements it. What the operators of the store do to `image`, `ours` and `marker` are
  lemmas of `KernelStoreProofs` (`UnpackPuts`, `ConfigureSigns`, `ReplaceSigns`,
  `MarkerTells`, `PurgeRemoves`); `StepImages` of `InstallProofs` and of `ManageProofs`
  map each action to `Put`, `Sign`, `Tell`, `Remove` or a stutter, under the component's
  own invariant: that a marker is only written for a signed image is what `Tell` needs.
  TLC checks the refinement in `manage`, where apt interferes.
- `Manage`: `ManageInv` adds to `TypeOK` where a run is and on what (`CursorInv`),
  that signatures and markers are on images (`FilesInv`), that the newest as read once
  was there and is at least as new as the rest (`KeptInv`), that a purged kernel has no
  kernelstub entry (`MenuInv`) and that a signed image has reached the loader when the
  last step begins (`LoaderInv`). That a nonempty set of kernels has a newest is proved
  by well-foundedness (`NewestIsMax`).
- `Build`: `BuildInv` ties the actors together: `ControlIsBusy` (there is a control
  exactly while the window is busy with a build), `OnePlace` (a build is in the worker,
  in a posted result, in the dialog or in the discard, never in two of them),
  `OnlyLastAlive` (only the last command can be alive, and only from its start to the
  end of its output), `GoneInPeace`, `NoEarlyOutputs`, and `Counted`, which the type
  alone needs.
- `Publish`: `PublishInv` has what the temporary directory holds at each step
  (`TmpInv`), that what was set aside can be put back (`AsideInv`), and where the
  finished build is after at most one fault (`KeptInv`).
- `Source`: `SourceInv` has the one check at a time with nothing selected under it
  (`OneAtATime`), the signature at hand (`HasSignature`), a good verdict about the copy
  (`JudgedCopy`), and that an allowance, and an open question, are about the bytes in the
  private copy unless the source was chosen under the dialog (`WordInv`). `TrustKept` maps each step
  to one of `SourceTrust` or a stutter.
- `InstallPage`: `StageSound` (what was copied so far is listed and as built),
  `ChecksSound` (a good answer is of a set that was found to match) and
  `SelectionSound` (the selected set was checked or is being checked).
- `SystemPage`: `RunInv` (a script that has printed nothing has changed nothing, or is
  about to print) and `PruneInv` (what the dialog offers, and what a run still has to
  do and has done, spare a newest kernel of the list it was chosen from). The newest of
  a finite set in the app's order exists because that order is transitive and
  irreflexive (`EarlierTransitive`, `NewestExists`).

- `Enroll`: `RequestInv` says that a request has a password unless it is what a failed
  import left (`PasswordInv`), that the list names only keys of some request of its size
  (`ListInv`; the size alone is what makes `PendingIsWaiting` conditional), what the
  setup is going to queue (`DersInv`), whose password it is at each step
  (`OnePassword`), and that what waited at the start still waits or is carried along
  (`FoundInv`).
- `ShimChain`: `ChainPathInv` follows the two runs of `sign_boot_loader` that know
  nothing of each other. `SignedInv` has what each of them relies on and the other may
  not undo; `ChainInv` that the files are laid from shim outwards and none is taken
  away; `EntryInv` that entries go only once the fallback path is whole; `DistroInv`
  that nothing signs over the distribution's loader before the firmware knows our key;
  `KeyInv` that there is a key to sign with.

`BuildSession` and `SetupProofs` each have two modules that share no variable, which is why
`Publish` and `Enroll` name their position `stage` and `step`. In `BuildProofs` each of the
two invariants is preserved by every step of the session: a step of the one module is a
step or a stutter of the other.

Out of this prover's reach, and left to TLC: liveness under fairness (`CancelStopsBuild`,
`CancelEndsDownload`) and `ENABLED`, induction over data, and recursive operators. Every
invariant and every action property of the runs that pass is proved.

## Not modelled

- Parsers and formats (`/proc`, dpkg, efivarfs, OpenPGP, `.config`, `releases.json`),
  the content of kernels and configurations, wording, logging and layout. They are
  functions of external data, which unit tests reach.
- The Build page's configuration mode and the requirements scan: each is one more
  answer that moves a row and the Build button, which asks again when it is clicked.
- DKMS, which only warns. `--boot-once` and `--install-build-deps` are in `SystemPage`
  in outline only.
- Packaging and release scripts, the log tab and the progress display.
- File permissions and the trust of paths: each refusal they lead to is an outcome.
- Power loss is a stop between two steps: torn writes inside one file are not modelled.

Each page is composed with the components below it, but the pages are not composed with
each other: what they share is the busy state, and each model has the others' use of
it where it matters (a drop under a dialog, a build under the Install tab).

## Plan

Done: everything in the table of modules. Left:

1. The configuration mode of the Build page and the requirements scan.
2. The boot menu in `SignedImages` ("every listed kernel boots or was warned about"),
   which today speaks of the files in `/boot` only.
