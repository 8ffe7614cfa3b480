----------------------------- MODULE SystemPage -----------------------------
(***************************************************************************)
(* The System tab of src/ui.rs: load_sysinfo, the buttons of a kernel's    *)
(* row, Remove Old Kernels and Set Up Signing, over a machine that apt and *)
(* others change as well.                                                  *)
(*                                                                         *)
(* A scan runs on a thread and takes several steps; nothing orders the     *)
(* answers of two scans.  What is removed is chosen from AppState.sysinfo, *)
(* the answer that came last, not from the machine.  Of the script, Manage *)
(* and Enroll have the details.                                            *)
(***************************************************************************)
EXTENDS SystemState, Privileged

CONSTANTS
    Version,    \* kernel versions: [release, rc, rest, sorted]
    Starts,     \* the computers the window is opened on: [machine, kernels, running]
    MaxScans,   \* bound: scans under way at a time
    MaxOthers,  \* bound: what apt and others do
    MaxRuns     \* bound: runs of the script

ASSUME SystemPageAssumption ==
    /\ IsFiniteSet(Version)
    /\ Version \subseteq [release : Seq(Nat), rc : Nat \cup {NoRc}, rest : Seq(Nat), sorted : Nat]
    /\ \A v, w \in Version : v.sorted = w.sorted => v = w
    /\ \A s \in Starts : s.machine \in Machine /\ s.kernels \subseteq Version /\ s.running \in s.kernels
    /\ MaxScans \in Nat \ {0} /\ MaxOthers \in Nat /\ MaxRuns \in Nat

VARIABLES
    kernels,   \* the vmlinuz-* of /boot
    running,   \* uname -r
    machine,   \* firmware and key: see SystemState
    others, runs,  \* counters of the bounds
    info,      \* AppState.sysinfo
    scans,     \* calls of query_system under way
    busy,      \* AppState.busy
    dialog,    \* the dialog that is open, and the kernels it is about
    todo,      \* the kernels the script was called for, and still has to do
    newest,    \* its idea of the newest
    reviewed,  \* history: the list a bulk removal was chosen from
    gone       \* history: what the bulk removal has removed

machineVars == <<kernels, running, machine>>
pageVars    == <<info, scans, busy, dialog>>
jobVars     == <<todo, newest, reviewed, gone>>
vars == <<machineVars, others, runs, pageVars, jobVars, runVars>>

\* "bulk removal" is called "kernel removal" too.
Actions == {"signing", "boot selection", "kernel removal", "bulk removal", "signing setup",
            "build tools install"}
Signing == {"NoKey", "KeyNotEnrolled", "EnrollmentPending", "Enrolled", "EfiVarsNotMounted", "Unknown"}
Info    == [kernels : SUBSET Version, signing : Signing]
NoInfo   == [kernels |-> {}, signing |-> "Unknown"]
NoDialog == [about |-> "none", kernels |-> {}]

TypeOK ==
    /\ RunTypeOK
    /\ kernels \subseteq Version /\ running \in kernels /\ machine \in Machine
    /\ machine.mounted => machine.efi
    /\ others \in 0..MaxOthers /\ runs \in 0..MaxRuns
    /\ info \in Info
    /\ scans \subseteq [step : {"signing", "kernels", "answer"}, info : Info]
    /\ busy \in Actions \cup {"none", "signature check"}
    /\ run # "off" => busy \in Actions
    /\ dialog \in [about : {"none", "remove", "keep", "confirm", "setup"}, kernels : SUBSET Version]
    /\ todo \subseteq Version /\ newest \subseteq Version
    /\ reviewed \subseteq Version /\ gone \subseteq Version

\* A key is enrolled or waiting only once it is there; a list is only valid
\* beside a request.
Possible(m) ==
    /\ m.mounted => m.efi
    /\ ~m.efi => ~m.on /\ ~m.enrolled /\ ~m.queued
    /\ ~m.validation => m.on
    /\ ~m.key => ~m.enrolled /\ ~m.queued /\ ~m.listed
    /\ ~(m.enrolled /\ m.queued)
    /\ m.listed => m.queued
    /\ m.key => m.sbsign

Scan(step) == [step |-> step, info |-> NoInfo]

Init ==
    /\ \E s \in Starts :
         Possible(s.machine) /\ machine = s.machine /\ kernels = s.kernels /\ running = s.running
    /\ others = 0 /\ runs = 0
    /\ info = NoInfo /\ scans = {Scan("signing")}
    /\ busy = "none" /\ dialog = NoDialog
    /\ todo = {} /\ newest = {} /\ reviewed = {} /\ gone = {}
    /\ RunInit

-----------------------------------------------------------------------------
(* load_sysinfo.                                                           *)

LoadSysinfo == scans' = scans \cup {Scan("signing")}

\* query_system reads the key's state first, then the kernels.  The rest of what
\* it reads starts nothing on this page.
ScanSigning ==
    \E s \in scans :
        /\ s.step = "signing"
        /\ scans' = (scans \ {s}) \cup
             {[step |-> "kernels", info |-> [NoInfo EXCEPT !.signing = DetectKernelSigning(machine)]]}
        /\ UNCHANGED <<machineVars, others, runs, info, busy, dialog, jobVars, runVars>>

ScanKernels ==
    \E s \in scans :
        /\ s.step = "kernels"
        /\ scans' = (scans \ {s}) \cup
             {[step |-> "answer", info |-> [s.info EXCEPT !.kernels = kernels]]}
        /\ UNCHANGED <<machineVars, others, runs, info, busy, dialog, jobVars, runVars>>

\* The answer that comes last is shown, whichever scan it is of.
SysinfoLoaded ==
    \E s \in scans :
        /\ s.step = "answer"
        /\ scans' = scans \ {s} /\ info' = s.info
        /\ UNCHANGED <<machineVars, others, runs, busy, dialog, jobVars, runVars>>

-----------------------------------------------------------------------------
(* The user's clicks.                                                      *)

Clickable == busy = "none" /\ dialog = NoDialog

\* Refresh is there even while something is busy.
ClickRefresh ==
    /\ dialog = NoDialog /\ Cardinality(scans) < MaxScans
    /\ LoadSysinfo
    /\ UNCHANGED <<machineVars, others, runs, info, busy, dialog, jobVars, runVars>>

\* begin_busy and the call of the script for the kernels K.
Begin(what, K) ==
    /\ busy = "none" /\ runs < MaxRuns
    /\ busy' = what /\ runs' = runs + 1 /\ todo' = K
    /\ newest' = {} /\ gone' = {} /\ UNCHANGED reviewed
    /\ RunScript

\* ... which says "Wait until ... has finished" while something is busy.
Refused == busy # "none" /\ UNCHANGED <<busy, runs, jobVars, runVars>>

\* The button is there for a kernel that is not signed, once there is a key.
ClickSign(v) ==
    /\ Clickable /\ v \in info.kernels /\ info.signing # "NoKey"
    /\ Begin("signing", {v})
    /\ UNCHANGED <<machineVars, others, info, scans, dialog>>

ClickBootNext(v) ==
    /\ Clickable /\ v \in info.kernels \ {running}
    /\ Begin("boot selection", {v})
    /\ UNCHANGED <<machineVars, others, info, scans, dialog>>

\* Install Missing, on the Build tab, when build tools are missing.
ClickTools ==
    /\ Clickable /\ Begin("build tools install", {})
    /\ UNCHANGED <<machineVars, others, info, scans, dialog>>

Open(about, K) ==
    /\ dialog' = [about |-> about, kernels |-> K]
    /\ reviewed' = IF about = "confirm" THEN info.kernels ELSE {}
    /\ UNCHANGED <<machineVars, others, runs, info, scans, busy, todo, newest, gone, runVars>>

ClickRemove(v) == Clickable /\ v \in info.kernels \ {running} /\ Open("remove", {v})

ClickPrune == Clickable /\ Open("keep", {})

\* "How many should be kept?"; the candidates are chosen now, from the list as
\* it is now, and shown.
AnswerKeep ==
    /\ dialog.about = "keep"
    /\ \/ Open("none", {})
       \/ \E keep \in 1..Cardinality(Version) :
            \E candidates \in PruneCandidates(info.kernels, keep, running) :
                IF candidates = {} THEN Open("none", {}) ELSE Open("confirm", candidates)

\* Set Up Signing shows while the key is not there or not enrolled, and for two
\* reasons that are not modelled (the DKMS key, a loader without shim).
ClickSetUp == Clickable /\ Open("setup", {})

\* The last dialog before a run is answered.
Answer(about, what) ==
    /\ dialog.about = about /\ dialog' = NoDialog
    /\ \/ UNCHANGED <<busy, runs, jobVars, runVars>>
       \/ Begin(what, dialog.kernels)
       \/ Refused
    /\ UNCHANGED <<machineVars, others, info, scans>>

AnswerDialog ==
    \/ Answer("remove", "kernel removal")
    \/ Answer("confirm", "bulk removal")
    \/ Answer("setup", "signing setup")

\* Mutant: the drop does not ask whether anything is busy.
DropTarballUnasked ==
    /\ busy' = "signature check"
    /\ UNCHANGED <<machineVars, others, runs, info, scans, dialog, jobVars, runVars>>

\* A tarball is dropped on the window, under a dialog too: see Source.
DropTarball ==
    /\ busy = "none" /\ busy' = "signature check"
    /\ UNCHANGED <<machineVars, others, runs, info, scans, dialog, jobVars, runVars>>

SourceChecked ==
    /\ busy = "signature check" /\ busy' = "none"
    /\ UNCHANGED <<machineVars, others, runs, info, scans, dialog, jobVars, runVars>>

-----------------------------------------------------------------------------
(* What the script does, in outline.                                       *)

PageSame == UNCHANGED <<others, runs, pageVars>>

\* do_remove and do_remove_many: kernels go, one by one or not.  The running
\* kernel is refused, and by --remove-many the newest too.
RemoveKernel(v) ==
    /\ busy \in {"kernel removal", "bulk removal"} /\ v \in todo /\ said
    /\ todo' = todo \ {v}
    /\ \/ /\ v \in kernels \ ({running} \cup newest)
          /\ Change(FALSE)
          /\ kernels' = kernels \ {v}
          /\ gone' = IF busy = "bulk removal" THEN gone \cup {v} ELSE gone
       \/ run = "script" /\ UNCHANGED <<kernels, gone, runVars>>  \* refused, or it failed
    /\ UNCHANGED <<running, machine, newest, reviewed>> /\ PageSame

\* do_sign and do_boot_once tell of what they have done only afterwards.
WorkSilently ==
    /\ busy \in {"signing", "boot selection"} /\ todo # {} /\ todo \subseteq kernels
    /\ Change(TRUE) /\ todo' = {}
    /\ UNCHANGED <<machineVars, newest, reviewed, gone>> /\ PageSame

\* do_setup_signing: the EFI variables, the tools, the key, and its request,
\* with the list that names it.
SetUp ==
    /\ busy = "signing setup"
    /\ Change(FALSE)
    /\ machine' \in {[machine EXCEPT !.mounted = @ \/ machine.efi],
                     [machine EXCEPT !.mokutil = TRUE, !.sbsign = TRUE],
                     [machine EXCEPT !.key = machine.sbsign],
                     IF machine.key /\ machine.mounted /\ machine.mokutil /\ ~machine.enrolled
                     THEN [machine EXCEPT !.queued = TRUE, !.listed = TRUE] ELSE machine}
    /\ UNCHANGED <<kernels, running, jobVars>> /\ PageSame

\* do_install_build_deps.
InstallTools ==
    /\ busy = "build tools install" /\ Change(FALSE)
    /\ UNCHANGED <<machineVars, jobVars>> /\ PageSame

\* The script starts; do_remove_many looks for the newest kernel at once, and only
\* then.
StartScript ==
    /\ Authenticate
    /\ newest' = IF run' = "script" /\ busy = "bulk removal" THEN NewestInList(kernels) ELSE {}
    /\ UNCHANGED <<machineVars, todo, reviewed, gone>> /\ PageSame

Talk ==
    /\ CheckHelper \/ Say \/ \E c \in Codes \ {"none"} : Exit(c)
    /\ UNCHANGED <<machineVars, jobVars>> /\ PageSame

\* The callback: the window is free, and scans the machine, except after Boot
\* Next Time and Install Missing.
RunReported ==
    /\ Report
    /\ busy' = "none" /\ todo' = {} /\ newest' = {} /\ reviewed' = {} /\ gone' = {}
    /\ IF busy \in {"boot selection", "build tools install"} THEN UNCHANGED scans
       ELSE Cardinality(scans) < MaxScans /\ LoadSysinfo
    /\ UNCHANGED <<machineVars, others, runs, info, dialog>>

\* apt installs or purges a kernel, others queue keys or unmount the EFI
\* variables.  A request of theirs has another size than the one listed, or
\* by chance the same.
SomebodyElse ==
    /\ others < MaxOthers /\ others' = others + 1
    /\ \/ \E v \in Version \ {running} :
            kernels' = (IF v \in kernels THEN kernels \ {v} ELSE kernels \cup {v})
            /\ UNCHANGED machine
       \/ /\ machine.efi /\ machine.key /\ ~machine.enrolled
          /\ \E q \in BOOLEAN, l \in BOOLEAN :
               machine' = [machine EXCEPT !.queued = q, !.listed = machine.listed /\ l]
          /\ UNCHANGED kernels
       \/ machine' = [machine EXCEPT !.mounted = FALSE] /\ UNCHANGED kernels
    /\ UNCHANGED <<running, runs, pageVars, jobVars, runVars>>

Next ==
    \/ ScanSigning \/ ScanKernels \/ SysinfoLoaded
    \/ ClickRefresh \/ ClickTools \/ ClickPrune \/ ClickSetUp \/ AnswerKeep \/ AnswerDialog
    \/ DropTarball \/ SourceChecked
    \/ \E v \in Version : ClickSign(v) \/ ClickBootNext(v) \/ ClickRemove(v) \/ RemoveKernel(v)
    \/ WorkSilently \/ SetUp \/ InstallTools \/ StartScript \/ Talk \/ RunReported \/ SomebodyElse

Spec == Init /\ [][Next]_vars

-----------------------------------------------------------------------------
\* "The running kernel and the newest installed kernel are never candidates
\* (and the script enforces the same rule on its side)": a bulk removal takes
\* neither the running kernel, nor the newest of the list it was chosen from in
\* the app's order, nor the newest that was installed in the script's.
PruneKeepsNewest ==
    gone # {} =>
        /\ running \notin gone /\ newest \cap gone = {}
        /\ \E v \in reviewed \ gone : \A w \in reviewed : ~Newer(w, v)

\* "The privileged script makes the same check itself": what a fresh scan would
\* block, the script would refuse, unless others have queued the key; what it
\* would not, the script refuses only for what a user cannot see, for a tool
\* that is missing, or because the list of waiting keys is of another request
\* (install_blocker, secure_boot_preflight).
PreflightsAgree ==
    LET blocked == InstallBlocked(DetectSecureBoot(machine), DetectKernelSigning(machine))
    IN /\ blocked => ~PreflightPasses(Mounted(machine)) \/ (machine.queued /\ ~machine.listed)
       /\ ~blocked => \/ PreflightPasses(Mounted(machine))
                      \/ machine.efi /\ ~machine.mounted
                      \/ ~machine.mokutil \/ ~machine.sbsign
                      \/ machine.listed /\ ~machine.queued
=============================================================================
