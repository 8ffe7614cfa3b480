------------------------------- MODULE Build -------------------------------
(***************************************************************************)
(* One source build (src/build.rs) under the window (src/ui.rs).           *)
(*                                                                         *)
(* Three kinds of actor share a BuildControl: the worker thread that runs  *)
(* the commands of prepare() and build() one after another, the GTK thread *)
(* whose Cancel button and close request call cancel(), and the threads    *)
(* cancel() leaves behind to send SIGKILL.  Their steps interleave freely; *)
(* only what the GTK thread does in one callback is one step for the other *)
(* GTK callbacks, which `signalling` keeps out.                            *)
(*                                                                         *)
(* Every command is a process group of its own.  A group is named by the   *)
(* number of the command: process ids are not reused here.                 *)
(***************************************************************************)
EXTENDS Naturals

CONSTANTS
    PrepareCommands,  \* bound: commands one prepare() runs
    MaxBuilds         \* bound: builds started

ASSUME BuildAssumption ==
    /\ PrepareCommands \in Nat \ {0}
    /\ MaxBuilds \in Nat

VARIABLES
    \* the window
    busy,        \* AppState.busy
    control,     \* AppState.build_control is Some
    dialog,      \* the summary dialog waits for an answer
    closing,     \* the timer of a close request is running
    window,      \* "open" or "closed"
    signalling,  \* the GTK thread is inside cancel(), its flag stored
    builds,      \* builds started so far
    \* the BuildControl of the build
    cancelled,   \* BuildControl.cancelled
    pgid,        \* BuildControl.pgid, 0 for none
    killers,     \* process groups a SIGKILL thread waits to kill
    \* the worker thread
    pc,          \* its next step, "idle" when there is no worker
    phase,       \* the function it runs
    left,        \* commands left in that phase
    posted,      \* the result it posted to the GTK thread
    discarding,  \* Prepared::discard is removing the tree
    \* the machine
    spawned,     \* commands spawned so far
    alive,       \* process groups with a process left
    tree,        \* the build tree exists
    outputs,     \* packages lie next to the tree
    undeleted    \* history: the cancelled build could not delete some of its files

uiVars     == <<busy, control, dialog, closing, window>>
workerVars == <<pc, phase, left, posted>>
vars == <<uiVars, signalling, builds, cancelled, pgid, killers, workerVars,
          discarding, spawned, alive, tree, outputs, undeleted>>

BusyStates == {"none", "build", "privileged", "other"}
WorkerSteps == {"idle", "clear", "check", "spawn", "store", "recheck", "read",
                "reset", "final", "count", "publish", "failed", "undo"}
Outcomes == {"none", "prepared", "built", "cancelled", "failed", "discarded"}
MaxCommands == MaxBuilds * (PrepareCommands + 1)

TypeOK ==
    /\ busy \in BusyStates
    /\ control \in BOOLEAN /\ dialog \in BOOLEAN /\ closing \in BOOLEAN
    /\ window \in {"open", "closed"}
    /\ signalling \in BOOLEAN
    /\ builds \in 0..MaxBuilds
    /\ cancelled \in BOOLEAN
    /\ pgid \in 0..MaxCommands
    /\ killers \subseteq 1..MaxCommands
    /\ pc \in WorkerSteps
    /\ phase \in {"prepare", "build"}
    /\ left \in 0..PrepareCommands
    /\ posted \in Outcomes
    /\ discarding \in BOOLEAN
    /\ spawned \in 0..MaxCommands
    /\ alive \subseteq 1..MaxCommands
    /\ tree \in BOOLEAN /\ outputs \in BOOLEAN /\ undeleted \in BOOLEAN

Init ==
    /\ busy = "none" /\ control = FALSE /\ dialog = FALSE
    /\ closing = FALSE /\ window = "open"
    /\ signalling = FALSE /\ builds = 0
    /\ cancelled = FALSE /\ pgid = 0 /\ killers = {}
    /\ pc = "idle" /\ phase = "prepare" /\ left = 0 /\ posted = "none"
    /\ discarding = FALSE
    /\ spawned = 0 /\ alive = {}
    /\ tree \in BOOLEAN /\ outputs = FALSE    \* an earlier build may have failed
    /\ undeleted = FALSE

-----------------------------------------------------------------------------
(* The worker: run_with.                                                   *)

WorkerGoto(step) == pc' = step /\ UNCHANGED <<phase, left, posted>>
Post(outcome) == pc' = "idle" /\ posted' = outcome /\ UNCHANGED <<phase, left>>

\* The worker's steps leave the window and the other threads alone.
WorkerOnly ==
    UNCHANGED <<uiVars, signalling, builds, cancelled, killers, discarding, undeleted>>

\* remove_package_outputs: a package that cannot be deleted is passed over.
RemoveOutputs == outputs' \in {FALSE, outputs}

\* No command is started once the build is cancelled.
CheckCancelled ==
    /\ pc = "check"
    /\ WorkerGoto(IF cancelled THEN "undo" ELSE "spawn")
    /\ WorkerOnly /\ UNCHANGED <<pgid, spawned, alive, tree, outputs>>

\* The command runs before the control knows its process group.
Spawn ==
    /\ pc = "spawn"
    /\ \/ /\ spawned' = spawned + 1
          /\ alive' = alive \cup {spawned + 1}
          /\ WorkerGoto("store")
       \/ WorkerGoto("failed") /\ UNCHANGED <<spawned, alive>>   \* could not start
    /\ WorkerOnly /\ UNCHANGED <<pgid, tree, outputs>>

StoreGroup ==
    /\ pc = "store"
    /\ pgid' = spawned
    /\ WorkerGoto("recheck")
    /\ WorkerOnly /\ UNCHANGED <<spawned, alive, tree, outputs>>

\* Mutant: a cancel that came while the command was being started is not
\* looked for again.
RecheckDropped ==
    /\ pc = "recheck"
    /\ WorkerGoto("read")
    /\ WorkerOnly /\ UNCHANGED <<pgid, spawned, alive, tree, outputs>>

RecheckCancelled ==
    /\ pc = "recheck"
    /\ alive' = IF cancelled THEN alive \ {spawned} ELSE alive
    /\ WorkerGoto("read")
    /\ WorkerOnly /\ UNCHANGED <<pgid, spawned, tree, outputs>>

\* Mutant: the worker stops reading as soon as it sees the cancel.
ReadOutputUntilCancelled ==
    /\ pc = "read" /\ (spawned \notin alive \/ cancelled)
    /\ WorkerGoto("reset")
    /\ WorkerOnly /\ UNCHANGED <<pgid, spawned, alive, tree, outputs>>

\* The output ends when the last process of the group has.
ReadOutput ==
    /\ pc = "read" /\ spawned \notin alive
    /\ WorkerGoto("reset")
    /\ WorkerOnly /\ UNCHANGED <<pgid, spawned, alive, tree, outputs>>

ResetGroup ==
    /\ pc = "reset"
    /\ pgid' = 0
    /\ WorkerGoto("final")
    /\ WorkerOnly /\ UNCHANGED <<spawned, alive, tree, outputs>>

\* Mutant: the commands left are not counted.
AfterCommandUncounted ==
    \/ pc' = "check" /\ left' = left - 1 /\ UNCHANGED <<phase, posted>>
    \/ left = 0 /\ WorkerGoto(IF phase = "prepare" THEN "count" ELSE "publish")

\* What follows a command that succeeded: the next one, then the object count
\* (configure) or the publication (run_build).
AfterCommand ==
    \/ left > 0 /\ pc' = "check" /\ left' = left - 1 /\ UNCHANGED <<phase, posted>>
    \/ left = 0 /\ WorkerGoto(IF phase = "prepare" THEN "count" ELSE "publish")

\* A cancelled command is not a failed one.
FinalCheck ==
    /\ pc = "final"
    /\ \/ cancelled /\ WorkerGoto("undo")
       \/ ~cancelled /\ WorkerGoto("failed")
       \/ ~cancelled /\ AfterCommand
    /\ WorkerOnly /\ UNCHANGED <<pgid, spawned, alive, tree, outputs>>

(* The worker: prepare() and build() around their commands.                *)

\* The checks of prepare(), clear_build_root, then the tree and its log.
ClearRoot ==
    /\ pc = "clear"
    /\ \/ Post("failed") /\ UNCHANGED <<tree, outputs>>
       \/ tree' = FALSE /\ outputs' = FALSE /\ Post("failed")   \* no space
       \/ tree' = TRUE /\ outputs' = FALSE /\ WorkerGoto("check")
    /\ WorkerOnly /\ UNCHANGED <<pgid, spawned, alive>>

\* count_objects runs make -n outside run_with: it is not cancelled.
CountObjects ==
    /\ pc = "count"
    /\ Post("prepared")
    /\ WorkerOnly /\ UNCHANGED <<pgid, spawned, alive, tree, outputs>>

\* The rest of run_build, which looks at the control no more.
Publish ==
    /\ pc = "publish"
    /\ \/ tree' = FALSE /\ RemoveOutputs /\ Post("built")
       \/ UNCHANGED <<tree, outputs>> /\ WorkerGoto("failed")
    /\ WorkerOnly /\ UNCHANGED <<pgid, spawned, alive>>

\* A command, a check or the publication failed: the tree stays for its log,
\* and build() removes what dpkg-buildpackage wrote next to it.
Fail ==
    /\ pc = "failed"
    /\ IF phase = "build" THEN RemoveOutputs ELSE UNCHANGED outputs
    /\ Post("failed")
    /\ WorkerOnly /\ UNCHANGED <<pgid, spawned, alive, tree>>

UndoOnly ==
    UNCHANGED <<uiVars, signalling, builds, cancelled, pgid, killers, discarding, spawned,
                alive>>

\* Mutant: only a failed build removes the packages written so far.
UndoKeepingOutputs ==
    /\ pc = "undo"
    /\ \/ tree' = FALSE /\ undeleted' = FALSE
       \/ tree' \in {FALSE, tree} /\ undeleted' = TRUE
    /\ Post("cancelled")
    /\ UndoOnly /\ UNCHANGED outputs

\* A run_with that saw the cancel: the tree goes too.  What cannot be deleted stays,
\* and nobody is told.
Undo ==
    /\ pc = "undo"
    /\ \/ /\ tree' = FALSE /\ outputs' = (outputs /\ phase = "prepare")
          /\ undeleted' = FALSE
       \/ /\ tree' \in {FALSE, tree}
          /\ IF phase = "build" THEN RemoveOutputs ELSE UNCHANGED outputs
          /\ undeleted' = TRUE
    /\ Post("cancelled")
    /\ UndoOnly

\* Prepared::discard, on a thread of its own.
Discard ==
    /\ discarding
    /\ discarding' = FALSE
    /\ tree' \in {FALSE, tree}
    /\ posted' = "discarded"
    /\ UNCHANGED <<uiVars, signalling, builds, cancelled, pgid, killers, pc, phase,
                   left, spawned, alive, outputs, undeleted>>

-----------------------------------------------------------------------------
(* The commands, and the signals they get.                                 *)

MachineOnly == UNCHANGED <<uiVars, signalling, builds, cancelled, pgid, workerVars,
                           discarding, spawned, tree, undeleted>>

\* dpkg-buildpackage writes the packages next to the tree.
WriteOutputs ==
    /\ phase = "build" /\ alive # {}
    /\ outputs' = TRUE
    /\ MachineOnly /\ UNCHANGED <<killers, alive>>

\* Every process of a group ends, by itself or on an earlier SIGTERM.
CommandEnds(g) ==
    /\ g \in alive
    /\ alive' = alive \ {g}
    /\ MachineOnly /\ UNCHANGED <<killers, outputs>>

\* The thread cancel() left: five seconds later the group is killed, if the
\* control still names it.
KillerFires(g) ==
    /\ g \in killers
    /\ killers' = killers \ {g}
    /\ alive' = IF pgid = g THEN alive \ {g} ELSE alive
    /\ MachineOnly /\ UNCHANGED outputs

-----------------------------------------------------------------------------
(* The GTK thread.                                                         *)

\* One callback at a time, and none once the window has gone.
GtkIdle == ~signalling /\ window = "open"
MachineSame == UNCHANGED <<pgid, killers, spawned, alive, tree, outputs, undeleted>>

\* begin_busy for a privileged action, or a download or signature check.
BeginBusy(what) ==
    /\ GtkIdle /\ busy = "none"
    /\ busy' = what
    /\ UNCHANGED <<control, dialog, closing, window, signalling, builds, cancelled,
                   workerVars, discarding>>
    /\ MachineSame

\* ... and the drop of its guard.
EndBusy ==
    /\ GtkIdle /\ busy \in {"privileged", "other"}
    /\ busy' = "none"
    /\ UNCHANGED <<control, dialog, closing, window, signalling, builds, cancelled,
                   workerVars, discarding>>
    /\ MachineSame

\* The Build button: a new BuildControl, and prepare() on a worker thread.
StartBuild ==
    /\ GtkIdle /\ busy = "none" /\ builds < MaxBuilds
    /\ busy' = "build" /\ control' = TRUE
    /\ builds' = builds + 1
    /\ cancelled' = FALSE
    /\ pc' = "clear" /\ phase' = "prepare" /\ left' \in 0..PrepareCommands - 1
    /\ posted' = "none" /\ undeleted' = FALSE
    /\ UNCHANGED <<dialog, closing, window, signalling, discarding, pgid, killers,
                   spawned, alive, tree, outputs>>

\* end_busy, from the guard that `finish` drops.
FinishBuild == busy' = "none" /\ control' = FALSE

\* The callback of prepare(): the summary dialog, or the end of the build.
Prepared ==
    /\ GtkIdle /\ phase = "prepare" /\ posted \notin {"none", "discarded"}
    /\ IF posted = "prepared"
       THEN dialog' = TRUE /\ UNCHANGED <<busy, control>>
       ELSE FinishBuild /\ UNCHANGED dialog
    /\ posted' = "none"
    /\ UNCHANGED <<closing, window, signalling, builds, cancelled, pc, phase, left,
                   discarding>>
    /\ MachineSame

\* The answer "Build": build() on a worker thread.
ConfirmBuild ==
    /\ GtkIdle /\ dialog
    /\ dialog' = FALSE
    /\ phase' = "build" /\ left' = 0 /\ posted' = "none"
    /\ pc' = "check"
    /\ UNCHANGED <<busy, control, closing, window, signalling, builds, cancelled,
                   discarding>>
    /\ MachineSame

\* Mutant: the next build may start while the tree is still being removed.
DeclineReleasingFirst ==
    /\ GtkIdle /\ dialog
    /\ dialog' = FALSE
    /\ discarding' = TRUE
    /\ FinishBuild
    /\ UNCHANGED <<closing, window, signalling, builds, cancelled, workerVars>>
    /\ MachineSame

\* Any other answer: the tree is deleted, and the build is busy until it is.
DeclineBuild ==
    /\ GtkIdle /\ dialog
    /\ dialog' = FALSE
    /\ discarding' = TRUE
    /\ UNCHANGED <<busy, control, closing, window, signalling, builds, cancelled,
                   workerVars>>
    /\ MachineSame

\* The callback of build() or of discard(): the end of the build.
BuildEnded ==
    /\ GtkIdle /\ posted # "none" /\ (phase = "build" \/ posted = "discarded")
    /\ FinishBuild
    /\ posted' = "none"
    /\ UNCHANGED <<dialog, closing, window, signalling, builds, cancelled, pc, phase,
                   left, discarding>>
    /\ MachineSame

\* BuildControl::cancel stores its flag ...
RaiseFlag ==
    /\ cancelled' = TRUE
    /\ signalling' = TRUE

\* Mutant: the thread that follows up with SIGKILL is forgotten.
SignalGroupOnce ==
    /\ signalling
    /\ signalling' = FALSE
    /\ \/ alive' = alive \ {pgid}
       \/ UNCHANGED alive
    /\ UNCHANGED <<uiVars, builds, cancelled, pgid, killers, workerVars, discarding,
                   spawned, tree, outputs, undeleted>>

\* ... then reads the group it finds: SIGTERM, which a process may ignore,
\* and a thread that follows up with SIGKILL.
SignalGroup ==
    /\ signalling
    /\ signalling' = FALSE
    /\ IF pgid = 0
       THEN UNCHANGED <<alive, killers>>
       ELSE /\ alive' \in {alive, alive \ {pgid}}
            /\ killers' = killers \cup {pgid}
    /\ UNCHANGED <<uiVars, builds, cancelled, pgid, workerVars, discarding, spawned,
                   tree, outputs, undeleted>>

\* The Cancel button, under no dialog.
PressCancel ==
    /\ GtkIdle /\ control /\ ~dialog
    /\ RaiseFlag
    /\ UNCHANGED <<uiVars, builds, workerVars, discarding>>
    /\ MachineSame

\* Mutant: the window goes as soon as the build was told to stop.
CloseRequestAtOnce ==
    /\ GtkIdle /\ busy # "privileged"
    /\ IF control
       THEN cancelled' = TRUE /\ window' = "closed"
       ELSE UNCHANGED cancelled /\ window' = "closed"
    /\ UNCHANGED <<busy, control, dialog, closing, signalling, builds, workerVars,
                   discarding>>
    /\ MachineSame

\* The window manager asks to close the window: never under a privileged
\* action; under a build, cancel it and wait.
CloseRequest ==
    /\ GtkIdle /\ busy # "privileged"
    /\ IF control
       THEN /\ closing' = TRUE
            /\ IF cancelled THEN UNCHANGED <<cancelled, signalling>> ELSE RaiseFlag
            /\ UNCHANGED window
       ELSE window' = "closed" /\ UNCHANGED <<closing, cancelled, signalling>>
    /\ UNCHANGED <<busy, control, dialog, builds, workerVars, discarding>>
    /\ MachineSame

\* The 200 ms timer of that close request.
CloseTimer ==
    /\ GtkIdle /\ closing /\ ~control
    /\ window' = "closed" /\ closing' = FALSE
    /\ UNCHANGED <<busy, control, dialog, signalling, builds, cancelled, workerVars,
                   discarding>>
    /\ MachineSame

-----------------------------------------------------------------------------
WorkerStep ==
    \/ ClearRoot \/ CheckCancelled \/ Spawn \/ StoreGroup \/ RecheckCancelled
    \/ ReadOutput \/ ResetGroup \/ FinalCheck \/ CountObjects \/ Publish
    \/ Fail \/ Undo

Machine ==
    \/ WriteOutputs
    \/ \E g \in 1..MaxCommands : CommandEnds(g) \/ KillerFires(g)

Gtk ==
    \/ \E what \in {"privileged", "other"} : BeginBusy(what)
    \/ EndBusy \/ StartBuild \/ Prepared \/ ConfirmBuild \/ DeclineBuild
    \/ BuildEnded \/ SignalGroup \/ PressCancel \/ CloseRequest \/ CloseTimer

Next == WorkerStep \/ Discard \/ Machine \/ Gtk

Spec == Init /\ [][Next]_vars

\* Threads are scheduled, posted results are delivered, timers fire.  A
\* command need not end by itself, and no button need ever be pressed.
Fairness ==
    /\ WF_vars(WorkerStep) /\ WF_vars(Discard)
    /\ WF_vars(\E g \in 1..MaxCommands : KillerFires(g))
    /\ WF_vars(SignalGroup) /\ WF_vars(Prepared) /\ WF_vars(BuildEnded)
    /\ WF_vars(CloseTimer)

-----------------------------------------------------------------------------
(* Properties.                                                             *)

\* A cancel always ends the worker and every process it started, whichever of
\* its steps the cancel falls between and even if the commands ignore
\* SIGTERM.
CancelStopsBuild == cancelled /\ pc # "idle" ~> pc = "idle" /\ alive = {}

\* When the worker thread has ended, none of its commands is still running,
\* so nothing writes to the tree a later build clears.
NothingRunsUnattended == pc = "idle" => alive = {}

\* A build that reports it was cancelled has left neither its tree nor a
\* package, but for what it could not delete.
CancelledLeavesNothing == posted = "cancelled" => undeleted \/ (~tree /\ ~outputs)

\* The tree a declined build leaves is deleted under no other build.
DiscardIsAlone == discarding => pc = "idle" /\ busy = "build"

\* The window is gone only once the build has stopped and cleaned up.
ClosedAfterBuild ==
    window = "closed" => pc = "idle" /\ alive = {} /\ ~discarding /\ ~signalling

\* ui.rs: "The window is not closed under" a privileged action.
NotClosedUnderPrivileged == window = "closed" => busy # "privileged"
=============================================================================
