---------------------------- MODULE BuildProofs ----------------------------
(* Theorems about BuildSession, for any number of builds, commands, sets   *)
(* and faults: Build's invariant and Publish's share no variable.          *)
EXTENDS BuildSession, TLAPS

-----------------------------------------------------------------------------
(* The inductive invariant.                                                *)

\* The control is there exactly while the window is busy with a build.
ControlIsBusy == control <=> busy = "build"

\* A build is in one place at a time: the worker, its posted result, the
\* dialog or the discard; and the window is busy with it wherever it is.
OnePlace ==
    /\ pc # "idle" => posted = "none" /\ ~dialog /\ ~discarding /\ busy = "build"
    /\ posted # "none" => ~dialog /\ ~discarding /\ busy = "build"
    /\ dialog => ~discarding /\ busy = "build" /\ phase = "prepare"
    /\ discarding => busy = "build"

\* Only the last command can be alive, and only between its start and the end
\* of its output.
OnlyLastAlive ==
    alive \subseteq (IF pc \in {"store", "recheck", "read"} THEN {spawned} ELSE {})

\* The window goes between two builds and two callbacks.
GoneInPeace == window = "closed" => ~control /\ ~signalling

\* Packages are written by the commands of build() only.
NoEarlyOutputs ==
    /\ phase = "prepare" /\ pc \notin {"idle", "clear"} => ~outputs
    /\ phase = "build" => left = 0

\* The commands the running build may still start.
StillToSpawn ==
    IF pc = "idle" /\ ~dialog /\ posted # "prepared" THEN 0
    ELSE (IF phase = "prepare" THEN left + 1 ELSE 0)
         + (IF pc \in {"clear", "check", "spawn"} THEN 1 ELSE 0)

\* No build starts more than its share of MaxCommands.
Counted == spawned + StillToSpawn <= builds * (PrepareCommands + 1)

BuildInv ==
    /\ TypeOK /\ ControlIsBusy /\ OnePlace /\ OnlyLastAlive /\ GoneInPeace
    /\ NoEarlyOutputs /\ Counted /\ CancelledLeavesNothing

-----------------------------------------------------------------------------
(* The budget of commands.                                                 *)

\* MaxCommands is a number, and an upper bound for what was counted.
LEMMA Budget ==
    ASSUME NEW b \in 0..MaxBuilds
    PROVE  /\ b * (PrepareCommands + 1) \in Nat
           /\ b * (PrepareCommands + 1) <= MaxCommands
           /\ b + 1 <= MaxBuilds =>
                (b + 1) * (PrepareCommands + 1)
                  = b * (PrepareCommands + 1) + PrepareCommands + 1
           /\ MaxCommands \in Nat
BY BuildAssumption, SMT DEF MaxCommands

\* What prepare() and build() may start together is one build's share.
LEMMA Share ==
    ASSUME NEW l \in 0..(PrepareCommands - 1)
    PROVE  /\ l \in 0..PrepareCommands
           /\ l + 1 + 1 \in Nat
           /\ l + 1 + 1 <= PrepareCommands + 1
BY BuildAssumption

-----------------------------------------------------------------------------
(* The invariant holds at first and is kept by every step.                 *)

LEMMA InitInv == Init => BuildInv
<1> SUFFICES ASSUME Init PROVE BuildInv
  OBVIOUS
<1>1. MaxCommands \in Nat /\ 0 * (PrepareCommands + 1) = 0
  <2>1. 0 \in 0..MaxBuilds
    BY BuildAssumption
  <2>2. QED
    BY <2>1, BuildAssumption, Budget
<1>2. TypeOK
  <2>1. /\ builds \in 0..MaxBuilds /\ pgid \in 0..MaxCommands
        /\ spawned \in 0..MaxCommands /\ left \in 0..PrepareCommands
    BY <1>1, BuildAssumption DEF Init
  <2>2. killers \subseteq 1..MaxCommands /\ alive \subseteq 1..MaxCommands
    BY DEF Init
  <2>3. busy \in BusyStates /\ pc \in WorkerSteps /\ posted \in Outcomes
    BY DEF Init, BusyStates, WorkerSteps, Outcomes
  <2>4. QED
    BY <2>1, <2>2, <2>3 DEF Init, TypeOK
<1>3. Counted
  BY <1>1 DEF Init, Counted, StillToSpawn
<1>4. ControlIsBusy /\ OnePlace /\ OnlyLastAlive /\ GoneInPeace
  BY DEF Init, ControlIsBusy, OnePlace, OnlyLastAlive, GoneInPeace
<1>5. NoEarlyOutputs /\ CancelledLeavesNothing
  BY DEF Init, NoEarlyOutputs, CancelledLeavesNothing
<1>6. QED
  BY <1>2, <1>3, <1>4, <1>5 DEF BuildInv

LEMMA WorkerInv == BuildInv /\ WorkerStep => BuildInv'
<1> SUFFICES ASSUME BuildInv, WorkerStep PROVE BuildInv'
  OBVIOUS
<1> USE BuildAssumption DEF BuildInv, TypeOK, ControlIsBusy, OnePlace,
        OnlyLastAlive, GoneInPeace, NoEarlyOutputs, StillToSpawn, Counted,
        CancelledLeavesNothing, BusyStates, WorkerSteps, Outcomes,
        WorkerGoto, Post, WorkerOnly, RemoveOutputs, UndoOnly, uiVars, workerVars
<1>0. /\ builds * (PrepareCommands + 1) \in Nat
      /\ builds * (PrepareCommands + 1) <= MaxCommands
      /\ MaxCommands \in Nat
  BY Budget
<1>1. CASE ClearRoot
  <2>1. TypeOK'
    BY <1>0, <1>1 DEF ClearRoot
  <2>2. ControlIsBusy' /\ OnePlace' /\ OnlyLastAlive' /\ GoneInPeace'
    BY <1>1 DEF ClearRoot
  <2>3. Counted'
    BY <1>0, <1>1 DEF ClearRoot
  <2>4. NoEarlyOutputs' /\ CancelledLeavesNothing'
    BY <1>1 DEF ClearRoot
  <2>5. QED
    BY <2>1, <2>2, <2>3, <2>4
<1>2. CASE CheckCancelled
  BY <1>0, <1>2 DEF CheckCancelled
<1>3. CASE Spawn
  <2>1. TypeOK'
    <3>1. spawned + 1 \in 1..MaxCommands
      BY <1>0, <1>3 DEF Spawn
    <3>2. spawned' \in 0..MaxCommands
      BY <3>1, <1>3 DEF Spawn
    <3>3. alive' \subseteq alive \cup {spawned + 1}
      BY <1>3 DEF Spawn
    <3>4. alive' \subseteq 1..MaxCommands
      BY <3>1, <3>3
    <3>5. QED
      BY <3>2, <3>4, <1>3 DEF Spawn
  <2>2. ControlIsBusy' /\ OnePlace' /\ OnlyLastAlive' /\ GoneInPeace'
    BY <1>3 DEF Spawn
  <2>3. Counted'
    BY <1>0, <1>3 DEF Spawn
  <2>4. NoEarlyOutputs' /\ CancelledLeavesNothing'
    BY <1>3 DEF Spawn
  <2>5. QED
    BY <2>1, <2>2, <2>3, <2>4
<1>4. CASE StoreGroup
  BY <1>0, <1>4 DEF StoreGroup
<1>5. CASE RecheckCancelled
  BY <1>0, <1>5 DEF RecheckCancelled
<1>6. CASE ReadOutput
  BY <1>0, <1>6 DEF ReadOutput
<1>7. CASE ResetGroup
  BY <1>0, <1>7 DEF ResetGroup
<1>8. CASE FinalCheck
  BY <1>0, <1>8 DEF FinalCheck, AfterCommand
<1>9. CASE CountObjects
  BY <1>0, <1>9 DEF CountObjects
<1>10. CASE Publish
  <2>1. TypeOK'
    BY <1>0, <1>10 DEF Publish
  <2>2. ControlIsBusy' /\ OnePlace' /\ OnlyLastAlive' /\ GoneInPeace'
    BY <1>10 DEF Publish
  <2>3. Counted'
    <3>1. pc = "publish" /\ UNCHANGED <<phase, left, dialog, spawned, builds>>
      BY <1>10 DEF Publish
    <3>2. CASE pc' = "idle" /\ posted' = "built"
      BY <1>0, <3>1, <3>2
    <3>3. CASE pc' = "failed" /\ UNCHANGED posted
      BY <1>0, <3>1, <3>3
    <3>4. QED
      BY <1>10, <3>2, <3>3 DEF Publish
  <2>4. NoEarlyOutputs' /\ CancelledLeavesNothing'
    <3>1. pc' = "idle" \/ UNCHANGED outputs
      BY <1>10 DEF Publish
    <3>2. UNCHANGED <<phase, left>> /\ pc = "publish" /\ posted' \in {"built", "none"}
      BY <1>10 DEF Publish
    <3>3. QED
      BY <3>1, <3>2
  <2>5. QED
    BY <2>1, <2>2, <2>3, <2>4
<1>11. CASE Fail
  <2>1. outputs' \in BOOLEAN
    BY <1>11 DEF Fail
  <2>2. pc = "failed" /\ pc' = "idle" /\ posted' = "failed"
        /\ UNCHANGED <<phase, left, pgid, spawned, alive, tree>>
    BY <1>11 DEF Fail
  <2>3. UNCHANGED <<busy, control, dialog, closing, window, signalling, builds, cancelled,
                    killers, discarding, undeleted>>
    BY <1>11 DEF Fail
  <2>4. QED
    BY <1>0, <2>1, <2>2, <2>3
<1>12. CASE Undo
  <2>1. TypeOK'
    BY <1>0, <1>12 DEF Undo
  <2>2. ControlIsBusy' /\ OnePlace' /\ OnlyLastAlive' /\ GoneInPeace'
    BY <1>12 DEF Undo
  <2>3. Counted'
    BY <1>0, <1>12 DEF Undo
  <2>4. NoEarlyOutputs' /\ CancelledLeavesNothing'
    BY <1>12 DEF Undo
  <2>5. QED
    BY <2>1, <2>2, <2>3, <2>4
<1>13. QED
  BY <1>1, <1>2, <1>3, <1>4, <1>5, <1>6, <1>7, <1>8, <1>9, <1>10, <1>11, <1>12 DEF WorkerStep

LEMMA DiscardInv == BuildInv /\ Discard => BuildInv'
<1> SUFFICES ASSUME BuildInv, Discard PROVE BuildInv'
  OBVIOUS
<1> USE BuildAssumption DEF BuildInv, TypeOK, ControlIsBusy, OnePlace,
        OnlyLastAlive, GoneInPeace, NoEarlyOutputs, StillToSpawn, Counted,
        CancelledLeavesNothing, BusyStates, WorkerSteps, Outcomes,
        uiVars
<1>0. /\ builds * (PrepareCommands + 1) \in Nat
      /\ builds * (PrepareCommands + 1) <= MaxCommands
      /\ MaxCommands \in Nat
  BY Budget
<1>1. QED
  BY <1>0 DEF Discard

LEMMA MachineInv == BuildInv /\ Machine => BuildInv'
<1> SUFFICES ASSUME BuildInv, Machine PROVE BuildInv'
  OBVIOUS
<1> USE BuildAssumption DEF BuildInv, TypeOK, ControlIsBusy, OnePlace,
        OnlyLastAlive, GoneInPeace, NoEarlyOutputs, StillToSpawn, Counted,
        CancelledLeavesNothing, BusyStates, WorkerSteps, Outcomes,
        MachineOnly, uiVars, workerVars
<1>0. /\ builds * (PrepareCommands + 1) \in Nat
      /\ builds * (PrepareCommands + 1) <= MaxCommands
      /\ MaxCommands \in Nat
  BY Budget
<1>1. CASE WriteOutputs
  BY <1>0, <1>1, ZenonT(60) DEF WriteOutputs
<1>2. ASSUME NEW g \in 1..MaxCommands, CommandEnds(g)
      PROVE  BuildInv'
  BY <1>0, <1>2 DEF CommandEnds
<1>3. ASSUME NEW g \in 1..MaxCommands, KillerFires(g)
      PROVE  BuildInv'
  BY <1>0, <1>3 DEF KillerFires
<1>4. QED
  BY <1>1, <1>2, <1>3 DEF Machine

LEMMA GtkInv == BuildInv /\ Gtk => BuildInv'
<1> SUFFICES ASSUME BuildInv, Gtk PROVE BuildInv'
  OBVIOUS
<1> USE BuildAssumption DEF BuildInv, TypeOK, ControlIsBusy, OnePlace,
        OnlyLastAlive, GoneInPeace, NoEarlyOutputs, StillToSpawn, Counted,
        CancelledLeavesNothing, BusyStates, WorkerSteps, Outcomes,
        GtkIdle, FinishBuild, RaiseFlag,
        MachineSame, uiVars, workerVars
<1>0. /\ builds * (PrepareCommands + 1) \in Nat
      /\ builds * (PrepareCommands + 1) <= MaxCommands
      /\ MaxCommands \in Nat
  BY Budget
<1>1. ASSUME NEW what \in {"privileged", "other"}, BeginBusy(what)
      PROVE  BuildInv'
  BY <1>0, <1>1 DEF BeginBusy
<1>2. CASE EndBusy
  BY <1>0, <1>2 DEF EndBusy
<1>3. CASE StartBuild
  <2>1. builds + 1 \in 0..MaxBuilds
    BY <1>3 DEF StartBuild
  <2>2. /\ (builds + 1) * (PrepareCommands + 1)
             = builds * (PrepareCommands + 1) + PrepareCommands + 1
        /\ builds' * (PrepareCommands + 1)
             = builds * (PrepareCommands + 1) + PrepareCommands + 1
    BY <2>1, <1>3, Budget DEF StartBuild
  <2>3. TypeOK'
    <3>1. left' \in 0..PrepareCommands
      <4>1. left' \in 0..PrepareCommands - 1
        BY ONLY <1>3 DEF StartBuild
      <4>2. QED
        BY ONLY <4>1, Share
    <3>2. builds' \in 0..MaxBuilds
      BY <2>1, <1>3 DEF StartBuild
    <3>3. QED
      BY <3>1, <3>2, <1>3 DEF StartBuild
  <2>4. ControlIsBusy' /\ OnePlace' /\ OnlyLastAlive' /\ GoneInPeace'
    BY <1>3 DEF StartBuild
  <2>5. Counted'
    <3>1. spawned <= builds * (PrepareCommands + 1)
      BY <1>0
    <3>2. left' + 1 + 1 \in Nat /\ left' + 1 + 1 <= PrepareCommands + 1
      <4>1. left' \in 0..PrepareCommands - 1
        BY ONLY <1>3 DEF StartBuild
      <4>2. QED
        BY ONLY <4>1, Share
    <3>3. StillToSpawn' = left' + 1 + 1
      BY ONLY <1>3 DEF StartBuild, StillToSpawn
    <3>4. spawned' = spawned
      BY <1>3 DEF StartBuild
    <3>5. QED
      BY ONLY <1>0, <2>2, <3>1, <3>2, <3>3, <3>4, TypeOK, BuildAssumption
         DEF Counted, TypeOK
  <2>6. NoEarlyOutputs' /\ CancelledLeavesNothing'
    BY <1>3 DEF StartBuild
  <2>7. QED
    BY <2>3, <2>4, <2>5, <2>6
<1>4. CASE Prepared
  BY <1>0, <1>4 DEF Prepared
<1>5. CASE ConfirmBuild
  <2>1. TypeOK'
    <3>1. left' \in 0..PrepareCommands
      BY ONLY <1>5, BuildAssumption DEF ConfirmBuild
    <3>2. QED
      BY <3>1, <1>5 DEF ConfirmBuild
  <2>2. ControlIsBusy' /\ OnePlace' /\ OnlyLastAlive' /\ GoneInPeace'
    BY <1>5 DEF ConfirmBuild
  <2>3. Counted'
    BY <1>0, <1>5 DEF ConfirmBuild
  <2>4. NoEarlyOutputs' /\ CancelledLeavesNothing'
    BY <1>5 DEF ConfirmBuild
  <2>5. QED
    BY <2>1, <2>2, <2>3, <2>4
<1>6. CASE DeclineBuild
  <2>1. TypeOK'
    BY <1>0, <1>6 DEF DeclineBuild
  <2>2. ControlIsBusy' /\ OnePlace' /\ OnlyLastAlive' /\ GoneInPeace'
    BY <1>6 DEF DeclineBuild
  <2>3. Counted'
    BY <1>0, <1>6 DEF DeclineBuild
  <2>4. NoEarlyOutputs' /\ CancelledLeavesNothing'
    BY <1>6 DEF DeclineBuild
  <2>5. QED
    BY <2>1, <2>2, <2>3, <2>4
<1>7. CASE BuildEnded
  <2>1. TypeOK'
    BY <1>0, <1>7 DEF BuildEnded
  <2>2. ControlIsBusy' /\ OnePlace' /\ OnlyLastAlive' /\ GoneInPeace'
    BY <1>7 DEF BuildEnded
  <2>3. Counted'
    BY <1>0, <1>7 DEF BuildEnded
  <2>4. NoEarlyOutputs' /\ CancelledLeavesNothing'
    BY <1>7 DEF BuildEnded
  <2>5. QED
    BY <2>1, <2>2, <2>3, <2>4
<1>8. CASE SignalGroup
  <2>1. TypeOK'
    <3>1. killers' \subseteq 1..MaxCommands
      <4>1. pgid # 0 => pgid \in 1..MaxCommands
        BY <1>0
      <4>2. QED
        BY <4>1, <1>8 DEF SignalGroup
    <3>2. alive' \subseteq alive
      BY <1>8 DEF SignalGroup
    <3>3. QED
      BY <3>1, <3>2, <1>8, ZenonT(60) DEF SignalGroup
  <2>2. ControlIsBusy' /\ OnePlace' /\ OnlyLastAlive' /\ GoneInPeace'
    BY <1>8 DEF SignalGroup
  <2>3. Counted'
    BY <1>0, <1>8 DEF SignalGroup
  <2>4. NoEarlyOutputs' /\ CancelledLeavesNothing'
    BY <1>8 DEF SignalGroup
  <2>5. QED
    BY <2>1, <2>2, <2>3, <2>4
<1>9. CASE PressCancel
  BY <1>0, <1>9 DEF PressCancel
<1>10. CASE CloseRequest
  BY <1>0, <1>10, ZenonT(60) DEF CloseRequest
<1>11. CASE CloseTimer
  BY <1>0, <1>11 DEF CloseTimer
<1>12. QED
  BY <1>1, <1>2, <1>3, <1>4, <1>5, <1>6, <1>7, <1>8, <1>9, <1>10, <1>11 DEF Gtk

LEMMA StepInv == BuildInv /\ [Next]_vars => BuildInv'
<1>1. BuildInv /\ UNCHANGED vars => BuildInv'
  BY DEF vars, uiVars, workerVars, BuildInv, TypeOK, ControlIsBusy, OnePlace,
         OnlyLastAlive, GoneInPeace, NoEarlyOutputs, StillToSpawn, Counted,
         CancelledLeavesNothing
<1>2. QED
  BY <1>1, WorkerInv, DiscardInv, MachineInv, GtkInv DEF Next

\* What a restart finds: no worker, and none of its commands.
LEMMA RestartInv == BuildInv /\ Restart => BuildInv'
<1> SUFFICES ASSUME BuildInv, Restart PROVE BuildInv'
  OBVIOUS
<1> USE BuildAssumption DEF Restart, BuildInv
<1>0. /\ builds * (PrepareCommands + 1) \in Nat
      /\ builds * (PrepareCommands + 1) <= MaxCommands
      /\ MaxCommands \in Nat
  BY Budget DEF TypeOK
<1>1. TypeOK'
  <2>1. /\ busy' \in BusyStates /\ pc' \in WorkerSteps /\ posted' \in Outcomes
        /\ phase' \in {"prepare", "build"} /\ left' \in 0..PrepareCommands
        /\ pgid' \in 0..MaxCommands /\ killers' \subseteq 1..MaxCommands
    BY <1>0 DEF BusyStates, WorkerSteps, Outcomes
  <2>2. QED
    BY <2>1 DEF TypeOK
<1>2. ControlIsBusy' /\ OnePlace' /\ OnlyLastAlive' /\ GoneInPeace'
  BY DEF ControlIsBusy, OnePlace, OnlyLastAlive, GoneInPeace
<1>3. Counted'
  <2>1. spawned <= builds * (PrepareCommands + 1)
    BY <1>0 DEF Counted, StillToSpawn, TypeOK
  <2>2. StillToSpawn' = 0 /\ spawned' = spawned /\ builds' = builds
    BY DEF StillToSpawn
  <2>3. QED
    BY <1>0, <2>1, <2>2 DEF Counted, TypeOK
<1>4. NoEarlyOutputs' /\ CancelledLeavesNothing'
  BY DEF NoEarlyOutputs, CancelledLeavesNothing
<1>5. QED
  BY <1>1, <1>2, <1>3, <1>4

\* A step of the session is a step of Build, or starts the app again.
LEMMA SessionBuilds == [SessionNext]_sessionVars => [Next]_vars \/ Restart
BY DEF SessionNext, sessionVars, BuildStep, NothingToPublish, PublishOn, Next, WorkerStep

LEMMA Invariance == Session => []BuildInv
<1>1. BuildInv /\ [SessionNext]_sessionVars => BuildInv'
  BY StepInv, RestartInv, SessionBuilds
<1>2. QED
  BY <1>1, InitInv, PTL DEF Session, SessionInit

-----------------------------------------------------------------------------
(* The theorems.                                                           *)

\* run_with returns only when its process group has ended: whichever steps of
\* the worker, of cancel() and of its SIGKILL thread interleave, no command
\* outlives the worker that started it.
THEOREM NothingUnattended == Session => []NothingRunsUnattended
<1>1. BuildInv => NothingRunsUnattended
  BY DEF BuildInv, OnlyLastAlive, NothingRunsUnattended
<1>2. QED
  BY <1>1, Invariance, PTL

\* A build that reports it was cancelled has removed its tree and the packages
\* written next to it, if it could, and nothing writes them again before it is heard.
THEOREM CancelledClean == Session => []CancelledLeavesNothing
<1>1. BuildInv => CancelledLeavesNothing
  BY DEF BuildInv
<1>2. QED
  BY <1>1, Invariance, PTL

\* Prepared::discard removes the tree while no worker runs and while the
\* window is still busy, so that no other build can be started.
THEOREM DeclinedAlone == Session => []DiscardIsAlone
<1>1. BuildInv => DiscardIsAlone
  BY DEF BuildInv, OnePlace, DiscardIsAlone
<1>2. QED
  BY <1>1, Invariance, PTL

\* The close request and its timer let the window go only when the worker,
\* its commands, the discard and the signalling are over.
THEOREM WindowGoesLast == Session => []ClosedAfterBuild
<1>1. BuildInv => ClosedAfterBuild
  BY DEF BuildInv, TypeOK, ControlIsBusy, OnePlace, OnlyLastAlive, GoneInPeace,
         ClosedAfterBuild
<1>2. QED
  BY <1>1, Invariance, PTL

-----------------------------------------------------------------------------
(* Publication: the steps of the worker's Publish.  Its invariant.         *)

USE PublishAssumption

\* The parts of a set that are written by the time of a step.
Written(step) ==
    CASE step = "info" -> {"packages"}
      [] step = "manifest" -> {"packages", "info"}
      [] step = "log" -> {"packages", "info", "manifest"}
      [] step \in {"drop-stale", "aside", "swap"} -> Parts
      [] OTHER -> {}

Filling == {"packages", "info", "manifest", "log", "drop-stale", "aside", "swap"}

\* The temp dir is this build's, and has what was written so far.
TmpInv == stage \in Filling => tmp.build = build /\ Written(stage) \subseteq tmp.has

\* What was moved aside can be put back.
AsideInv == stage \in {"swap", "back"} /\ hadOld => old \in Sets /\ old.has = Parts

\* A build has a number and no result yet; putting back follows a fault.
RunningInv ==
    /\ stage # "idle" => build # 0 /\ result = "none"
    /\ stage = "back" => faults # 0

\* Where the last finished build is, after at most one fault.
KeptInv ==
    newest # 0 /\ faults <= 1 =>
        \/ out.has = Parts
        \/ stage \in {"swap", "back"} /\ hadOld /\ old.has = Parts
        \/ /\ faults = 1 /\ old.has = Parts /\ result # "not-published"
           /\ stage \in {"idle", "clear", "packages", "info", "manifest", "log", "drop-stale"}
        \/ faults = 1 /\ stage \in {"aside", "swap"} /\ tmp.has = Parts

PublishInv ==
    /\ PublishTypeOK /\ TmpInv /\ AsideInv /\ RunningInv
    /\ out # Nothing => out.has = Parts
    /\ KeptInv

-----------------------------------------------------------------------------
(* Sets.                                                                   *)

\* A set is whole when it has every part.
LEMMA WholeHas ==
    ASSUME NEW d \in Sets
    PROVE  /\ Whole(d) <=> d.has = Parts
           /\ d.has \subseteq Parts /\ d.build \in 0..MaxSets
           /\ d.build # 0 => d \in [build : 1..MaxSets, has : SUBSET Parts]
<1>1. CASE d = Nothing
  <2>1. d.has = {} /\ d.build = 0
    BY <1>1 DEF Nothing
  <2>2. Parts # {}
    BY DEF Parts
  <2>3. QED
    BY <1>1, <2>1, <2>2 DEF Whole
<1>2. CASE d # Nothing
  <2>1. d \in [build : 1..MaxSets, has : SUBSET Parts]
    BY <1>2 DEF Sets
  <2>2. QED
    BY <1>2, <2>1 DEF Whole
<1>3. QED
  BY <1>1, <1>2

\* Nothing is a set, and an empty one of a build is too.
LEMMA NothingIsSet == Nothing \in Sets /\ Nothing.has = {} /\ Nothing.build = 0
BY DEF Sets, Nothing

\* A part more keeps the set's build.
LEMMA FillSet ==
    ASSUME NEW d \in Sets, d.build # 0, NEW part \in Parts
    PROVE  /\ [d EXCEPT !.has = @ \cup {part}] \in Sets
           /\ [d EXCEPT !.has = @ \cup {part}].build = d.build
           /\ [d EXCEPT !.has = @ \cup {part}].has = d.has \cup {part}
<1>1. d \in [build : 1..MaxSets, has : SUBSET Parts]
  BY WholeHas
<1>2. QED
  BY <1>1 DEF Sets

\* What is left of a set that was deleted in part is a set.
LEMMA LoseSet ==
    ASSUME NEW d \in Sets, d # Nothing, NEW rest \in SUBSET d.has
    PROVE  [d EXCEPT !.has = rest] \in Sets
<1>1. d \in [build : 1..MaxSets, has : SUBSET Parts]
  BY DEF Sets
<1>2. QED
  BY <1>1 DEF Sets

-----------------------------------------------------------------------------
(* The steps of a publication.                                             *)

\* A step that fails changes no set.
LEMMA FailsInv ==
    ASSUME PublishInv, Fails,
           stage \in {"clear", "packages", "info", "manifest", "log", "aside"},
           stage = "aside" => out # Nothing
    PROVE  PublishInv'
<1>1. /\ faults' = faults + 1 /\ faults' \in 0..MaxFaults /\ stage' = "undo"
      /\ UNCHANGED <<build, result, out, tmp, old, hadOld, newest>>
  BY DEF Fails, Fault, Goto, dirs, PublishInv, PublishTypeOK
<1>2. PublishTypeOK' /\ TmpInv' /\ AsideInv' /\ RunningInv'
  BY <1>1 DEF PublishInv, PublishTypeOK, TmpInv, AsideInv, RunningInv, Filling, Steps
<1>3. KeptInv'
  BY <1>1 DEF PublishInv, KeptInv, PublishTypeOK
<1>4. QED
  BY <1>1, <1>2, <1>3 DEF PublishInv

\* Filling the temp dir, one part after the other.
LEMMA FillInv ==
    ASSUME PublishInv,
           NEW part \in Parts, NEW next \in Filling, Fill(part, next),
           Written(next) = Written(part) \cup {part},
           part = "log" <=> next = "drop-stale", next \notin {"aside", "swap", "packages"}
    PROVE  PublishInv'
<1>0. stage = part /\ part \in {"packages", "info", "manifest", "log"}
  BY DEF Fill, Parts
<1>1. CASE Fails
  BY <1>0, <1>1, FailsInv
<1>2. CASE ~Fails
  <2>1. /\ tmp' = [tmp EXCEPT !.has = @ \cup {part}] /\ stage' = next
        /\ UNCHANGED <<build, result, faults, out, old, hadOld, newest>>
    BY <1>2 DEF Fill, Goto, NoFault
  <2>2. tmp.build = build /\ build # 0 /\ Written(part) \subseteq tmp.has /\ tmp \in Sets
    BY <1>0 DEF PublishInv, TmpInv, RunningInv, PublishTypeOK, Filling
  <2>3. tmp' \in Sets /\ tmp'.build = build /\ tmp'.has = tmp.has \cup {part}
    BY <2>1, <2>2, FillSet
  <2>4. PublishTypeOK' /\ TmpInv' /\ AsideInv' /\ RunningInv'
    BY <1>0, <2>1, <2>2, <2>3
    DEF PublishInv, PublishTypeOK, TmpInv, AsideInv, RunningInv, Filling, Steps
  <2>5. KeptInv'
    BY <1>0, <2>1 DEF PublishInv, KeptInv, PublishTypeOK, Filling
  <2>6. QED
    BY <2>1, <2>4, <2>5 DEF PublishInv
<1>3. QED
  BY <1>1, <1>2

\* The steps before the swap.
LEMMA BeforeSwapInv ==
    ASSUME PublishInv, StartPublish \/ ClearTmp \/ DropStale \/ MoveAside
    PROVE  PublishInv'
<1> USE DEF PublishInv
<1>1. CASE StartPublish
  <2>1. /\ build' = build + 1 /\ build' \in 1..MaxSets /\ stage' = "clear" /\ result' = "none"
        /\ hadOld' = FALSE /\ stage = "idle"
        /\ UNCHANGED <<out, tmp, old, faults, newest>>
    BY <1>1 DEF StartPublish, dirs, PublishTypeOK
  <2>2. PublishTypeOK'
    <3>1. out' \in Sets /\ tmp' \in Sets /\ old' \in Sets /\ hadOld' \in BOOLEAN
      BY <2>1 DEF PublishTypeOK
    <3>2. /\ build' \in 0..MaxSets /\ faults' \in 0..MaxFaults /\ newest' \in 0..MaxSets
          /\ stage' \in Steps
          /\ result' \in {"none", "built", "not-published", "tree-left", "crashed"}
      BY <2>1 DEF PublishTypeOK, Steps
    <3>3. QED
      BY <3>1, <3>2 DEF PublishTypeOK
  <2>3. TmpInv' /\ AsideInv'
    BY <2>1 DEF TmpInv, AsideInv, Filling
  <2>4. RunningInv'
    BY <2>1 DEF RunningInv
  <2>5. KeptInv'
    BY <2>1 DEF KeptInv
  <2>6. QED
    BY <2>1, <2>2, <2>3, <2>4, <2>5
<1>2. CASE ClearTmp
  <2>1. CASE Fails
    BY <1>2, <2>1, FailsInv DEF ClearTmp
  <2>2. CASE ~Fails
    <3>1. /\ tmp' = [build |-> build, has |-> {}] /\ stage' = "packages" /\ stage = "clear"
          /\ UNCHANGED <<build, result, faults, out, old, hadOld, newest>>
      BY <1>2, <2>2 DEF ClearTmp, Goto, NoFault
    <3>2. tmp' \in Sets /\ tmp'.build = build
      BY <3>1 DEF PublishTypeOK, RunningInv, Sets
    <3>3. Written("packages") = {}
      BY DEF Written
    <3>4. PublishTypeOK' /\ TmpInv' /\ AsideInv' /\ RunningInv'
      BY <3>1, <3>2, <3>3 DEF PublishTypeOK, TmpInv, AsideInv, RunningInv, Steps
    <3>5. KeptInv'
      BY <3>1 DEF KeptInv
    <3>6. QED
      BY <3>1, <3>4, <3>5
  <2>3. QED
    BY <2>1, <2>2
<1>3. CASE DropStale
  <2>0. stage = "drop-stale" /\ UNCHANGED <<build, result, out, tmp, hadOld, newest>>
    BY <1>3 DEF DropStale, Goto
  <2>1. CASE old' = Nothing /\ stage' = "aside" /\ UNCHANGED faults
    <3>1. Written("drop-stale") = Parts /\ Written("aside") = Parts
      BY DEF Written
    <3>2. tmp.has = Parts
      BY <2>0, <3>1, WholeHas DEF TmpInv, Filling, PublishTypeOK
    <3>3. PublishTypeOK' /\ TmpInv' /\ AsideInv' /\ RunningInv'
      BY <2>0, <2>1, <3>1, NothingIsSet
      DEF PublishTypeOK, TmpInv, AsideInv, RunningInv, Filling, Steps
    <3>4. KeptInv'
      BY <2>0, <2>1, <3>2 DEF KeptInv
    <3>5. QED
      BY <2>0, <3>3, <3>4
  <2>2. CASE old # Nothing /\ LoseSome /\ Fault /\ stage' = "undo"
    <3>1. old' \in Sets
      BY <2>2, LoseSet DEF LoseSome, PublishTypeOK
    <3>2. faults' = faults + 1 /\ faults' \in 0..MaxFaults
      BY <2>2 DEF Fault, PublishTypeOK
    <3>3. PublishTypeOK' /\ TmpInv' /\ AsideInv' /\ RunningInv'
      BY <2>0, <2>2, <3>1, <3>2 DEF PublishTypeOK, TmpInv, AsideInv, RunningInv, Filling, Steps
    <3>4. KeptInv'
      BY <2>0, <2>2, <3>2 DEF KeptInv, PublishTypeOK
    <3>5. QED
      BY <2>0, <3>3, <3>4
  <2>3. QED
    BY <1>3, <2>1, <2>2 DEF DropStale, Goto, NoFault
<1>4. CASE MoveAside
  <2>1. CASE out # Nothing /\ Fails
    BY <1>4, <2>1, FailsInv DEF MoveAside
  <2>2. CASE ~(out # Nothing /\ Fails)
    <3>1. /\ stage = "aside" /\ stage' = "swap" /\ hadOld' = (out # Nothing)
          /\ IF out # Nothing THEN old' = out /\ out' = Nothing ELSE UNCHANGED <<out, old>>
          /\ UNCHANGED <<build, result, faults, tmp, newest>>
      BY <1>4, <2>2 DEF MoveAside, Goto, NoFault
    <3>2. Written("aside") = Parts /\ Written("swap") = Parts
      BY DEF Written
    <3>3. tmp.build = build /\ tmp.has = Parts
      BY <3>1, <3>2, WholeHas DEF TmpInv, Filling, PublishTypeOK
    <3>4. out' = Nothing
      BY <3>1
    <3>5. PublishTypeOK' /\ TmpInv' /\ RunningInv'
      BY <3>1, <3>2, <3>3, NothingIsSet DEF PublishTypeOK, TmpInv, RunningInv, Filling, Steps
    <3>6. AsideInv'
      BY <3>1 DEF AsideInv, PublishTypeOK
    <3>7. KeptInv'
      <4>1. CASE out # Nothing
        BY <3>1, <4>1 DEF KeptInv
      <4>2. CASE out = Nothing
        <5>1. out.has # Parts
          BY <4>2, NothingIsSet DEF Parts
        <5>2. QED
          BY <3>1, <3>3, <4>2, <5>1 DEF KeptInv
      <4>3. QED
        BY <4>1, <4>2
    <3>8. QED
      BY <3>4, <3>5, <3>6, <3>7
  <2>3. QED
    BY <2>1, <2>2
<1>5. QED
  BY <1>1, <1>2, <1>3, <1>4

\* The swap itself, and putting the earlier set back when it failed.
LEMMA SwapInv ==
    ASSUME PublishInv, SwapIn \/ PutBack
    PROVE  PublishInv'
<1> USE DEF PublishInv
<1>1. CASE SwapIn
  <2>0. /\ stage = "swap" /\ UNCHANGED <<build, result, old, hadOld>>
        /\ build # 0 /\ result = "none"
    BY <1>1 DEF SwapIn, Goto, dirs, RunningInv
  <2>1. Written("swap") = Parts
    BY DEF Written
  <2>2. tmp.build = build /\ tmp.has = Parts
    BY <2>0, <2>1, WholeHas DEF TmpInv, Filling, PublishTypeOK
  <2>3. CASE out' = tmp /\ tmp' = Nothing /\ newest' = build
           /\ stage' = "drop-old" /\ UNCHANGED faults
    <3>1. out'.has = Parts
      BY <2>2, <2>3
    <3>2. PublishTypeOK' /\ TmpInv' /\ AsideInv' /\ RunningInv'
      BY <2>0, <2>3, NothingIsSet DEF PublishTypeOK, TmpInv, AsideInv, RunningInv, Filling, Steps
    <3>3. KeptInv'
      BY <3>1 DEF KeptInv
    <3>4. QED
      BY <3>1, <3>2, <3>3
  <2>4. CASE Fault /\ stage' = "back" /\ UNCHANGED <<out, tmp, newest>>
    <3>1. faults' = faults + 1 /\ faults' \in 0..MaxFaults /\ faults' # 0
      BY <2>4 DEF Fault, PublishTypeOK
    <3>2. PublishTypeOK' /\ TmpInv' /\ AsideInv' /\ RunningInv'
      BY <2>0, <2>4, <3>1 DEF PublishTypeOK, TmpInv, AsideInv, RunningInv, Filling, Steps
    <3>3. KeptInv'
      BY <2>0, <2>4, <3>1 DEF KeptInv, PublishTypeOK
    <3>4. QED
      BY <2>4, <3>2, <3>3
  <2>5. QED
    BY <1>1, <2>3, <2>4 DEF SwapIn, Goto, NoFault, dirs
<1>2. CASE PutBack
  <2>0. /\ stage = "back" /\ stage' = "undo" /\ UNCHANGED <<build, result, tmp, hadOld, newest>>
        /\ build # 0 /\ result = "none" /\ faults # 0
    BY <1>2 DEF PutBack, Goto, RunningInv
  <2>1. CASE hadOld /\ out' = old /\ old' = Nothing /\ UNCHANGED faults
    <3>1. old \in Sets /\ old.has = Parts
      BY <2>0, <2>1 DEF AsideInv
    <3>2. PublishTypeOK' /\ TmpInv' /\ AsideInv' /\ RunningInv'
      BY <2>0, <2>1, <3>1, NothingIsSet DEF PublishTypeOK, TmpInv, AsideInv, RunningInv, Filling, Steps
    <3>3. QED
      BY <2>1, <3>1, <3>2 DEF KeptInv
  <2>2. CASE ~hadOld /\ UNCHANGED <<out, old, faults>>
    <3>1. PublishTypeOK' /\ TmpInv' /\ AsideInv' /\ RunningInv'
      BY <2>0, <2>2 DEF PublishTypeOK, TmpInv, AsideInv, RunningInv, Filling, Steps
    <3>2. KeptInv'
      BY <2>0, <2>2 DEF KeptInv
    <3>3. QED
      BY <2>2, <3>1, <3>2
  <2>3. CASE hadOld /\ Fault /\ UNCHANGED <<out, old>>
    <3>1. faults' = faults + 1 /\ faults' \in 0..MaxFaults /\ faults' > 1
      BY <2>0, <2>3 DEF Fault, PublishTypeOK
    <3>2. PublishTypeOK' /\ TmpInv' /\ AsideInv' /\ RunningInv'
      BY <2>0, <2>3, <3>1 DEF PublishTypeOK, TmpInv, AsideInv, RunningInv, Filling, Steps
    <3>3. KeptInv'
      BY <3>1 DEF KeptInv
    <3>4. QED
      BY <2>3, <3>2, <3>3
  <2>4. QED
    BY <1>2, <2>1, <2>2, <2>3 DEF PutBack, NoFault
<1>3. QED
  BY <1>1, <1>2

\* The steps after the swap, and the end of a publication that failed.
LEMMA AfterSwapInv ==
    ASSUME PublishInv, DropOld \/ DeleteTree \/ UndoTmp
    PROVE  PublishInv'
<1> USE DEF PublishInv
<1>1. CASE DropOld
  <2>0. stage = "drop-old" /\ stage' = "tree"
        /\ UNCHANGED <<build, result, out, tmp, hadOld, newest>>
    BY <1>1 DEF DropOld, Goto
  <2>1. old' \in Sets /\ faults' \in 0..MaxFaults /\ faults' >= faults
    <3>1. CASE old' = (IF hadOld THEN Nothing ELSE old) /\ UNCHANGED faults
      BY <3>1, NothingIsSet DEF PublishTypeOK
    <3>2. CASE Fault /\ LoseSome
      <4>1. faults' \in 0..MaxFaults /\ faults' >= faults
        BY <3>2 DEF Fault, PublishTypeOK
      <4>2. CASE old = Nothing
        <5>1. PICK rest \in SUBSET old.has : old' = [old EXCEPT !.has = rest]
          BY <3>2 DEF LoseSome
        <5>2. rest = {}
          BY <5>1, <4>2, NothingIsSet
        <5>3. old' = Nothing
          BY <5>1, <5>2, <4>2 DEF Nothing
        <5>4. QED
          BY <4>1, <5>3, NothingIsSet
      <4>3. CASE old # Nothing
        BY <3>2, <4>1, <4>3, LoseSet DEF LoseSome, PublishTypeOK
      <4>4. QED
        BY <4>2, <4>3
    <3>3. QED
      BY <1>1, <3>1, <3>2 DEF DropOld, NoFault
  <2>2. PublishTypeOK' /\ TmpInv' /\ AsideInv' /\ RunningInv'
    BY <2>0, <2>1 DEF PublishTypeOK, TmpInv, AsideInv, RunningInv, Filling, Steps
  <2>3. KeptInv'
    BY <2>0, <2>1 DEF KeptInv, PublishTypeOK
  <2>4. QED
    BY <2>0, <2>2, <2>3
<1>2. CASE DeleteTree
  <2>1. /\ stage = "tree" /\ stage' = "idle" /\ result' \in {"built", "tree-left"}
        /\ faults' \in 0..MaxFaults /\ faults' >= faults
        /\ UNCHANGED <<build, out, tmp, old, hadOld, newest>>
    BY <1>2 DEF DeleteTree, End, Fault, NoFault, dirs, PublishTypeOK
  <2>2. PublishTypeOK' /\ TmpInv' /\ AsideInv' /\ RunningInv'
    BY <2>1 DEF PublishTypeOK, TmpInv, AsideInv, RunningInv, Filling, Steps
  <2>3. KeptInv'
    BY <2>1 DEF KeptInv, PublishTypeOK
  <2>4. QED
    BY <2>1, <2>2, <2>3
<1>3. CASE UndoTmp
  <2>1. /\ stage = "undo" /\ stage' = "idle" /\ result' = "not-published"
        /\ tmp' \in {Nothing, tmp}
        /\ faults' \in 0..MaxFaults /\ faults' >= faults
        /\ UNCHANGED <<build, out, old, hadOld, newest>>
    BY <1>3 DEF UndoTmp, End, Fault, NoFault, PublishTypeOK
  <2>2. PublishTypeOK' /\ TmpInv' /\ AsideInv' /\ RunningInv'
    BY <2>1, NothingIsSet DEF PublishTypeOK, TmpInv, AsideInv, RunningInv, Filling, Steps
  <2>3. KeptInv'
    BY <2>1 DEF KeptInv, PublishTypeOK
  <2>4. QED
    BY <2>1, <2>2, <2>3
<1>4. QED
  BY <1>1, <1>2, <1>3

\* A crash at any step.  After it, a whole set is where it was before: as
\* `out`, aside, or, when there was none to move aside, nowhere yet.
LEMMA CrashInv ==
    ASSUME PublishInv, Crash
    PROVE  PublishInv'
<1> USE DEF PublishInv
<1>1. /\ stage # "idle" /\ stage' = "idle" /\ result' = "crashed"
      /\ faults' = faults + 1 /\ faults' \in 0..MaxFaults
      /\ UNCHANGED <<build, out, tmp, hadOld, newest>>
  BY DEF Crash, End, Fault, PublishTypeOK
<1>2. old' \in Sets /\ (stage \notin {"drop-stale", "drop-old"} => UNCHANGED old)
  BY LoseSet DEF Crash, LoseSome, PublishTypeOK
<1>3. PublishTypeOK' /\ TmpInv' /\ AsideInv' /\ RunningInv'
  BY <1>1, <1>2 DEF PublishTypeOK, TmpInv, AsideInv, RunningInv, Filling, Steps
<1>4. KeptInv'
  <2>1. SUFFICES ASSUME newest # 0, faults = 0 PROVE KeptInv'
    BY <1>1 DEF KeptInv, PublishTypeOK
  <2>2. \/ out.has = Parts
        \/ stage \in {"swap", "back"} /\ hadOld /\ old.has = Parts
    BY <2>1 DEF KeptInv
  <2>3. QED
    BY <1>1, <1>2, <2>1, <2>2 DEF KeptInv
<1>5. QED
  BY <1>1, <1>3, <1>4

-----------------------------------------------------------------------------
(* The invariant of a publication, and what follows.                       *)

LEMMA PublishInitInv == PublishInit => PublishInv
<1>1. SUFFICES ASSUME PublishInit PROVE PublishInv
  OBVIOUS
<1>2. PublishTypeOK
  <2>1. out \in Sets /\ tmp \in Sets /\ old \in Sets /\ hadOld \in BOOLEAN
    BY <1>1, NothingIsSet DEF PublishInit
  <2>2. /\ build \in 0..MaxSets /\ faults \in 0..MaxFaults /\ newest \in 0..MaxSets
        /\ stage \in Steps
        /\ result \in {"none", "built", "not-published", "tree-left", "crashed"}
    BY <1>1 DEF PublishInit, Steps
  <2>3. QED
    BY <2>1, <2>2 DEF PublishTypeOK
<1>3. TmpInv /\ AsideInv /\ RunningInv /\ KeptInv
  BY <1>1 DEF PublishInit, TmpInv, AsideInv, RunningInv, KeptInv, Filling
<1>4. QED
  BY <1>1, <1>2, <1>3 DEF PublishInit, PublishInv

LEMMA PublishStepInv == PublishInv /\ [PublishNext]_publishVars => PublishInv'
<1>1. SUFFICES ASSUME PublishInv, [PublishNext]_publishVars PROVE PublishInv'
  OBVIOUS
<1>2. CASE UNCHANGED publishVars
  BY <1>1, <1>2
  DEF publishVars, dirs, PublishInv, PublishTypeOK, TmpInv, AsideInv, RunningInv, KeptInv
<1>3. CASE StartPublish \/ ClearTmp \/ DropStale \/ MoveAside
  BY <1>1, <1>3, BeforeSwapInv
<1>4. /\ Written("info") = Written("packages") \cup {"packages"}
      /\ Written("manifest") = Written("info") \cup {"info"}
      /\ Written("log") = Written("manifest") \cup {"manifest"}
      /\ Written("drop-stale") = Written("log") \cup {"log"}
  BY DEF Written, Parts
<1>5. CASE Fill("packages", "info")
  BY <1>1, <1>4, <1>5, FillInv DEF Parts, Filling
<1>6. CASE Fill("info", "manifest")
  BY <1>1, <1>4, <1>6, FillInv DEF Parts, Filling
<1>7. CASE Fill("manifest", "log")
  BY <1>1, <1>4, <1>7, FillInv DEF Parts, Filling
<1>8. CASE Fill("log", "drop-stale")
  BY <1>1, <1>4, <1>8, FillInv DEF Parts, Filling
<1>9. CASE SwapIn \/ PutBack
  BY <1>1, <1>9, SwapInv
<1>10. CASE DropOld \/ DeleteTree \/ UndoTmp
  BY <1>1, <1>10, AfterSwapInv
<1>11. CASE Crash
  BY <1>1, <1>11, CrashInv
<1>12. QED
  BY <1>1, <1>2, <1>3, <1>5, <1>6, <1>7, <1>8, <1>9, <1>10, <1>11 DEF PublishNext, PublishStep

\* A session publishes by the steps of Publish.
LEMMA SessionPublishes == [SessionNext]_sessionVars => [PublishNext]_publishVars
BY DEF SessionNext, sessionVars, BuildStep, NothingToPublish, PublishOn, Restart, PublishNext

LEMMA PublishInvariant == Session => []PublishInv
<1>1. PublishInv /\ [SessionNext]_sessionVars => PublishInv'
  BY PublishStepInv, SessionPublishes
<1>2. QED
  BY <1>1, PublishInitInv, PTL DEF Session, SessionInit

\* Every variable keeps its type; in particular the commands of MaxBuilds builds are
\* never more than MaxCommands, and a fault is never one too many.
THEOREM SessionTypeCorrect == Session => []SessionTypeOK
<1>1. BuildInv /\ PublishInv => SessionTypeOK
  BY DEF BuildInv, PublishInv, SessionTypeOK
<1>2. QED
  BY <1>1, Invariance, PublishInvariant, PTL

\* However often publish fails or is cut off, a set that built_sets lists is
\* complete, its manifest included.
THEOREM OutWhole == Session => []OutIsWhole
<1>1. PublishInv => OutIsWhole
  BY DEF PublishInv, OutIsWhole, Whole
<1>2. QED
  BY <1>1, PublishInvariant, PTL

\* After one fault at any step of any build, the last finished build is still
\* in the folder; and it is listed when publish itself reported the failure.
THEOREM OneFaultKept == Session => []OneFaultLosesNothing
<1>1. PublishInv => OneFaultLosesNothing
  <2>1. SUFFICES ASSUME PublishInv, newest # 0, faults <= 1
                 PROVE  /\ \E d \in {out, tmp, old} : Whole(d)
                        /\ result = "not-published" => Whole(out)
    BY DEF OneFaultLosesNothing
  <2>2. \A d \in {out, tmp, old} : d.has = Parts => Whole(d)
    BY <2>1, WholeHas DEF PublishInv, PublishTypeOK
  <2>3. out.has = Parts \/ old.has = Parts \/ tmp.has = Parts
    BY <2>1 DEF PublishInv, KeptInv
  <2>4. result = "not-published" => out.has = Parts
    <3>1. result = "not-published" => stage = "idle"
      BY <2>1 DEF PublishInv, RunningInv
    <3>2. QED
      BY <2>1, <3>1 DEF PublishInv, KeptInv
  <2>5. QED
    BY <2>2, <2>3, <2>4
<1>2. QED
  BY <1>1, PublishInvariant, PTL
=============================================================================
