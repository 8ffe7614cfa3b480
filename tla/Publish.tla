------------------------------ MODULE Publish ------------------------------
(***************************************************************************)
(* run_build after make has succeeded, and publish (src/build.rs): the     *)
(* packages of one kernel release become the finished set the Install tab  *)
(* lists, in place of the set an earlier build of the release left.        *)
(*                                                                         *)
(* Three directories: `out` is the one built_sets lists, `tmp` and `old`   *)
(* have names it skips.  A step of the code may fail (a full disk, a       *)
(* permission), and the app or the machine may stop between two steps;     *)
(* both count as faults.                                                   *)
(***************************************************************************)
EXTENDS Naturals

CONSTANTS
    MaxSets,     \* bound: builds of the release
    MaxFaults    \* bound: steps that fail, and crashes

ASSUME PublishAssumption == MaxSets \in Nat /\ MaxFaults \in Nat

\* What publish puts into a set, in its order; the log and the modes are one.
Parts == {"packages", "info", "manifest", "log"}

VARIABLES
    out, tmp, old,  \* the directories: Nothing, or a set
    stage,          \* the next step of the code, "idle" between builds
    hadOld,         \* had_old
    build,          \* the build being published
    result,         \* how the last build ended
    faults,         \* faults so far
    newest          \* history: the set that was last swapped in

dirs == <<out, tmp, old>>
publishVars == <<dirs, stage, hadOld, build, result, faults, newest>>

Nothing == [build |-> 0, has |-> {}]
Sets    == {Nothing} \cup [build : 1..MaxSets, has : SUBSET Parts]
Whole(d) == d # Nothing /\ d.has = Parts

Steps == {"idle", "clear", "packages", "info", "manifest", "log", "drop-stale",
          "aside", "swap", "back", "drop-old", "tree", "undo"}

PublishTypeOK ==
    /\ out \in Sets /\ tmp \in Sets /\ old \in Sets
    /\ stage \in Steps
    /\ hadOld \in BOOLEAN
    /\ build \in 0..MaxSets
    /\ result \in {"none", "built", "not-published", "tree-left", "crashed"}
    /\ faults \in 0..MaxFaults
    /\ newest \in 0..MaxSets

PublishInit ==
    /\ out = Nothing /\ tmp = Nothing /\ old = Nothing
    /\ stage = "idle" /\ hadOld = FALSE /\ build = 0 /\ result = "none"
    /\ faults = 0 /\ newest = 0

-----------------------------------------------------------------------------
Goto(next) == stage' = next /\ UNCHANGED <<build, result>>
End(outcome) == stage' = "idle" /\ result' = outcome /\ UNCHANGED build
Fault == faults < MaxFaults /\ faults' = faults + 1
NoFault == UNCHANGED faults

\* The `?` of a step of publish: the step has changed nothing.
Fails == Fault /\ Goto("undo") /\ UNCHANGED <<dirs, hadOld, newest>>

\* remove_dir_all on `old` stops part way.
LoseSome == \E rest \in SUBSET old.has : old' = [old EXCEPT !.has = rest]

StartPublish ==
    /\ stage = "idle" /\ build < MaxSets
    /\ build' = build + 1 /\ stage' = "clear" /\ result' = "none" /\ hadOld' = FALSE
    /\ UNCHANGED <<dirs, faults, newest>>

\* A temp dir a crash has left goes first; a new one is made.
ClearTmp ==
    /\ stage = "clear"
    /\ \/ /\ tmp' = [build |-> build, has |-> {}]
          /\ Goto("packages") /\ NoFault /\ UNCHANGED <<out, old, hadOld, newest>>
       \/ Fails

\* Mutant: a part that could not be written is only logged.
FillLenient(part, next) ==
    /\ stage = part
    /\ \/ /\ tmp' = [tmp EXCEPT !.has = @ \cup {part}]
          /\ Goto(next) /\ NoFault /\ UNCHANGED <<out, old, hadOld, newest>>
       \/ Fault /\ Goto(next) /\ UNCHANGED <<dirs, hadOld, newest>>

\* Packages, config and build-info, manifest, log: each written into tmp.
Fill(part, next) ==
    /\ stage = part
    /\ \/ /\ tmp' = [tmp EXCEPT !.has = @ \cup {part}]
          /\ Goto(next) /\ NoFault /\ UNCHANGED <<out, old, hadOld, newest>>
       \/ Fails

\* What an interrupted swap left as `old` is deleted.
DropStale ==
    /\ stage = "drop-stale"
    /\ \/ /\ old' = Nothing
          /\ Goto("aside") /\ NoFault /\ UNCHANGED <<out, tmp, hadOld, newest>>
       \/ old # Nothing /\ LoseSome /\ Fault /\ Goto("undo")
          /\ UNCHANGED <<out, tmp, hadOld, newest>>

\* Mutant: the earlier set is deleted to make room for the new one.
MoveAsideByDeleting ==
    /\ stage = "aside"
    /\ \/ /\ hadOld' = FALSE
          /\ out' = Nothing
          /\ Goto("swap") /\ NoFault /\ UNCHANGED <<tmp, old, newest>>
       \/ Fails

MoveAside ==
    /\ stage = "aside"
    /\ \/ /\ hadOld' = (out # Nothing)
          /\ IF out # Nothing THEN old' = out /\ out' = Nothing ELSE UNCHANGED <<out, old>>
          /\ Goto("swap") /\ NoFault /\ UNCHANGED <<tmp, newest>>
       \/ out # Nothing /\ Fails

SwapIn ==
    /\ stage = "swap"
    /\ \/ /\ out' = tmp /\ tmp' = Nothing /\ newest' = build
          /\ Goto("drop-old") /\ NoFault /\ UNCHANGED <<old, hadOld>>
       \/ Fault /\ Goto("back") /\ UNCHANGED <<dirs, hadOld, newest>>

\* The earlier set is put back; that this may fail is ignored.
PutBack ==
    /\ stage = "back"
    /\ \/ /\ IF hadOld THEN out' = old /\ old' = Nothing ELSE UNCHANGED <<out, old>>
          /\ NoFault
       \/ hadOld /\ Fault /\ UNCHANGED <<out, old>>
    /\ Goto("undo") /\ UNCHANGED <<tmp, hadOld, newest>>

\* Failing to delete it is ignored too; it may be gone in part.
DropOld ==
    /\ stage = "drop-old"
    /\ \/ old' = (IF hadOld THEN Nothing ELSE old) /\ NoFault
       \/ hadOld /\ Fault /\ LoseSome
    /\ Goto("tree") /\ UNCHANGED <<out, tmp, hadOld, newest>>

\* The build tree goes last.  When it cannot be deleted the build is an
\* error, with the new set in place.
DeleteTree ==
    /\ stage = "tree"
    /\ \/ End("built") /\ NoFault
       \/ End("tree-left") /\ Fault
    /\ UNCHANGED <<dirs, hadOld, newest>>

\* run_build removes tmp when publish returned an error.
UndoTmp ==
    /\ stage = "undo"
    /\ \/ tmp' = Nothing /\ NoFault
       \/ Fault /\ UNCHANGED tmp
    /\ End("not-published")
    /\ UNCHANGED <<out, old, hadOld, newest>>

\* The app or the machine stops, perhaps while `old` is being deleted.
Crash ==
    /\ stage # "idle" /\ Fault
    /\ End("crashed")
    /\ IF stage \in {"drop-stale", "drop-old"} /\ old # Nothing THEN LoseSome ELSE UNCHANGED old
    /\ UNCHANGED <<out, tmp, hadOld, newest>>

PublishStep ==
    \/ StartPublish \/ ClearTmp
    \/ Fill("packages", "info") \/ Fill("info", "manifest")
    \/ Fill("manifest", "log") \/ Fill("log", "drop-stale")
    \/ DropStale \/ MoveAside \/ SwapIn \/ PutBack \/ DropOld
    \/ DeleteTree \/ UndoTmp

PublishNext == PublishStep \/ Crash

-----------------------------------------------------------------------------
(* Properties.                                                             *)

\* The install step only ever sees a complete set with its manifest.
OutIsWhole == out # Nothing => Whole(out)

\* One fault, a crash between the two renames included, never loses the last
\* finished build: a whole set is somewhere in the folder, whatever the
\* builds after that fault do; and unless that fault was the crash, it is where
\* the app lists it: a publication that fails puts the earlier set back.
OneFaultLosesNothing ==
    newest # 0 /\ faults <= 1 =>
        /\ \E d \in {out, tmp, old} : Whole(d)
        /\ result = "not-published" => Whole(out)
=============================================================================
