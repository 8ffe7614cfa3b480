---------------------------- MODULE BuildSession ----------------------------
(***************************************************************************)
(* Builds with their publications: the worker's "publish" of Build is the  *)
(* whole of Publish, whose steps interleave with the window's callbacks,   *)
(* and its outcome is the worker's.  The app or the machine may stop on    *)
(* the way, and is started again.                                          *)
(***************************************************************************)
EXTENDS Build, Publish

ASSUME SessionAssumption == MaxBuilds <= MaxSets   \* room to publish every build

sessionVars == <<vars, publishVars>>

SessionTypeOK == TypeOK /\ PublishTypeOK

SessionInit == Init /\ PublishInit

-----------------------------------------------------------------------------
\* Everything but a publication.
BuildStep ==
    /\ (WorkerStep /\ pc # "publish") \/ Discard \/ Machine \/ Gtk
    /\ UNCHANGED publishVars

\* What run_build finds before it publishes is not what it needs.
NothingToPublish ==
    /\ stage = "idle"
    /\ Publish /\ pc' = "failed"
    /\ UNCHANGED publishVars

\* A step of run_build and publish: the worker goes on when it is the last.
PublishOn ==
    /\ pc = "publish"
    /\ PublishStep
    /\ IF stage' # "idle"
       THEN UNCHANGED vars
       ELSE Publish /\ (posted' = "built" <=> result' = "built")

\* Everything in memory is gone, and nothing of a publication runs on its own.
Restart ==
    /\ pc = "publish" /\ Crash
    /\ busy' = "none" /\ control' = FALSE /\ dialog' = FALSE
    /\ closing' = FALSE /\ signalling' = FALSE
    /\ cancelled' = FALSE /\ pgid' = 0 /\ killers' = {}
    /\ pc' = "idle" /\ phase' = "prepare" /\ left' = 0 /\ posted' = "none"
    /\ UNCHANGED <<window, builds, discarding, spawned, alive, tree, outputs, undeleted>>

SessionNext == BuildStep \/ NothingToPublish \/ PublishOn \/ Restart

Session == SessionInit /\ [][SessionNext]_sessionVars

\* The worker's fairness is that of its publication too: it leaves "publish" only
\* with the last of its steps.
FairSession == Session /\ Fairness
=============================================================================
