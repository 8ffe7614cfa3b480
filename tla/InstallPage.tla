---------------------------- MODULE InstallPage ----------------------------
(***************************************************************************)
(* The Install tab of src/ui.rs over the finished builds of src/build.rs:  *)
(* which set is selected, whether its packages were checked, and what the  *)
(* Install button hands to the script of Staging.                          *)
(*                                                                         *)
(* The GTK thread runs one callback at a time.  Listing the builds and     *)
(* checking one run on threads, and their answers come back in any order.  *)
(* Under a dialog the window takes no clicks, but answers still arrive.    *)
(***************************************************************************)
EXTENDS Staging, Naturals

CONSTANTS
    ReleaseOf,     \* the release a build is of
    Earlier,       \* the builds earlier sessions have left
    Unverified,    \* the builds whose build-info names no signature
    Slot,          \* bound: checks under way at a time
    MaxListings,   \* bound: listings under way at a time
    MaxMeddles     \* bound: writes of others to the folders

ASSUME InstallPageAssumption ==
    /\ ReleaseOf \in [Build -> Rel] /\ Unverified \subseteq Build /\ Earlier \subseteq Build
    /\ \A b, c \in Earlier : ReleaseOf[b] = ReleaseOf[c] => b = c
    /\ MaxListings \in Nat /\ MaxMeddles \in Nat

VARIABLES
    aside,     \* what publish has moved aside
    fresh,     \* builds not made yet
    building,  \* the build that runs, or NoFile
    meddles,   \* writes of others so far
    \* the window
    busy,      \* AppState.busy
    dialog,    \* the dialog that is open, and the folder it is about
    rows,      \* AppState.built
    staged,    \* AppState.staged
    verified,  \* AppState.staged_verified
    listing,   \* calls of load_built under way
    check,     \* calls of verify_built_set under way
    sound      \* history: the sets a check has found to match

diskVars == <<aside, fresh, building, meddles>>
rowVars  == <<rows, staged, verified, listing, check, sound>>
pageVars == <<busy, dialog>>
vars == <<folder, scriptVars, diskVars, pageVars, rowVars>>

\* A BuiltSet is what the list shows: two builds of a release may look alike.
BuiltSet == [rel : Rel, debs : SUBSET Name, source : {"verified", "UNVERIFIED"}]
NoSet    == [rel |-> NoRel, debs |-> {}, source |-> "verified"]
Rows     == [Rel -> BuiltSet \cup {NoSet}]
NoRows   == [r \in Rel |-> NoSet]
NoCheck  == [set |-> NoSet, answer |-> "none"]
NoDialog == [about |-> "none", rel |-> NoRel]

TypeOK ==
    /\ StagingTypeOK
    /\ aside \in [build : Build \cup {NoFile}, manifest : File, debs : [Name -> File]]
    /\ fresh \subseteq Build /\ building \in Build \cup {NoFile}
    /\ meddles \in 0..MaxMeddles
    /\ busy \in {"none", "build", "kernel install"}
    /\ dialog \in [about : {"none", "install", "blocked", "delete"}, rel : Rel \cup {NoRel}]
    /\ rows \in Rows /\ staged \in BuiltSet \cup {NoSet} /\ verified \in BOOLEAN
    /\ listing \subseteq [select : Rel \cup {NoRel}, read : BOOLEAN, found : Rows]
    /\ check \in [Slot -> [set : BuiltSet \cup {NoSet},
                           answer : {"none", "reading", "matches", "differs"}]]
    /\ sound \subseteq BuiltSet

\* The app starts over the builds of earlier sessions, and lists them.
Init ==
    /\ StagingInit
    /\ folder = [r \in Rel |-> IF \E b \in Earlier : ReleaseOf[b] = r
                               THEN Published(CHOOSE b \in Earlier : ReleaseOf[b] = r)
                               ELSE Gone]
    /\ fresh = Build \ Earlier
    /\ aside = Gone /\ building = NoFile /\ meddles = 0
    /\ busy = "none" /\ dialog = NoDialog
    /\ rows = NoRows /\ staged = NoSet /\ verified = FALSE
    /\ listing = {[select |-> NoRel, read |-> FALSE, found |-> NoRows]}
    /\ check = [i \in Slot |-> NoCheck] /\ sound = {}

-----------------------------------------------------------------------------
(* Listing the builds.                                                     *)

\* built_sets: a folder with a manifest that parses.
BuiltSets ==
    [r \in Rel |->
        LET set == folder[r]
        IN IF set.manifest \notin Build THEN NoSet
           ELSE [rel |-> r, debs |-> Lists[set.manifest],
                 source |-> IF set.build \in Unverified THEN "UNVERIFIED" ELSE "verified"]]

\* load_built begins.
LoadBuilt(select) ==
    listing' = listing \cup {[select |-> select, read |-> FALSE, found |-> NoRows]}

ReadBuilds ==
    \E l \in listing :
        /\ ~l.read
        /\ listing' = (listing \ {l}) \cup {[l EXCEPT !.read = TRUE, !.found = BuiltSets]}
        /\ UNCHANGED <<folder, scriptVars, diskVars, pageVars, rows, staged, verified, check, sound>>

\* connect_row_selected: the selected set is to be checked.
RowSelected(set) ==
    /\ staged' = set /\ verified' = FALSE
    /\ IF set = NoSet THEN UNCHANGED check
       ELSE /\ \E i \in Slot : check[i] = NoCheck
            /\ check' = [check EXCEPT ![CHOOSE i \in Slot : check[i] = NoCheck] =
                           [set |-> set, answer |-> "reading"]]

\* load_built's callback: the set asked for is selected, or else the one whose
\* folder was, or else, when none was, the newest.
BuiltListed ==
    \E l \in listing :
        /\ l.read
        /\ listing' = listing \ {l}
        /\ rows' = l.found
        /\ LET keep  == IF l.select # NoRel THEN l.select ELSE staged.rel
               found == {l.found[r] : r \in Rel} \ {NoSet}
           IN IF keep # NoRel THEN RowSelected(l.found[keep])
              ELSE IF found = {} THEN RowSelected(NoSet)
              ELSE \E set \in found : RowSelected(set)
        /\ UNCHANGED <<folder, scriptVars, diskVars, pageVars, sound>>

-----------------------------------------------------------------------------
(* Checking the selected one.                                              *)

\* verify_built_set reads the manifest and the packages, or cannot.
ReadSet(i) ==
    /\ check[i].answer = "reading"
    /\ LET set == folder[check[i].set.rel]
       IN \/ /\ Matches(set)
             /\ check' = [check EXCEPT ![i].answer = "matches"]
             /\ sound' = sound \cup {check[i].set}
          \/ check' = [check EXCEPT ![i].answer = "differs"] /\ UNCHANGED sound
    /\ UNCHANGED <<folder, scriptVars, diskVars, pageVars, rows, staged, verified, listing>>

Answered(i) == check[i].answer \in {"matches", "differs"}

\* Mutant: the answer is taken for the set that is selected now.
SetCheckedWhichever(i) ==
    /\ Answered(i)
    /\ IF staged = NoSet THEN UNCHANGED <<staged, verified>>
       ELSE IF check[i].answer = "matches" THEN verified' = TRUE /\ UNCHANGED staged
       ELSE staged' = NoSet /\ verified' = FALSE
    /\ check' = [check EXCEPT ![i] = NoCheck]
    /\ UNCHANGED <<folder, scriptVars, diskVars, pageVars, rows, listing, sound>>

\* The answer counts only for the set that is still selected, or one like it;
\* a set that does not match is selected no more.
SetChecked(i) ==
    /\ Answered(i)
    /\ IF check[i].set # staged THEN UNCHANGED <<staged, verified>>
       ELSE IF check[i].answer = "matches" THEN verified' = TRUE /\ UNCHANGED staged
       ELSE staged' = NoSet /\ verified' = FALSE
    /\ check' = [check EXCEPT ![i] = NoCheck]
    /\ UNCHANGED <<folder, scriptVars, diskVars, pageVars, rows, listing, sound>>

-----------------------------------------------------------------------------
(* The user's clicks.                                                      *)

Clickable == busy = "none" /\ dialog = NoDialog
Quiet == UNCHANGED <<diskVars, rows, sound>>

ClickRow(r) ==
    /\ Clickable /\ rows[r] \notin {NoSet, staged}
    /\ RowSelected(rows[r])
    /\ UNCHANGED <<folder, scriptVars, busy, dialog, listing>> /\ Quiet

\* Delete, its dialog, and the answer: the folder goes, or some of it does.
ClickDelete ==
    /\ Clickable /\ staged # NoSet
    /\ dialog' = [about |-> "delete", rel |-> staged.rel]
    /\ UNCHANGED <<folder, scriptVars, busy, staged, verified, listing, check>> /\ Quiet

AnswerDelete ==
    /\ dialog.about = "delete" /\ dialog' = NoDialog
    /\ \/ UNCHANGED <<folder, staged, verified, listing>>
       \/ /\ \/ folder' = [folder EXCEPT ![dialog.rel] = Gone]
             \/ UNCHANGED folder                              \* "Could not delete"
          /\ staged' = NoSet /\ verified' = FALSE
          /\ Cardinality(listing) < MaxListings /\ LoadBuilt(NoRel)
    /\ UNCHANGED <<scriptVars, busy, check>> /\ Quiet

\* Mutant: start_install relies on the button, which was sensitive once.
StartInstallUnasked ==
    /\ busy' = "kernel install" /\ pc' = "launch" /\ dir' = staged.rel
    /\ UNCHANGED <<folder, todo, stage, given>>

\* start_install looks again: since the dialog opened the list may have been
\* read anew.  Nothing happens if the selected set is not checked by now.
StartInstall ==
    IF verified /\ staged # NoSet
    THEN /\ busy' = "kernel install" /\ pc' = "launch" /\ dir' = staged.rel
         /\ UNCHANGED <<folder, todo, stage, given>>
    ELSE UNCHANGED <<folder, busy, scriptVars>>

\* install_blocker and install_warnings, by what the last scan of the system
\* said (see SystemPage), and a warning for source that was not verified.
ClickInstall ==
    /\ Clickable /\ staged # NoSet /\ verified
    /\ \/ dialog' = [about |-> "blocked", rel |-> NoRel] /\ UNCHANGED <<folder, busy, scriptVars>>
       \/ dialog' = [about |-> "install", rel |-> NoRel] /\ UNCHANGED <<folder, busy, scriptVars>>
       \/ staged.source # "UNVERIFIED" /\ StartInstall /\ UNCHANGED dialog
    /\ UNCHANGED <<staged, verified, listing, check>> /\ Quiet

AnswerInstall ==
    /\ dialog.about \in {"install", "blocked"} /\ dialog' = NoDialog
    /\ \/ UNCHANGED <<folder, busy, scriptVars>>
       \/ dialog.about = "install" /\ busy = "none" /\ StartInstall
    /\ UNCHANGED <<staged, verified, listing, check>> /\ Quiet

\* The callback of the install.
InstallEnded ==
    /\ pc = "ended" /\ pc' = "off" /\ dir' = NoRel /\ given' = Empty /\ busy' = "none"
    /\ UNCHANGED <<folder, todo, stage, dialog, staged, verified, listing, check>> /\ Quiet

ScriptStep == Script /\ UNCHANGED <<diskVars, pageVars, rowVars>>

-----------------------------------------------------------------------------
(* A build, whose set publish swaps in: see Build and Publish.             *)

StartBuild(b) ==
    /\ Clickable /\ b \in fresh
    /\ busy' = "build" /\ building' = b /\ fresh' = fresh \ {b}
    /\ UNCHANGED <<folder, scriptVars, aside, meddles, dialog, rowVars>>

Target == ReleaseOf[building]

MoveAside ==
    /\ building # NoFile /\ folder[Target] # Gone /\ aside = Gone
    /\ aside' = folder[Target] /\ folder' = [folder EXCEPT ![Target] = Gone]
    /\ UNCHANGED <<scriptVars, fresh, building, meddles, pageVars, rowVars>>

\* The new set takes its place, and the window hears of it; or the build fails
\* and the earlier one is put back.
BuildEnds ==
    /\ building # NoFile /\ busy' = "none" /\ building' = NoFile /\ aside' = Gone
    /\ \/ /\ folder[Target] = Gone
          /\ folder' = [folder EXCEPT ![Target] = Published(building)]
          /\ Cardinality(listing) < MaxListings /\ LoadBuilt(Target)
       \/ /\ folder' = IF aside = Gone THEN folder ELSE [folder EXCEPT ![Target] = aside]
          /\ UNCHANGED listing
    /\ UNCHANGED <<scriptVars, fresh, meddles, dialog, rows, staged, verified, check, sound>>

\* The folders are the user's: a package is written over or added, a file deleted.
SomebodyElse ==
    /\ meddles < MaxMeddles /\ meddles' = meddles + 1
    /\ \E r \in Rel, n \in Name, c \in {NoFile, Junk} :
         /\ folder[r] # Gone
         /\ folder' \in {[folder EXCEPT ![r].manifest = NoFile],
                        [folder EXCEPT ![r].debs[n] = c]}
    /\ UNCHANGED <<scriptVars, aside, fresh, building, pageVars, rowVars>>

Next ==
    \/ ReadBuilds \/ BuiltListed
    \/ \E i \in Slot : ReadSet(i) \/ SetChecked(i)
    \/ \E r \in Rel : ClickRow(r)
    \/ ClickDelete \/ AnswerDelete \/ ClickInstall \/ AnswerInstall
    \/ ScriptStep \/ InstallEnded
    \/ \E b \in Build : StartBuild(b)
    \/ MoveAside \/ BuildEnds \/ SomebodyElse

Spec == Init /\ [][Next]_vars

-----------------------------------------------------------------------------
\* update_install_tab: what stands beside the packages of the selected set.
Badge ==
    IF staged = NoSet THEN "nothing selected"
    ELSE IF verified THEN "SHA256" ELSE "checking"

\* What the tab says of the selected set is true: "SHA256" is shown, and Install
\* offered, only for a set a check has found to match its manifest, and
\* "checking..." only while it is being checked; no answer to an earlier
\* selection is taken for this one (load_built, connect_row_selected).
TabIsTruthful ==
    /\ Badge = "SHA256" => staged \in sound
    /\ Badge = "checking" => \E i \in Slot : check[i].set = staged

\* The script is only started for a folder whose set was checked, although the
\* list may be read anew under the dialog (start_install).
InstallsChecked == pc # "off" => \E set \in sound : set.rel = dir
=============================================================================
