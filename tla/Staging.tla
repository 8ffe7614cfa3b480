------------------------------ MODULE Staging ------------------------------
(***************************************************************************)
(* stage_verified_debs and the head of do_install                          *)
(* (scripts/privileged-install.sh): the set a folder holds is copied, file *)
(* by file, into a directory only root can write, and checked there.  The  *)
(* folder is its owner's, who may write to it between any two steps.       *)
(***************************************************************************)
EXTENDS FiniteSets

CONSTANTS
    Rel, NoRel,    \* kernel releases: each has a folder of its own
    Name,          \* package file names
    Build,         \* builds of this app, each with its packages
    Lists,         \* the packages of a build, which its manifest lists
    NoFile, Junk   \* no such file; contents no build has written

ASSUME StagingAssumption ==
    /\ NoRel \notin Rel /\ NoFile \notin Build /\ Junk \notin Build /\ NoFile # Junk
    /\ Lists \in [Build -> (SUBSET Name) \ {{}}]

VARIABLES
    folder,  \* the build published in a folder, the manifest and the packages there
    pc,      \* the script's next step, "off" when it does not run
    dir,     \* the folder it was given
    todo,    \* the packages of `for f in ./*.deb` that are still to come
    stage,   \* STAGE_DIR
    given    \* what dpkg was given by this run

scriptVars == <<pc, dir, todo, stage, given>>

File   == Build \cup {NoFile, Junk}
NoDebs == [n \in Name |-> NoFile]
Empty  == [manifest |-> NoFile, debs |-> NoDebs]
Gone   == [build |-> NoFile, manifest |-> NoFile, debs |-> NoDebs]

\* What publish leaves of build b.
Published(b) ==
    [build |-> b, manifest |-> b, debs |-> [n \in Name |-> IF n \in Lists[b] THEN b ELSE NoFile]]

\* Every package the manifest lists is there, as it was built.
Matches(set) ==
    /\ set.manifest \in Build
    /\ \A n \in Lists[set.manifest] : set.debs[n] = set.manifest

StagingTypeOK ==
    /\ folder \in [Rel -> [build : Build \cup {NoFile}, manifest : File, debs : [Name -> File]]]
    /\ pc \in {"off", "launch", "manifest", "debs", "ended"}
    /\ dir \in Rel \cup {NoRel}
    /\ pc # "off" => dir \in Rel
    /\ todo \subseteq Name
    /\ stage \in [manifest : File, debs : [Name -> File]]
    /\ given \in [manifest : File, debs : [Name -> File]]

StagingInit ==
    /\ pc = "off" /\ dir = NoRel /\ todo = {} /\ stage = Empty /\ given = Empty

-----------------------------------------------------------------------------
Die == pc' = "ended" /\ todo' = {} /\ stage' = Empty /\ UNCHANGED <<folder, dir, given>>

\* run_privileged_install wants a folder, and pkexec a password.
Launch ==
    /\ pc = "launch"
    /\ \/ Die
       \/ /\ folder[dir] # Gone
          /\ pc' = "manifest" /\ UNCHANGED <<folder, dir, todo, stage, given>>

\* The manifest is copied first; the names of the packages are read next.
CopyManifest ==
    /\ pc = "manifest"
    /\ IF folder[dir].manifest = NoFile THEN Die
       ELSE /\ stage' = [Empty EXCEPT !.manifest = folder[dir].manifest]
            /\ todo' = {n \in Name : folder[dir].debs[n] # NoFile}
            /\ pc' = "debs" /\ UNCHANGED <<folder, dir, given>>

Listed(n) == stage.manifest \in Build /\ n \in Lists[stage.manifest]

\* Mutant: the app has checked the packages, so their hashes are not compared.
CopyDebUnchecked(n) ==
    LET deb == folder[dir].debs[n]
    IN /\ pc = "debs" /\ n \in todo
       /\ IF deb = NoFile
          THEN todo' = todo \ {n} /\ UNCHANGED <<folder, pc, dir, stage, given>>
          ELSE IF ~Listed(n) THEN Die
          ELSE /\ stage' = [stage EXCEPT !.debs[n] = deb] /\ todo' = todo \ {n}
               /\ UNCHANGED <<folder, pc, dir, given>>

\* A package that has vanished is passed over; one the manifest does not list,
\* or whose copy does not match it, ends the install.
CopyDeb(n) ==
    LET deb == folder[dir].debs[n]
    IN /\ pc = "debs" /\ n \in todo
       /\ IF deb = NoFile
          THEN todo' = todo \ {n} /\ UNCHANGED <<folder, pc, dir, stage, given>>
          ELSE IF ~Listed(n) \/ deb # stage.manifest THEN Die
          ELSE /\ stage' = [stage EXCEPT !.debs[n] = deb] /\ todo' = todo \ {n}
               /\ UNCHANGED <<folder, pc, dir, given>>

\* No package the manifest lists may be missing.  Install models what dpkg and
\* the rest of the script do with the copy; it is deleted in the end.
InstallStaged ==
    /\ pc = "debs" /\ todo = {}
    /\ \/ Die                                \* refused before dpkg: see Install
       \/ /\ stage.manifest \in Build
          /\ \A n \in Lists[stage.manifest] : stage.debs[n] # NoFile
          /\ given' = stage /\ pc' = "ended" /\ stage' = Empty
          /\ UNCHANGED <<folder, dir, todo>>

Script == Launch \/ CopyManifest \/ (\E n \in Name : CopyDeb(n)) \/ InstallStaged

-----------------------------------------------------------------------------
\* dpkg is only ever given one build's packages, all of them and no others, as
\* its manifest lists them: whatever is written to the folder while the script
\* copies it, and whatever the window believed of it (stage_verified_debs).
GivenIsOneBuild ==
    given # Empty =>
        /\ Matches(given)
        /\ \A n \in Name : given.debs[n] # NoFile => n \in Lists[given.manifest]
=============================================================================
