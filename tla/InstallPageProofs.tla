------------------------- MODULE InstallPageProofs -------------------------
(* Theorems about InstallPage and the Staging under it, for any number of  *)
(* releases, builds, packages, checks and listings.                        *)
EXTENDS InstallPage, TLAPS

USE StagingAssumption, InstallPageAssumption

-----------------------------------------------------------------------------
(* The inductive invariant.                                                *)

\* Whatever was copied so far is listed and as it was built.
StageSound ==
    \A n \in Name :
        stage.debs[n] # NoFile =>
            /\ stage.manifest \in Build /\ n \in Lists[stage.manifest]
            /\ stage.debs[n] = stage.manifest

\* A check is of a set, and its good answer of a set that was found to match.
ChecksSound ==
    \A i \in Slot :
        /\ check[i].answer # "none" => check[i].set \in BuiltSet
        /\ check[i].answer = "matches" => check[i].set \in sound

\* The selected set is checked, or is being checked.
SelectionSound ==
    /\ verified => staged \in sound
    /\ staged # NoSet /\ ~verified => \E i \in Slot : check[i].set = staged

ScriptInv == StagingTypeOK /\ StageSound /\ GivenIsOneBuild

RowsTypeOK ==
    /\ rows \in Rows /\ staged \in BuiltSet \cup {NoSet} /\ verified \in BOOLEAN
    /\ listing \subseteq [select : Rel \cup {NoRel}, read : BOOLEAN, found : Rows]
    /\ check \in [Slot -> [set : BuiltSet \cup {NoSet},
                           answer : {"none", "reading", "matches", "differs"}]]
    /\ sound \subseteq BuiltSet

RowsInv == RowsTypeOK /\ ChecksSound /\ SelectionSound

DiskTypeOK ==
    /\ aside \in [build : Build \cup {NoFile}, manifest : File, debs : [Name -> File]]
    /\ fresh \subseteq Build /\ building \in Build \cup {NoFile}
    /\ meddles \in 0..MaxMeddles

PageTypeOK ==
    /\ busy \in {"none", "build", "kernel install"}
    /\ dialog \in [about : {"none", "install", "blocked", "delete"}, rel : Rel \cup {NoRel}]

InstallPageInv == ScriptInv /\ RowsInv /\ DiskTypeOK /\ PageTypeOK /\ InstallsChecked

-----------------------------------------------------------------------------
(* The script.                                                             *)

SetType == [manifest : File, debs : [Name -> File]]

\* No package is a staged set.
LEMMA EmptyType == Empty \in SetType /\ \A n \in Name : Empty.debs[n] = NoFile
BY DEF Empty, NoDebs, SetType, File

\* A script that ends drops what it staged.
LEMMA DieInv ==
    ASSUME ScriptInv, Die, pc # "off"
    PROVE  ScriptInv'
<1>1. StagingTypeOK'
  BY EmptyType DEF ScriptInv, StagingTypeOK, Die, SetType
<1>2. StageSound' /\ GivenIsOneBuild'
  BY EmptyType DEF ScriptInv, Die, StageSound, GivenIsOneBuild, Matches
<1>3. QED
  BY <1>1, <1>2 DEF ScriptInv

\* Every step of the script keeps what it staged one build's.
LEMMA ScriptStepInv ==
    ASSUME ScriptInv, Script
    PROVE  ScriptInv' /\ UNCHANGED dir /\ pc # "off"
<1>0. pc # "off" /\ UNCHANGED dir
  BY DEF Script, Launch, CopyManifest, CopyDeb, InstallStaged, Die
<1>a. dir \in Rel
  BY <1>0 DEF ScriptInv, StagingTypeOK
<1>b. folder[dir].manifest \in File /\ folder[dir].debs \in [Name -> File]
  BY <1>a DEF ScriptInv, StagingTypeOK
<1>1. CASE Die
  BY <1>0, <1>1, DieInv
<1>2. CASE Launch /\ ~Die
  BY <1>2 DEF Launch, ScriptInv, StagingTypeOK, StageSound, GivenIsOneBuild, Matches
<1>3. CASE CopyManifest /\ ~Die
  <2>1. /\ stage' = [Empty EXCEPT !.manifest = folder[dir].manifest]
        /\ todo' \subseteq Name /\ pc' = "debs" /\ UNCHANGED <<folder, dir, given>>
    BY <1>3 DEF CopyManifest
  <2>2. stage' \in SetType /\ \A n \in Name : stage'.debs[n] = NoFile
    BY <2>1, <1>b, EmptyType DEF SetType
  <2>3. StagingTypeOK'
    BY <2>1, <2>2, <1>a DEF ScriptInv, StagingTypeOK, SetType
  <2>4. StageSound' /\ GivenIsOneBuild'
    BY <2>1, <2>2 DEF ScriptInv, StageSound, GivenIsOneBuild, Matches
  <2>5. QED
    BY <1>0, <2>3, <2>4 DEF ScriptInv
<1>4. ASSUME NEW n \in Name, CopyDeb(n), ~Die
      PROVE  ScriptInv'
  <2>1. CASE UNCHANGED stage
    <3>1. todo' = todo \ {n} /\ UNCHANGED <<folder, pc, dir, given>>
      BY <1>4, <2>1 DEF CopyDeb
    <3>2. StagingTypeOK'
      BY <2>1, <3>1 DEF ScriptInv, StagingTypeOK
    <3>3. StageSound' /\ GivenIsOneBuild'
      BY <2>1, <3>1 DEF ScriptInv, StageSound, GivenIsOneBuild, Matches
    <3>4. QED
      BY <3>2, <3>3 DEF ScriptInv
  <2>2. CASE ~UNCHANGED stage
    <3>1. /\ Listed(n) /\ folder[dir].debs[n] = stage.manifest
          /\ stage' = [stage EXCEPT !.debs[n] = folder[dir].debs[n]]
          /\ todo' = todo \ {n} /\ UNCHANGED <<folder, pc, dir, given>>
      BY <1>4, <2>2 DEF CopyDeb
    <3>2. stage \in SetType
      BY DEF ScriptInv, StagingTypeOK, SetType
    <3>3. /\ stage' \in SetType /\ stage'.manifest = stage.manifest
          /\ stage'.debs[n] = stage.manifest
          /\ \A o \in Name \ {n} : stage'.debs[o] = stage.debs[o]
      BY <1>b, <1>4, <3>1, <3>2 DEF SetType
    <3>4. StagingTypeOK'
      BY <3>1, <3>3 DEF ScriptInv, StagingTypeOK, SetType
    <3>5. StageSound'
      BY <3>1, <3>3 DEF ScriptInv, StageSound, Listed
    <3>6. GivenIsOneBuild'
      BY <3>1 DEF ScriptInv, GivenIsOneBuild, Matches
    <3>7. QED
      BY <3>4, <3>5, <3>6 DEF ScriptInv
  <2>3. QED
    BY <2>1, <2>2
<1>5. CASE InstallStaged /\ ~Die
  <2>1. /\ stage.manifest \in Build
        /\ \A n \in Lists[stage.manifest] : stage.debs[n] # NoFile
        /\ given' = stage /\ pc' = "ended" /\ stage' = Empty
        /\ UNCHANGED <<folder, dir, todo>>
    BY <1>5 DEF InstallStaged
  <2>2. Lists[stage.manifest] \subseteq Name
    BY <2>1
  <2>3. GivenIsOneBuild'
    BY <2>1, <2>2 DEF ScriptInv, StageSound, GivenIsOneBuild, Matches
  <2>4. StagingTypeOK' /\ StageSound'
    BY <1>a, <2>1, EmptyType DEF ScriptInv, StagingTypeOK, StageSound, SetType
  <2>5. QED
    BY <1>0, <2>3, <2>4 DEF ScriptInv
<1>6. QED
  BY <1>0, <1>1, <1>2, <1>3, <1>4, <1>5 DEF Script

\* The script keeps its own state in order while others write to the folders.
LEMMA FolderInv ==
    ASSUME ScriptInv, UNCHANGED scriptVars,
           folder' \in [Rel -> [build : Build \cup {NoFile}, manifest : File,
                                debs : [Name -> File]]]
    PROVE  ScriptInv'
BY DEF ScriptInv, StagingTypeOK, StageSound, GivenIsOneBuild, Matches, scriptVars

-----------------------------------------------------------------------------
(* The rows.                                                               *)

\* What is listed and selected has its type.
LEMMA NoRowsType == NoRows \in Rows
BY DEF NoRows, Rows

\* A set that is read or selected is a set of its release.
LEMMA BuiltSetsType == ScriptInv => BuiltSets \in Rows
<1> SUFFICES ASSUME ScriptInv, NEW r \in Rel PROVE BuiltSets[r] \in BuiltSet \cup {NoSet}
  BY DEF BuiltSets, Rows
<1>1. CASE folder[r].manifest \notin Build
  BY <1>1 DEF BuiltSets
<1>2. CASE folder[r].manifest \in Build
  <2>1. Lists[folder[r].manifest] \in SUBSET Name
    BY <1>2
  <2>2. QED
    BY <1>2, <2>1 DEF BuiltSets, BuiltSet
<1>3. QED
  BY <1>1, <1>2

\* A selection begins a check of what it selects.
LEMMA SelectInv ==
    ASSUME RowsInv, NEW set \in BuiltSet \cup {NoSet}, RowSelected(set),
           rows' \in Rows, UNCHANGED sound,
           listing' \subseteq [select : Rel \cup {NoRel}, read : BOOLEAN, found : Rows]
    PROVE  RowsInv'
<1> DEFINE i == CHOOSE j \in Slot : check[j] = NoCheck
<1>1. staged' = set /\ verified' = FALSE
  BY DEF RowSelected
<1>2. CASE set = NoSet
  <2>1. UNCHANGED check
    BY <1>2 DEF RowSelected
  <2>2. QED
    BY <1>1, <1>2, <2>1 DEF RowsInv, RowsTypeOK, ChecksSound, SelectionSound
<1>3. CASE set # NoSet
  <2>1. i \in Slot
    BY <1>3 DEF RowSelected
  <2>2. check' = [check EXCEPT ![i] = [set |-> set, answer |-> "reading"]]
    BY <1>3 DEF RowSelected
  <2> HIDE DEF i
  <2>3. check'[i].set = set /\ check'[i].answer = "reading"
        /\ \A j \in Slot \ {i} : check'[j] = check[j]
    BY <2>1, <2>2 DEF RowsInv, RowsTypeOK
  <2>4. RowsTypeOK'
    BY <1>1, <2>1, <2>2 DEF RowsInv, RowsTypeOK
  <2>5. ChecksSound' /\ SelectionSound'
    BY <1>1, <1>3, <2>1, <2>3 DEF RowsInv, ChecksSound, SelectionSound
  <2>6. QED
    BY <2>4, <2>5 DEF RowsInv
<1>4. QED
  BY <1>2, <1>3

\* Every step of the list and of its checks keeps the rows in order.
LEMMA RowsStepInv ==
    ASSUME ScriptInv, RowsInv,
           \/ ReadBuilds \/ BuiltListed
           \/ \E i \in Slot : ReadSet(i) \/ SetChecked(i)
           \/ \E r \in Rel : ClickRow(r)
    PROVE  RowsInv' /\ sound \subseteq sound'
<1>1. CASE ReadBuilds
  <2>1. PICK l \in listing :
          /\ listing' = (listing \ {l}) \cup {[l EXCEPT !.read = TRUE, !.found = BuiltSets]}
          /\ UNCHANGED <<rows, staged, verified, check, sound>>
    BY <1>1 DEF ReadBuilds
  <2>2. listing' \subseteq [select : Rel \cup {NoRel}, read : BOOLEAN, found : Rows]
    BY <2>1, BuiltSetsType DEF RowsInv, RowsTypeOK
  <2>3. QED
    BY <2>1, <2>2 DEF RowsInv, RowsTypeOK, ChecksSound, SelectionSound
<1>2. CASE BuiltListed
  <2>1. PICK l \in listing :
          /\ listing' = listing \ {l} /\ rows' = l.found /\ UNCHANGED sound
          /\ LET keep  == IF l.select # NoRel THEN l.select ELSE staged.rel
                 found == {l.found[r] : r \in Rel} \ {NoSet}
             IN IF keep # NoRel THEN RowSelected(l.found[keep])
                ELSE IF found = {} THEN RowSelected(NoSet)
                ELSE \E set \in found : RowSelected(set)
    BY <1>2 DEF BuiltListed
  <2>2. l.select \in Rel \cup {NoRel} /\ l.found \in Rows
    BY DEF RowsInv, RowsTypeOK
  <2>3. staged.rel \in Rel \cup {NoRel}
    BY DEF RowsInv, RowsTypeOK, BuiltSet, NoSet
  <2>4. PICK set \in BuiltSet \cup {NoSet} : RowSelected(set)
    BY <2>1, <2>2, <2>3 DEF Rows
  <2>5. listing' \subseteq [select : Rel \cup {NoRel}, read : BOOLEAN, found : Rows]
    BY <2>1 DEF RowsInv, RowsTypeOK
  <2>6. QED
    BY <2>1, <2>2, <2>4, <2>5, SelectInv
<1>3. ASSUME NEW i \in Slot, ReadSet(i)
      PROVE  RowsInv' /\ sound \subseteq sound'
  <2>1. check[i].set \in BuiltSet
    BY <1>3 DEF ReadSet, RowsInv, ChecksSound
  <2>2. PICK a \in {"matches", "differs"} :
          /\ check' = [check EXCEPT ![i].answer = a]
          /\ sound' \in {sound, sound \cup {check[i].set}}
          /\ a = "matches" => check[i].set \in sound'
          /\ UNCHANGED <<rows, staged, verified, listing>>
    BY <1>3 DEF ReadSet
  <2>3. /\ check'[i].set = check[i].set /\ check'[i].answer = a
        /\ \A j \in Slot \ {i} : check'[j] = check[j]
    BY <2>2 DEF RowsInv, RowsTypeOK
  <2>4. RowsTypeOK'
    BY <2>1, <2>2 DEF RowsInv, RowsTypeOK
  <2>5. sound \subseteq sound'
    BY <2>2
  <2>6. ChecksSound'
    BY <2>1, <2>2, <2>3, <2>5 DEF RowsInv, ChecksSound
  <2>7. SelectionSound'
    BY <2>2, <2>3, <2>5 DEF RowsInv, SelectionSound
  <2>8. QED
    BY <2>4, <2>5, <2>6, <2>7 DEF RowsInv
<1>4. ASSUME NEW i \in Slot, SetChecked(i)
      PROVE  RowsInv' /\ sound \subseteq sound'
  <2>1. /\ check' = [check EXCEPT ![i] = NoCheck] /\ check[i].answer \in {"matches", "differs"}
        /\ UNCHANGED <<rows, listing, sound>>
    BY <1>4 DEF SetChecked, Answered
  <2>2. check'[i] = NoCheck /\ \A j \in Slot \ {i} : check'[j] = check[j]
    BY <2>1 DEF RowsInv, RowsTypeOK
  <2>3. NoCheck.set = NoSet /\ NoCheck.answer = "none"
    BY DEF NoCheck
  <2>4. /\ staged' \in {staged, NoSet} /\ verified' \in BOOLEAN
        /\ verified' => staged' \in sound
        /\ staged' # NoSet /\ ~verified' => UNCHANGED <<staged, verified>> /\ check[i].set # staged
    <3>1. CASE check[i].set # staged
      BY <1>4, <3>1 DEF SetChecked, RowsInv, RowsTypeOK, SelectionSound
    <3>2. CASE check[i].set = staged /\ check[i].answer = "matches"
      BY <1>4, <3>2 DEF SetChecked, RowsInv, RowsTypeOK, ChecksSound
    <3>3. CASE check[i].set = staged /\ check[i].answer # "matches"
      BY <1>4, <3>3 DEF SetChecked
    <3>4. QED
      BY <3>1, <3>2, <3>3
  <2>5. RowsTypeOK'
    BY <2>1, <2>4 DEF RowsInv, RowsTypeOK, NoCheck
  <2>6. ChecksSound'
    BY <2>1, <2>2, <2>3 DEF RowsInv, ChecksSound
  <2>7. SelectionSound'
    BY <2>1, <2>2, <2>4 DEF RowsInv, SelectionSound
  <2>8. QED
    BY <2>1, <2>5, <2>6, <2>7 DEF RowsInv
<1>5. ASSUME NEW r \in Rel, ClickRow(r)
      PROVE  RowsInv' /\ sound \subseteq sound'
  <2>1. rows[r] \in BuiltSet \cup {NoSet}
    BY DEF RowsInv, RowsTypeOK, Rows
  <2>2. QED
    BY <1>5, <2>1, SelectInv DEF ClickRow, Quiet, RowsInv, RowsTypeOK
<1>6. QED
  BY <1>1, <1>2, <1>3, <1>4, <1>5

-----------------------------------------------------------------------------
(* The window's other steps, builds, and everybody else.                   *)

\* What start_install does, it does to a set that was checked.
LEMMA StartInstallInv ==
    ASSUME InstallPageInv, StartInstall, UNCHANGED rowVars
    PROVE  ScriptInv' /\ InstallsChecked' /\ busy' \in {"none", "build", "kernel install"}
<1>1. CASE verified /\ staged # NoSet
  <2>1. staged \in sound /\ staged.rel \in Rel
    BY <1>1 DEF InstallPageInv, RowsInv, RowsTypeOK, SelectionSound, BuiltSet
  <2>2. /\ busy' = "kernel install" /\ pc' = "launch" /\ dir' = staged.rel
        /\ UNCHANGED <<folder, todo, stage, given, sound>>
    BY <1>1 DEF StartInstall, rowVars
  <2>3. StagingTypeOK'
    BY <2>1, <2>2 DEF InstallPageInv, ScriptInv, StagingTypeOK
  <2>4. StageSound' /\ GivenIsOneBuild'
    BY <2>2 DEF InstallPageInv, ScriptInv, StageSound, GivenIsOneBuild, Matches
  <2>5. InstallsChecked'
    BY <2>1, <2>2 DEF InstallsChecked
  <2>6. QED
    BY <2>2, <2>3, <2>4, <2>5 DEF ScriptInv
<1>2. CASE ~(verified /\ staged # NoSet)
  <2>1. UNCHANGED <<folder, busy, scriptVars, sound>>
    BY <1>2 DEF StartInstall, rowVars
  <2>2. QED
    BY <2>1, FolderInv
    DEF InstallPageInv, ScriptInv, StagingTypeOK, InstallsChecked, PageTypeOK, scriptVars
<1>3. QED
  BY <1>1, <1>2

\* The rows stay in order while nothing touches them, or a listing begins.
LEMMA RowsKept ==
    ASSUME RowsInv, UNCHANGED <<rows, staged, verified, check, sound>>,
           listing' \subseteq [select : Rel \cup {NoRel}, read : BOOLEAN, found : Rows]
    PROVE  RowsInv'
BY DEF RowsInv, RowsTypeOK, ChecksSound, SelectionSound

\* A listing that begins has the type of one.
LEMMA LoadType ==
    ASSUME RowsInv, NEW r \in Rel \cup {NoRel}, LoadBuilt(r)
    PROVE  listing' \subseteq [select : Rel \cup {NoRel}, read : BOOLEAN, found : Rows]
<1> DEFINE Listing == [select : Rel \cup {NoRel}, read : BOOLEAN, found : Rows]
<1> DEFINE new == [select |-> r, read |-> FALSE, found |-> NoRows]
<1>1. new \in Listing
  BY NoRowsType
<1>2. listing \subseteq Listing /\ listing' = listing \cup {new}
  BY DEF RowsInv, RowsTypeOK, LoadBuilt
<1> HIDE DEF new, Listing
<1>3. listing' \subseteq Listing
  BY <1>1, <1>2
<1>4. QED
  BY <1>3 DEF Listing

\* What publish leaves in a folder has its type.
LEMMA PublishedType ==
    ASSUME NEW b \in Build
    PROVE  Published(b) \in [build : Build \cup {NoFile}, manifest : File, debs : [Name -> File]]
BY DEF Published, File

\* So has a folder that is gone.
LEMMA GoneType == Gone \in [build : Build \cup {NoFile}, manifest : File, debs : [Name -> File]]
BY DEF Gone, NoDebs, File

\* The clicks and their dialogs.
LEMMA ClickInv ==
    ASSUME InstallPageInv,
           ClickDelete \/ AnswerDelete \/ ClickInstall \/ AnswerInstall \/ InstallEnded
    PROVE  InstallPageInv'
<1> USE DEF InstallPageInv
<1>0. staged.rel \in Rel \cup {NoRel}
  BY DEF RowsInv, RowsTypeOK, BuiltSet, NoSet
<1>1. CASE ClickDelete
  <2>1. UNCHANGED <<folder, scriptVars, diskVars, rowVars, busy>>
        /\ dialog' = [about |-> "delete", rel |-> staged.rel]
    BY <1>1 DEF ClickDelete, Quiet, rowVars
  <2>2. PageTypeOK' /\ DiskTypeOK'
    BY <1>0, <2>1 DEF PageTypeOK, DiskTypeOK, diskVars
  <2>3. ScriptInv' /\ RowsInv' /\ InstallsChecked'
    BY <2>1, FolderInv, RowsKept
    DEF ScriptInv, StagingTypeOK, RowsInv, RowsTypeOK, InstallsChecked, rowVars, scriptVars
  <2>4. QED
    BY <2>2, <2>3
<1>2. CASE AnswerDelete
  <2>1. PageTypeOK' /\ DiskTypeOK'
    BY <1>2 DEF AnswerDelete, Quiet, PageTypeOK, DiskTypeOK, diskVars, NoDialog
  <2>2. ScriptInv' /\ InstallsChecked'
    <3>1. folder' \in {folder, [folder EXCEPT ![dialog.rel] = Gone]}
          /\ UNCHANGED <<scriptVars, sound>>
      BY <1>2 DEF AnswerDelete, Quiet
    <3> DEFINE Set == [build : Build \cup {NoFile}, manifest : File, debs : [Name -> File]]
    <3>2. folder \in [Rel -> Set] /\ Gone \in Set
      BY GoneType DEF ScriptInv, StagingTypeOK
    <3> HIDE DEF Set
    <3>3. folder' \in [Rel -> Set]
      BY <3>1, <3>2
    <3>4. ScriptInv'
      BY <3>1, <3>3, FolderInv DEF Set
    <3>5. QED
      BY <3>1, <3>4 DEF InstallsChecked, scriptVars
  <2>3. RowsInv'
    <3>1. CASE UNCHANGED <<staged, verified, listing>>
      BY <1>2, <3>1, RowsKept DEF AnswerDelete, Quiet, RowsInv, RowsTypeOK
    <3>2. CASE staged' = NoSet /\ verified' = FALSE /\ LoadBuilt(NoRel)
      <4>1. listing' \subseteq [select : Rel \cup {NoRel}, read : BOOLEAN, found : Rows]
        BY <3>2, LoadType
      <4>2. UNCHANGED <<rows, check, sound>>
        BY <1>2 DEF AnswerDelete, Quiet
      <4>3. QED
        BY <3>2, <4>1, <4>2 DEF RowsInv, RowsTypeOK, ChecksSound, SelectionSound
    <3>3. QED
      BY <1>2, <3>1, <3>2 DEF AnswerDelete
  <2>4. QED
    BY <2>1, <2>2, <2>3
<1>3. CASE ClickInstall \/ AnswerInstall
  <2>1. UNCHANGED rowVars /\ UNCHANGED diskVars
    BY <1>3 DEF ClickInstall, AnswerInstall, Quiet, rowVars
  <2>2. RowsInv' /\ DiskTypeOK'
    BY <2>1, RowsKept DEF RowsInv, RowsTypeOK, DiskTypeOK, rowVars, diskVars
  <2>3. dialog' \in [about : {"none", "install", "blocked", "delete"}, rel : Rel \cup {NoRel}]
    <3>1. CASE ClickInstall
      <4>1. dialog' \in {[about |-> "blocked", rel |-> NoRel],
                          [about |-> "install", rel |-> NoRel], dialog}
        BY <3>1 DEF ClickInstall
      <4>2. CASE dialog' = dialog
        BY <4>2 DEF PageTypeOK
      <4>3. CASE dialog' # dialog
        BY <4>1, <4>3
      <4>4. QED
        BY <4>2, <4>3
    <3>2. CASE AnswerInstall
      BY <3>2 DEF AnswerInstall, NoDialog
    <3>3. QED
      BY <1>3, <3>1, <3>2
  <2>4. StartInstall \/ UNCHANGED <<folder, busy, scriptVars>>
    BY <1>3 DEF ClickInstall, AnswerInstall
  <2>5. CASE StartInstall
    BY <2>1, <2>2, <2>3, <2>5, StartInstallInv DEF PageTypeOK
  <2>6. CASE UNCHANGED <<folder, busy, scriptVars>>
    <3>1. ScriptInv' /\ InstallsChecked'
      BY <2>1, <2>6, FolderInv
      DEF ScriptInv, StagingTypeOK, InstallsChecked, scriptVars, rowVars
    <3>2. QED
      BY <2>2, <2>3, <2>6, <3>1 DEF PageTypeOK
  <2>7. QED
    BY <2>4, <2>5, <2>6
<1>4. CASE InstallEnded
  <2>1. /\ pc' = "off" /\ dir' = NoRel /\ given' = Empty /\ busy' = "none"
        /\ UNCHANGED <<folder, todo, stage, dialog, diskVars, rowVars>>
    BY <1>4 DEF InstallEnded, Quiet, rowVars
  <2>2. StagingTypeOK'
    BY <2>1, EmptyType DEF ScriptInv, StagingTypeOK, SetType
  <2>3. StageSound' /\ GivenIsOneBuild' /\ InstallsChecked'
    BY <2>1 DEF ScriptInv, StageSound, GivenIsOneBuild, InstallsChecked
  <2>4. RowsInv' /\ DiskTypeOK' /\ PageTypeOK'
    BY <2>1, RowsKept
    DEF RowsInv, RowsTypeOK, DiskTypeOK, PageTypeOK, rowVars, diskVars
  <2>5. QED
    BY <2>2, <2>3, <2>4 DEF ScriptInv
<1>5. QED
  BY <1>1, <1>2, <1>3, <1>4

\* The folders change under builds and under others, and nothing else does.
LEMMA DiskInv ==
    ASSUME InstallPageInv,
           MoveAside \/ BuildEnds \/ SomebodyElse \/ \E b \in Build : StartBuild(b)
    PROVE  InstallPageInv'
<1> USE DEF InstallPageInv
<1> DEFINE Set == [build : Build \cup {NoFile}, manifest : File, debs : [Name -> File]]
<1>0. folder \in [Rel -> Set] /\ aside \in Set
  BY DEF ScriptInv, StagingTypeOK, DiskTypeOK
<1>a. Gone \in Set /\ \A b \in Build : Published(b) \in Set
  BY GoneType, PublishedType
<1> HIDE DEF Set
<1>1. UNCHANGED <<scriptVars, sound, rows, staged, verified, check, dialog>>
  BY DEF MoveAside, BuildEnds, SomebodyElse, StartBuild, rowVars, pageVars
<1>2. folder' \in [Rel -> Set] /\ aside' \in Set /\ meddles' \in 0..MaxMeddles
      /\ fresh' \subseteq Build /\ building' \in Build \cup {NoFile}
      /\ busy' \in {"none", "build", "kernel install"}
  <2>1. CASE MoveAside
    <3>1. Target \in Rel
      BY <2>1 DEF MoveAside, Target, DiskTypeOK
    <3>2. folder[Target] \in Set
      BY <1>0, <3>1
    <3>3. folder' = [folder EXCEPT ![Target] = Gone] /\ aside' = folder[Target]
          /\ UNCHANGED <<fresh, building, meddles, busy>>
      BY <2>1 DEF MoveAside, pageVars
    <3>4. QED
      BY <1>0, <1>a, <3>1, <3>2, <3>3 DEF DiskTypeOK, PageTypeOK
  <2>2. CASE BuildEnds
    <3>1. building \in Build /\ Target \in Rel
      BY <2>2 DEF BuildEnds, Target, DiskTypeOK
    <3>2. Published(building) \in Set
      BY <1>a, <3>1
    <3>3. folder' \in {[folder EXCEPT ![Target] = Published(building)], folder,
                       [folder EXCEPT ![Target] = aside]}
      BY <2>2 DEF BuildEnds
    <3>4. folder' \in [Rel -> Set]
      BY <1>0, <3>1, <3>2, <3>3
    <3>5. QED
      BY <1>a, <2>2, <3>4 DEF BuildEnds, DiskTypeOK
  <2>3. CASE SomebodyElse
    <3>1. PICK r \in Rel, n \in Name, c \in {NoFile, Junk} :
            folder' \in {[folder EXCEPT ![r].manifest = NoFile],
                         [folder EXCEPT ![r].debs[n] = c]}
      BY <2>3 DEF SomebodyElse
    <3>2. NoFile \in File /\ c \in File
      BY DEF File
    <3>3. folder' \in [Rel -> Set]
      <4>1. folder[r] \in Set
        BY <1>0
      <4>2. /\ [folder[r] EXCEPT !.manifest = NoFile] \in Set
            /\ [folder[r] EXCEPT !.debs[n] = c] \in Set
        BY <3>2, <4>1 DEF Set
      <4>3. folder' \in {[folder EXCEPT ![r] = [folder[r] EXCEPT !.manifest = NoFile]],
                          [folder EXCEPT ![r] = [folder[r] EXCEPT !.debs[n] = c]]}
        BY <1>0, <3>1, <4>1 DEF Set
      <4>4. QED
        BY <1>0, <4>2, <4>3
    <3>4. meddles' \in 0..MaxMeddles /\ UNCHANGED <<aside, fresh, building, busy>>
      BY <2>3 DEF SomebodyElse, DiskTypeOK, pageVars
    <3>5. QED
      BY <1>0, <3>3, <3>4 DEF DiskTypeOK, PageTypeOK
  <2>4. CASE \E b \in Build : StartBuild(b)
    BY <1>0, <2>4 DEF StartBuild, DiskTypeOK
  <2>5. QED
    BY <2>1, <2>2, <2>3, <2>4
<1>3. listing' \subseteq [select : Rel \cup {NoRel}, read : BOOLEAN, found : Rows]
  <2>1. CASE UNCHANGED listing
    BY <2>1 DEF RowsInv, RowsTypeOK
  <2>2. CASE LoadBuilt(Target) /\ BuildEnds
    <3>1. Target \in Rel
      BY <2>2 DEF BuildEnds, Target, DiskTypeOK
    <3>2. QED
      BY <2>2, <3>1, LoadType
  <2>3. QED
    BY <2>1, <2>2 DEF MoveAside, BuildEnds, SomebodyElse, StartBuild, rowVars
<1>4. ScriptInv' /\ InstallsChecked'
  BY <1>1, <1>2, FolderInv DEF InstallsChecked, scriptVars, Set
<1>5. RowsInv'
  BY <1>1, <1>3, RowsKept
<1>6. QED
  BY <1>1, <1>2, <1>4, <1>5 DEF DiskTypeOK, PageTypeOK, Set

-----------------------------------------------------------------------------
(* The theorems.                                                           *)

\* The parts make up the type invariant.
LEMMA Parts ==
    InstallPageInv => TypeOK /\ GivenIsOneBuild /\ InstallsChecked
BY DEF InstallPageInv, ScriptInv, RowsInv, RowsTypeOK, DiskTypeOK, PageTypeOK, TypeOK

\* The window opens with nothing selected, over what earlier sessions left.
LEMMA InitInv == Init => InstallPageInv
<1> SUFFICES ASSUME Init PROVE InstallPageInv
  OBVIOUS
<1>1. folder \in [Rel -> [build : Build \cup {NoFile}, manifest : File, debs : [Name -> File]]]
  <2> DEFINE Set == [build : Build \cup {NoFile}, manifest : File, debs : [Name -> File]]
  <2>1. Gone \in Set /\ \A b \in Build : Published(b) \in Set
    BY GoneType, PublishedType
  <2> HIDE DEF Set
  <2>2. ASSUME NEW r \in Rel
        PROVE  (IF \E b \in Earlier : ReleaseOf[b] = r
                THEN Published(CHOOSE b \in Earlier : ReleaseOf[b] = r) ELSE Gone) \in Set
    <3>1. CASE \E b \in Earlier : ReleaseOf[b] = r
      <4>1. (CHOOSE b \in Earlier : ReleaseOf[b] = r) \in Earlier
        BY <3>1
      <4>2. QED
        BY <2>1, <3>1, <4>1
    <3>2. CASE ~\E b \in Earlier : ReleaseOf[b] = r
      BY <2>1, <3>2
    <3>3. QED
      BY <3>1, <3>2
  <2>3. folder \in [Rel -> Set]
    BY <2>2 DEF Init
  <2>4. QED
    BY <2>3 DEF Set
<1>2. ScriptInv
  BY <1>1, EmptyType
  DEF Init, StagingInit, ScriptInv, StagingTypeOK, StageSound, GivenIsOneBuild, SetType
<1>3. RowsInv
  <2>1. listing \subseteq [select : Rel \cup {NoRel}, read : BOOLEAN, found : Rows]
    BY NoRowsType DEF Init
  <2>2. NoCheck.set = NoSet /\ NoCheck.answer = "none"
    BY DEF NoCheck
  <2>3. RowsTypeOK
    BY <2>1, NoRowsType DEF Init, RowsTypeOK, NoCheck
  <2>4. ChecksSound /\ SelectionSound
    BY <2>2 DEF Init, ChecksSound, SelectionSound
  <2>5. QED
    BY <2>3, <2>4 DEF RowsInv
<1>4. DiskTypeOK /\ PageTypeOK /\ InstallsChecked
  BY GoneType DEF Init, StagingInit, DiskTypeOK, PageTypeOK, InstallsChecked, NoDialog
<1>5. QED
  BY <1>2, <1>3, <1>4 DEF InstallPageInv

\* Every step keeps the invariant.
LEMMA StepInv == InstallPageInv /\ [Next]_vars => InstallPageInv'
<1> SUFFICES ASSUME InstallPageInv, [Next]_vars PROVE InstallPageInv'
  OBVIOUS
<1>1. ASSUME UNCHANGED <<folder, scriptVars, diskVars, pageVars>>, RowsInv', sound \subseteq sound'
      PROVE  InstallPageInv'
  <2>1. ScriptInv' /\ DiskTypeOK' /\ PageTypeOK'
    BY <1>1, FolderInv
    DEF InstallPageInv, ScriptInv, StagingTypeOK, DiskTypeOK, PageTypeOK, diskVars, pageVars
  <2>2. InstallsChecked'
    BY <1>1 DEF InstallPageInv, InstallsChecked, scriptVars
  <2>3. QED
    BY <1>1, <2>1, <2>2 DEF InstallPageInv
<1>2. CASE UNCHANGED vars
  <2>1. RowsInv'
    BY <1>2, RowsKept DEF vars, rowVars, InstallPageInv, RowsInv, RowsTypeOK
  <2>2. QED
    BY <1>1, <1>2, <2>1 DEF vars, rowVars
<1>3. CASE \/ ReadBuilds \/ BuiltListed
           \/ \E i \in Slot : ReadSet(i) \/ SetChecked(i)
           \/ \E r \in Rel : ClickRow(r)
  <2>1. RowsInv' /\ sound \subseteq sound'
    BY <1>3, RowsStepInv DEF InstallPageInv
  <2>2. UNCHANGED <<folder, scriptVars, diskVars, pageVars>>
    BY <1>3
    DEF ReadBuilds, BuiltListed, ReadSet, SetChecked, ClickRow, Quiet, pageVars
  <2>3. QED
    BY <1>1, <2>1, <2>2
<1>4. CASE ScriptStep
  <2>1. ScriptInv' /\ UNCHANGED dir /\ pc # "off"
    BY <1>4, ScriptStepInv DEF ScriptStep, InstallPageInv
  <2>2. RowsInv' /\ DiskTypeOK' /\ PageTypeOK'
    BY <1>4, RowsKept
    DEF ScriptStep, InstallPageInv, RowsInv, RowsTypeOK, DiskTypeOK, PageTypeOK, rowVars,
        diskVars, pageVars
  <2>3. InstallsChecked'
    BY <1>4, <2>1 DEF ScriptStep, InstallPageInv, InstallsChecked, rowVars
  <2>4. QED
    BY <2>1, <2>2, <2>3 DEF InstallPageInv
<1>5. QED
  BY <1>2, <1>3, <1>4, ClickInv, DiskInv DEF Next

\* The invariant holds in every state.
LEMMA Invariant == Spec => []InstallPageInv
  BY InitInv, StepInv, PTL DEF Spec

\* Every variable of the Install tab and of the script's staging keeps its type.
THEOREM InstallPageTypeCorrect == Spec => []TypeOK
  BY Invariant, Parts, PTL

\* dpkg is only ever given one build's packages, all of them and no others, for
\* any number of builds and whatever is written to the folders meanwhile
\* (stage_verified_debs).
THEOREM OneBuildGiven == Spec => []GivenIsOneBuild
  BY Invariant, Parts, PTL

\* "SHA256" stands only beside a set a check has found to match, for any number
\* of checks that answer in any order (connect_row_selected).
THEOREM TabTruthful == Spec => []TabIsTruthful
<1>1. InstallPageInv => TabIsTruthful
  BY DEF InstallPageInv, RowsInv, SelectionSound, TabIsTruthful, Badge
<1>2. QED
  BY <1>1, Invariant, PTL

\* The script is only started for a folder whose set was checked (start_install).
THEOREM CheckedInstalled == Spec => []InstallsChecked
  BY Invariant, Parts, PTL
=============================================================================
