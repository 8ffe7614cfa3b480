------------------------------- MODULE Source -------------------------------
(***************************************************************************)
(* The source of a build: from the file a user chose to the tree that is   *)
(* unpacked (src/source.rs, src/verify.rs, the Build page of src/ui.rs).   *)
(*                                                                         *)
(* The GTK thread runs one callback at a time; a check runs on threads of  *)
(* its own and its answer comes back as a callback.  Everybody else may    *)
(* change the user's files at any time, but not the private copy.  Under a *)
(* dialog the window takes no clicks; a file can still be dropped on it.   *)
(* Downloads are those of Download.                                        *)
(***************************************************************************)
EXTENDS Download, FiniteSets

CONSTANTS
    Path,    \* the tarballs in the user's folders
    NoPath   \* no tarball

ASSUME SourceAssumption == NoPath \notin Path

\* A release, a tree signed by a developer who signs no releases, the user's
\* own tree, a release cut short, and a tree with more beside its directory.
Content  == {"release", "developer", "own", "cut", "astray"}
Released == {"release"}
Trees    == {"release", "developer", "own"}

\* Who made a .tar.sign, and over which content; one may be cut short.
Signature == {"releasesig", "developersig", "cutsig"}
Signs     == [releasesig |-> "release", developersig |-> "developer"]
Signer    == [releasesig |-> "release signer", developersig |-> "developer",
              cutsig |-> "release signer"]

VARIABLES
    file,       \* what each of the user's tarballs holds
    sibling,    \* the .tar.sign next to it, or "none"
    copy,       \* what the private copy holds, or "none"
    \* the window
    busy,       \* AppState.busy
    dialog,     \* the override dialog is open
    source,     \* AppState.source: the file it was copied from
    signature,  \* AppState.signature
    allow,      \* AppState.allow_unverified
    \* the thread of set_source
    pc,         \* its next step, "idle" when there is none
    path,       \* the tarball it was given
    sig,        \* the signature it found
    keyring,    \* whose keys it fetched
    verdict,    \* its answer
    \* the build
    unpacking,  \* the trust of the build that is about to unpack, or "none"
    built,      \* what is built, and under which trust
    \* history: the user's word
    asked,      \* what the private copy held when the dialog was opened
    consented,  \* what it held when the question was asked that was answered
                \* yes, "none" after a no and for a source chosen since
    overtaken   \* the source was chosen under the dialog

diskVars   == <<file, sibling, copy>>
pageVars   == <<source, signature, allow>>
threadVars == <<pc, path, sig, keyring, verdict>>
buildVars  == <<unpacking, built>>
wordVars   == <<asked, consented, overtaken>>
vars == <<diskVars, busy, dialog, pageVars, threadVars, buildVars, wordVars,
          downloadVars>>

BusyStates == {"none", "signature check", "download", "build"}
SigStates  == {"none", "checking", "verified", "failed"}
Builds == [content : Content, trust : {"verified", "unverified"}]
          \cup {[content |-> "none", trust |-> "none"]}
Verdicts   == {"none", "not a source", "good", "not verified"}
Steps == {"idle", "inspect", "copy", "look", "fetch", "fetching", "keys", "gpgv",
          "answer"}

TypeOK ==
    /\ file \in [Path -> Content]
    /\ sibling \in [Path -> Signature \cup {"none"}]
    /\ copy \in Content \cup {"none"}
    /\ busy \in BusyStates
    /\ dialog \in BOOLEAN
    /\ source \in Path \cup {NoPath}
    /\ signature \in SigStates
    /\ allow \in BOOLEAN
    /\ pc \in Steps
    /\ path \in Path
    /\ sig \in Signature \cup {"none"}
    /\ keyring \subseteq {"release signer", "developer"}
    /\ verdict \in Verdicts
    /\ unpacking \in {"none", "verified", "unverified"}
    /\ built \in Builds
    /\ asked \in Content \cup {"none"} /\ consented \in Content \cup {"none"}
    /\ overtaken \in BOOLEAN
    /\ DownloadTypeOK

Init ==
    /\ file \in [Path -> {"release", "own"}]
    /\ sibling \in [Path -> {"releasesig", "none"}]
    /\ copy \in {"own", "none"}               \* left by an earlier session
    /\ busy = "none" /\ dialog = FALSE
    /\ source = NoPath /\ signature = "none" /\ allow = FALSE
    /\ pc = "idle" /\ path \in Path /\ sig = "none"
    /\ keyring = {} /\ verdict = "none"
    /\ unpacking = "none" /\ built = [content |-> "none", trust |-> "none"]
    /\ asked = "none" /\ consented = "none" /\ overtaken = FALSE
    /\ DownloadInit

-----------------------------------------------------------------------------
(* AppState and the thread of set_source.                                  *)

\* The trust a build of the source would carry.
SourceTrustNow ==
    IF signature = "verified" THEN "verified"
    ELSE IF signature = "failed" /\ allow THEN "unverified"
    ELSE "none"

\* The build tools and the choice of a configuration are not modelled: a build
\* may always fail for want of one.
CanBuild == source # NoPath /\ SourceTrustNow # "none"

\* update_source_rows: what the signature row says, and whether Check Again and
\* the override are offered.
SignatureRow ==
    [text |-> CASE signature = "none" -> "-"
                [] signature = "checking" -> "Checking"
                [] signature = "verified" -> "Good signature"
                [] signature = "failed" -> "NOT VERIFIED",
     offered |-> signature = "failed"]

ThreadOnly == UNCHANGED <<file, sibling, busy, dialog, pageVars, buildVars,
                          wordVars, downloadVars>>
Goto(step) == pc' = step /\ UNCHANGED <<path>>
Answer(v) == verdict' = v /\ Goto("answer")

\* inspect: it is a compressed tarball, under one top directory as far as its
\* Makefile, or it is not.
Inspect ==
    /\ pc = "inspect"
    /\ \/ Goto("copy") /\ UNCHANGED verdict
       \/ Answer("not a source")
    /\ UNCHANGED <<copy, sig, keyring>> /\ ThreadOnly

\* private_copy: the directory is emptied, the file copied, and the copy
\* inspected.  The file may have been replaced since.
PrivateCopy ==
    /\ pc = "copy"
    /\ \/ /\ copy' = file[path]
          /\ \/ Goto("look") /\ UNCHANGED verdict
             \/ Answer("not a source")                  \* another version by now
       \/ copy' = "none" /\ Answer("not a source")    \* no room, or unreadable
    /\ UNCHANGED <<sig, keyring>> /\ ThreadOnly

\* The signature next to the user's file, or else kernel.org's.
LookForSignature ==
    /\ pc = "look"
    /\ sig' = sibling[path]
    /\ Goto(IF sibling[path] = "none" THEN "fetch" ELSE "keys")
    /\ UNCHANGED <<copy, keyring, verdict>> /\ ThreadOnly

\* fetch_signature, by the version in the Makefile: a download of its own,
\* which nobody can cancel.
FetchSignature ==
    /\ pc = "fetch"
    /\ BeginDownload(<<"signature">>)
    /\ Goto("fetching")
    /\ UNCHANGED <<file, sibling, copy, busy, dialog, pageVars, sig, keyring,
                   verdict, buildVars, wordVars>>

SignatureFetched ==
    /\ pc = "fetching" /\ CollectDownload
    /\ IF outcome = "done"
       THEN Goto("keys") /\ UNCHANGED verdict
       ELSE Answer("not verified")
    /\ UNCHANGED <<file, sibling, copy, busy, dialog, pageVars, sig, keyring,
                   buildVars, wordVars>>

\* The release signers, and the developer a signature names.
KeysWanted(s) == {"release signer", Signer[s]}

\* The user's signature is read where it lies, for its signer and then by gpgv:
\* each may find another one there.
SignatureNow == {sig} \cup ({sibling[path]} \ {"none"})

\* Some of their keys are found.  A key ring without a key is an error.
FetchKeys ==
    /\ pc = "keys"
    /\ \/ Answer("not verified") /\ UNCHANGED keyring
       \/ /\ \E s \in SignatureNow : keyring' \in SUBSET KeysWanted(s) \ {{}}
          /\ Goto("gpgv") /\ UNCHANGED verdict
    /\ UNCHANGED <<copy, sig>> /\ ThreadOnly

-----------------------------------------------------------------------------
(* gpgv and its answer.                                                    *)

\* What gpgv may report of content c under signature s.
GpgvStatus(c, s) ==
    IF s = "cutsig" THEN {{"NODATA"}, {"ERRSIG"}}
    ELSE IF Signer[s] \notin keyring THEN {{"ERRSIG", "NO_PUBKEY"}}
    ELSE IF Signs[s] = c
    THEN {{"GOODSIG", "VALIDSIG"}, {"EXPKEYSIG", "VALIDSIG"},
          {"REVKEYSIG", "VALIDSIG"}, {"EXPSIG", "VALIDSIG"}}
    ELSE {{"BADSIG"}, {"NODATA"}}

Reasons == {"BADSIG", "EXPKEYSIG", "REVKEYSIG", "EXPSIG", "NODATA", "ERRSIG"}

\* parse_gpgv_status: good and valid, and nothing said against it.
ParseGpgvStatus(status) ==
    IF {"GOODSIG", "VALIDSIG"} \subseteq status /\ status \cap Reasons = {} THEN "good"
    ELSE IF "NO_PUBKEY" \in status THEN "missing key"
    ELSE "bad"

\* gpgv_tarball: a tarball that does not decompress is damaged, whatever gpgv
\* says of the part it read.
GpgvTarball(c, status) ==
    IF c = "cut" THEN "bad" ELSE ParseGpgvStatus(status)

\* Mutant: gpgv is given the user's file.
JudgeOriginal ==
    /\ pc = "gpgv"
    /\ \E s \in SignatureNow : \E status \in GpgvStatus(file[path], s) :
         Answer(IF /\ GpgvTarball(file[path], status) = "good"
                   /\ Signer[s] = "release signer"
                THEN "good" ELSE "not verified")
    /\ UNCHANGED <<copy, sig, keyring>> /\ ThreadOnly

\* verify_tarball's verdict on the private copy: a good signature, of one who
\* signs releases.
JudgeTarball ==
    /\ pc = "gpgv"
    /\ \E s \in SignatureNow : \E status \in GpgvStatus(copy, s) :
         Answer(IF /\ GpgvTarball(copy, status) = "good"
                   /\ Signer[s] = "release signer"
                THEN "good" ELSE "not verified")
    /\ UNCHANGED <<copy, sig, keyring>> /\ ThreadOnly

-----------------------------------------------------------------------------
(* The GTK thread: choosing a source.                                      *)

Idle == busy = "none"
Clickable == Idle /\ ~dialog

\* Mutant: the override of the source before is still in force.
SetSourceKeepsOverride(p) ==
    /\ busy' = "signature check"
    /\ source' = NoPath /\ signature' = "checking"
    /\ UNCHANGED <<allow, asked>> /\ consented' = "none" /\ overtaken' = dialog
    /\ pc' = "inspect" /\ path' = p
    /\ sig' = "none" /\ keyring' = {} /\ verdict' = "none"

\* set_source: nothing is selected while the check runs.
SetSource(p) ==
    /\ busy' = "signature check"
    /\ source' = NoPath /\ signature' = "checking"
    /\ allow' = FALSE /\ consented' = "none" /\ overtaken' = dialog /\ UNCHANGED asked
    /\ pc' = "inspect" /\ path' = p
    /\ sig' = "none" /\ keyring' = {} /\ verdict' = "none"

\* Open Tarball..., or Check Again with the user's file, not its copy.
OpenTarball(p) ==
    /\ Clickable
    /\ SetSource(p)
    /\ UNCHANGED <<diskVars, dialog, buildVars, downloadVars>>

CheckAgain ==
    /\ Clickable /\ source # NoPath /\ SignatureRow.offered
    /\ SetSource(source)
    /\ UNCHANGED <<diskVars, dialog, buildVars, downloadVars>>

\* A file dropped anywhere on the window.
DropTarball(p) ==
    /\ Idle
    /\ SetSource(p)
    /\ UNCHANGED <<diskVars, dialog, buildVars, downloadVars>>

\* The callback of the check.
SourceChecked ==
    /\ pc = "answer"
    /\ busy' = "none" /\ pc' = "idle"
    /\ CASE verdict = "not a source" -> signature' = "none" /\ UNCHANGED source
         [] verdict = "good" -> signature' = "verified" /\ source' = path
         [] OTHER -> signature' = "failed" /\ source' = path
    /\ sig' = "none" /\ keyring' = {} /\ verdict' = "none"
    /\ UNCHANGED <<diskVars, dialog, allow, path, buildVars, wordVars, downloadVars>>

\* The Download button: the tarball, and its signature if one is published.
StartDownload(p) ==
    /\ Clickable
    /\ busy' = "download" /\ path' = p
    /\ \E files \in {<<"tarball">>, <<"tarball", "signature">>} : BeginDownload(files)
    /\ UNCHANGED <<diskVars, dialog, pageVars, pc, sig, keyring, verdict, buildVars,
                   wordVars>>

CancelDownload ==
    /\ busy = "download" /\ ~cancel
    /\ cancel' = TRUE
    /\ UNCHANGED <<queue, transfer, attempt, known, part, outcome, diskVars, busy,
                   dialog, pageVars, threadVars, buildVars, wordVars>>

\* A file takes its real name; the signature of a check may be the sibling of
\* the tarball or not.
PlaceFile ==
    /\ Placed
    /\ LET tarball == IF part = "all" THEN "release" ELSE "cut"
           tarSign == IF part = "all" THEN "releasesig" ELSE "cutsig"
           next    == [sibling EXCEPT ![path] = tarSign]
       IN IF Head(queue) = "tarball"
          THEN file' = [file EXCEPT ![path] = tarball] /\ UNCHANGED <<sibling, sig>>
          ELSE IF busy = "download"
          THEN sibling' = next /\ UNCHANGED <<file, sig>>
          ELSE sig' = tarSign /\ sibling' \in {sibling, next} /\ UNCHANGED file
    /\ UNCHANGED <<copy, busy, dialog, pageVars, pc, path, keyring, verdict,
                   buildVars, wordVars>>

\* A file that was downloaded becomes the source.
EndDownload ==
    /\ busy = "download" /\ CollectDownload
    /\ IF outcome = "done"
       THEN SetSource(path)
       ELSE busy' = "none" /\ UNCHANGED <<pageVars, threadVars, wordVars>>
    /\ UNCHANGED <<diskVars, dialog, buildVars>>

(* The override.                                                           *)

PageOnly == UNCHANGED <<diskVars, busy, source, signature, threadVars, buildVars,
                        downloadVars>>

\* The switch shows after a failed check and opens a dialog.
AskOverride ==
    /\ Clickable /\ SignatureRow.offered /\ ~allow
    /\ dialog' = TRUE
    /\ asked' = copy /\ overtaken' = FALSE
    /\ UNCHANGED <<allow, consented>> /\ PageOnly

\* Its answer is stored for the source that is selected by then.
AnswerOverride ==
    /\ dialog
    /\ dialog' = FALSE
    /\ \E yes \in BOOLEAN :
         allow' = yes /\ consented' = (IF yes THEN asked ELSE "none")
    /\ asked' = "none"
    /\ UNCHANGED overtaken /\ PageOnly

\* Turning the switch off asks nothing.
DropOverride ==
    /\ Clickable /\ SignatureRow.offered /\ allow
    /\ allow' = FALSE /\ consented' = "none"
    /\ UNCHANGED <<dialog, asked, overtaken>> /\ PageOnly

-----------------------------------------------------------------------------
(* The build.                                                              *)

\* The Build button, with the trust the source has now.
StartBuild ==
    /\ Clickable /\ CanBuild
    /\ unpacking' = SourceTrustNow
    /\ busy' = "build"
    /\ UNCHANGED <<diskVars, dialog, pageVars, threadVars, built, wordVars, downloadVars>>

\* Mutant: the user's file is unpacked, not the copy that was checked.
UnpackOriginal ==
    /\ unpacking # "none"
    /\ built' = [content |-> file[source], trust |-> unpacking]
    /\ unpacking' = "none"
    /\ UNCHANGED <<diskVars, busy, dialog, pageVars, threadVars, wordVars, downloadVars>>

\* check_single_top_dir: tar can list it to the end, under one directory.
SingleTopDir(c) == c \in Trees

\* prepare() unpacks the private copy, if it gets so far.
Unpack ==
    /\ unpacking # "none"
    /\ \/ /\ SingleTopDir(copy)
          /\ built' = [content |-> copy, trust |-> unpacking]
       \/ UNCHANGED built
    /\ unpacking' = "none"
    /\ UNCHANGED <<diskVars, busy, dialog, pageVars, threadVars, wordVars, downloadVars>>

EndBuild ==
    /\ busy = "build" /\ unpacking = "none"
    /\ busy' = "none"
    /\ built' = [content |-> "none", trust |-> "none"]
    /\ UNCHANGED <<diskVars, dialog, pageVars, threadVars, unpacking, wordVars,
                   downloadVars>>

-----------------------------------------------------------------------------
\* Anybody may write to the user's folders.
SomebodyElse ==
    /\ \E p \in Path :
         \/ \E c \in Content : file' = [file EXCEPT ![p] = c] /\ UNCHANGED sibling
         \/ \E s \in Signature : sibling' = [sibling EXCEPT ![p] = s] /\ UNCHANGED file
    /\ UNCHANGED <<copy, busy, dialog, pageVars, threadVars, buildVars, wordVars,
                   downloadVars>>

Thread == Inspect \/ PrivateCopy \/ LookForSignature \/ FetchSignature
          \/ SignatureFetched \/ FetchKeys \/ JudgeTarball

Transfer ==
    Transferring /\ UNCHANGED <<diskVars, busy, dialog, pageVars, threadVars, buildVars,
                                wordVars>>

Next ==
    \/ Thread \/ Transfer \/ PlaceFile
    \/ SourceChecked \/ EndDownload \/ CancelDownload \/ CheckAgain
    \/ \E p \in Path : OpenTarball(p) \/ DropTarball(p) \/ StartDownload(p)
    \/ AskOverride \/ AnswerOverride \/ DropOverride
    \/ StartBuild \/ Unpack \/ EndBuild \/ SomebodyElse

Spec == Init /\ [][Next]_vars

\* The download goes on: an attempt and a read of the stream are answered, or
\* end by the client's time limits, within a minute or so.  A stream as a whole has
\* no limit, the check of a source has none either, and nobody has to click.
FairSpec ==
    Spec /\ WF_vars(Transfer \/ PlaceFile) /\ WF_vars(EndDownload)

-----------------------------------------------------------------------------
\* "Good signature" on the Build page is said of the private copy, the very bytes
\* the build will unpack, and only of what a release signer signed: whatever was
\* written to the user's files meanwhile (set_source, verify_tarball).
VerifiedIsReleased == SignatureRow.text = "Good signature" => copy \in Released

\* Source that is not verified is unpacked only after a yes to the question about
\* the very bytes that are unpacked, whatever was opened, checked again or downloaded
\* before or since; but for a source that took the place of the one asked about while
\* the dialog was open (AppState.allow_unverified, set_source).
UnverifiedWasAllowed ==
    SourceTrustNow = "unverified" \/ unpacking = "unverified"
        => consented = copy \/ overtaken

\* ui.rs: "Build unverified source" is "given for this one tarball only".
OverrideIsForOneTarball == unpacking = "unverified" => consented = copy

\* What the page promises, SourceTrust, is kept: a build unpacks under the trust
\* its source has, and what is called verified is what was released.
Trust == INSTANCE SourceTrust WITH trust <- SourceTrustNow, built <- built
KeepsTrust == Trust!Spec

\* A download the user cancels ends, in whichever attempt, read or file the
\* cancel falls, and even if the server never stops sending (download_one).
CancelEndsDownload == busy = "download" /\ cancel ~> busy # "download"
=============================================================================
