---------------------------- MODULE SourceProofs ----------------------------
(* Theorems about Source, for any set of tarballs and any number of        *)
(* attempts of a download.                                                 *)
EXTENDS Source, TLAPS

USE SourceAssumption, RetriesAssumption

-----------------------------------------------------------------------------
(* The inductive invariant.                                                *)

\* A download that goes on has a file at hand, and one that is done has none.
QueueInv ==
    /\ transfer \in {"attempt", "stream", "place"} => queue # <<>>
    /\ outcome = "done" => queue = <<>>

\* A check has the window to itself, and nothing is selected while it runs; a
\* build unpacks under the trust the source still has.
OneAtATime ==
    /\ busy = "signature check" <=> pc # "idle"
    /\ pc # "idle" => source = NoPath /\ signature = "checking"
    /\ busy = "build" => ~dialog
    /\ unpacking # "none" => busy = "build" /\ unpacking = SourceTrustNow

\* The check judges with a signature at hand.
HasSignature ==
    /\ pc \in {"keys", "gpgv"} => sig # "none"
    /\ pc = "fetching" => queue = <<"signature">> \/ sig # "none"

\* A good verdict is about the private copy.
JudgedCopy ==
    /\ signature = "verified" => copy = "release"
    /\ pc = "answer" /\ verdict = "good" => copy = "release"

\* The answer that is in force, and the question that is open, are about the private
\* copy, which only a check replaces; or the source was chosen under the dialog.
WordInv ==
    /\ allow => consented = copy \/ overtaken
    /\ dialog => asked = copy \/ overtaken
    /\ pc # "idle" => (allow => overtaken) /\ (dialog => overtaken)

SourceInv ==
    TypeOK /\ QueueInv /\ OneAtATime /\ HasSignature /\ JudgedCopy /\ WordInv

-----------------------------------------------------------------------------
(* The download.                                                           *)

DownloadInv == DownloadTypeOK /\ QueueInv

\* The queues there can be.
LEMMA Queues ==
    /\ <<"tarball">> # <<>> /\ <<"signature">> # <<>> /\ <<"tarball", "signature">> # <<>>
    /\ Tail(<<"tarball">>) = <<>> /\ Tail(<<"signature">>) = <<>>
    /\ Tail(<<"tarball", "signature">>) = <<"signature">>
    /\ Len(<<"tarball">>) = 1 /\ Len(<<"signature">>) = 1
    /\ Len(<<"tarball", "signature">>) = 2
OBVIOUS

\* A download that begins has its files before it.
LEMMA BeginInv ==
    ASSUME DownloadInv,
           NEW files \in {<<"tarball">>, <<"signature">>, <<"tarball", "signature">>},
           BeginDownload(files)
    PROVE  DownloadInv'
<1>1. QueueInv' /\ queue' = files
  BY Queues DEF QueueInv, BeginDownload
<1>2. attempt' \in 0..(MAX_RETRIES - 1)
  BY DEF BeginDownload
<1>3. DownloadTypeOK'
  BY <1>1, <1>2, Zenon DEF DownloadInv, DownloadTypeOK, Amounts, BeginDownload
<1>4. QED
  BY <1>1, <1>3 DEF DownloadInv

\* Attempts are counted, and the file at hand stays at hand.
LEMMA RetryInv ==
    ASSUME DownloadInv, Retry, queue # <<>>, UNCHANGED cancel,
           known' \in BOOLEAN, part' \in Amounts
    PROVE  DownloadInv' /\ UNCHANGED queue
BY DEF DownloadInv, DownloadTypeOK, Amounts, QueueInv, Retry, End

\* A step inside an attempt keeps the queue.
LEMMA TransferInv ==
    ASSUME DownloadInv, Transferring
    PROVE  DownloadInv' /\ UNCHANGED queue
<1>1. CASE Attempt
  <2>1. CASE Retry /\ UNCHANGED <<known, part>>
    BY <1>1, <2>1, RetryInv DEF Attempt, DownloadInv, DownloadTypeOK, Amounts, QueueInv
  <2>2. CASE ~(Retry /\ UNCHANGED <<known, part>>)
    BY <1>1, <2>2 DEF Attempt, End, DownloadInv, DownloadTypeOK, Amounts, QueueInv
  <2>3. QED
    BY <2>1, <2>2
<1>2. CASE Chunk
  <2>1. CASE Retry /\ part' = "nothing"
    BY <1>2, <2>1, RetryInv DEF Chunk, DownloadInv, DownloadTypeOK, Amounts, QueueInv
  <2>2. CASE ~(Retry /\ part' = "nothing")
    BY <1>2, <2>2
    DEF Chunk, Receive, End, DownloadInv, DownloadTypeOK, Amounts, QueueInv
  <2>3. QED
    BY <2>1, <2>2
<1>3. CASE EndOfStream
  <2>1. CASE known /\ part # "all"
    BY <1>3, <2>1, RetryInv
    DEF EndOfStream, DownloadInv, DownloadTypeOK, Amounts, QueueInv
  <2>2. CASE ~(known /\ part # "all")
    BY <1>3, <2>2 DEF EndOfStream, DownloadInv, DownloadTypeOK, Amounts, QueueInv
  <2>3. QED
    BY <2>1, <2>2
<1>4. CASE NotPlaced
  BY <1>4 DEF NotPlaced, End, DownloadInv, DownloadTypeOK, Amounts, QueueInv
<1>5. QED
  BY <1>1, <1>2, <1>3, <1>4 DEF Transferring

\* The next file is due once one has its name.
LEMMA PlacedInv ==
    ASSUME DownloadInv, Placed
    PROVE  DownloadInv' /\ (queue = <<"signature">> => queue' = <<>>)
<1>1. queue \in {<<"tarball">>, <<"signature">>, <<"tarball", "signature">>}
  BY Zenon DEF DownloadInv, DownloadTypeOK, Amounts, QueueInv, Placed
<1>2. attempt' \in 0..(MAX_RETRIES - 1)
  BY DEF DownloadInv, DownloadTypeOK, Amounts, Placed
<1>3. CASE queue = <<"tarball", "signature">>
  <2>1. queue' = <<"signature">> /\ Len(queue) # 1
    BY <1>3, Queues DEF Placed
  <2>2. transfer' = "attempt" /\ UNCHANGED outcome
    BY <2>1, Zenon DEF Placed
  <2>3. outcome # "done"
    BY <1>3, Queues DEF DownloadInv, QueueInv
  <2>4. QED
    BY <1>2, <1>3, <2>1, <2>2, <2>3, Queues, Zenon
    DEF DownloadInv, DownloadTypeOK, Amounts, QueueInv, Placed
<1>4. CASE queue \in {<<"tarball">>, <<"signature">>}
  <2>1. queue' = <<>> /\ Len(queue) = 1
    BY <1>4, Queues DEF Placed
  <2>2. transfer' = "ended" /\ outcome' = "done"
    BY <2>1, Zenon DEF Placed
  <2>3. QED
    BY <1>2, <2>1, <2>2, Zenon
    DEF DownloadInv, DownloadTypeOK, Amounts, QueueInv, Placed
<1>5. QED
  BY <1>1, <1>3, <1>4

\* Nothing is left of a download whose outcome was taken.
LEMMA CollectInv ==
    ASSUME DownloadInv, CollectDownload
    PROVE  DownloadInv' /\ transfer = "ended"
<1>1. attempt' \in 0..(MAX_RETRIES - 1)
  BY DEF CollectDownload
<1>2. QED
  BY <1>1, Zenon DEF DownloadInv, DownloadTypeOK, Amounts, QueueInv, CollectDownload

-----------------------------------------------------------------------------
(* The thread of set_source.                                               *)

\* A step of the thread that fetches nothing keeps the rest of the window.
LEMMA AloneInv ==
    ASSUME DownloadInv, UNCHANGED downloadVars
    PROVE  DownloadInv'
BY DEF DownloadInv, DownloadTypeOK, Amounts, QueueInv, downloadVars

\* What the user said stays right while nothing is said and only a check replaces the
\* private copy.
LEMMA WordKept ==
    ASSUME WordInv, UNCHANGED <<dialog, allow, wordVars>>,
           copy' # copy => pc # "idle", pc' # "idle" => pc # "idle"
    PROVE  WordInv'
BY DEF WordInv, wordVars

\* What the thread must keep of its own variables.
ThreadTypeOK ==
    /\ copy \in Content \cup {"none"}
    /\ pc \in Steps /\ path \in Path /\ sig \in Signature \cup {"none"}
    /\ keyring \subseteq {"release signer", "developer"}
    /\ verdict \in Verdicts

\* A step of the check, between its beginning and its answer, that keeps its own
\* variables in order keeps the invariant.
LEMMA ThreadStep ==
    ASSUME SourceInv, pc # "idle", pc' # "idle", DownloadInv', ThreadTypeOK',
           HasSignature', pc' = "answer" /\ verdict' = "good" => copy' = "release",
           UNCHANGED <<file, busy, dialog, pageVars, buildVars, wordVars>>,
           sibling' \in [Path -> Signature \cup {"none"}]
    PROVE  SourceInv'
<1>1. TypeOK'
  BY DEF SourceInv, TypeOK, ThreadTypeOK, DownloadInv, pageVars, buildVars, wordVars
<1>2. OneAtATime'
  BY DEF SourceInv, OneAtATime, SourceTrustNow, pageVars, buildVars, wordVars
<1>3. JudgedCopy'
  BY DEF SourceInv, OneAtATime, JudgedCopy, pageVars
<1>4. WordInv'
  BY WordKept DEF WordInv, wordVars, SourceInv, pageVars
<1>5. QED
  BY <1>1, <1>2, <1>3, <1>4 DEF SourceInv, DownloadInv

\* gpgv reports a good signature of a release signer only of a release.
LEMMA GoodIsRelease ==
    ASSUME NEW c, NEW s \in Signature, NEW status \in GpgvStatus(c, s),
           GpgvTarball(c, status) = "good", Signer[s] = "release signer"
    PROVE  c = "release"
<1>1. ParseGpgvStatus(status) = "good"
  <2>1. c # "cut"
    BY Zenon DEF GpgvTarball
  <2>2. QED
    BY <2>1 DEF GpgvTarball
<1>2. "GOODSIG" \in status
  <2>1. CASE {"GOODSIG", "VALIDSIG"} \subseteq status
    BY <2>1
  <2>2. CASE ~({"GOODSIG", "VALIDSIG"} \subseteq status)
    <3>1. ParseGpgvStatus(status) \in {"missing key", "bad"}
      BY <2>2, Zenon DEF ParseGpgvStatus
    <3>2. QED
      BY <1>1, <3>1
  <2>3. QED
    BY <2>1, <2>2
<1>3. s # "cutsig" /\ Signs[s] = c
  <2>1. CASE s = "cutsig"
    <3>1. PICK w \in {"NODATA", "ERRSIG"} : status = {w}
      BY <2>1 DEF GpgvStatus
    <3>2. "GOODSIG" \notin status
      BY <3>1
    <3>3. QED
      BY <1>2, <3>2
  <2>2. CASE s # "cutsig" /\ Signer[s] \notin keyring
    <3>1. status = {"ERRSIG", "NO_PUBKEY"}
      BY <2>2, Zenon DEF GpgvStatus
    <3>2. "GOODSIG" \notin status
      BY <3>1
    <3>3. QED
      BY <1>2, <3>2
  <2>3. CASE s # "cutsig" /\ Signer[s] \in keyring /\ Signs[s] # c
    <3>1. PICK w \in {"BADSIG", "NODATA"} : status = {w}
      BY <2>3 DEF GpgvStatus
    <3>2. "GOODSIG" \notin status
      BY <3>1
    <3>3. QED
      BY <1>2, <3>2
  <2>4. QED
    BY <2>1, <2>2, <2>3
<1>4. s # "developersig"
  <2>1. Signer.developersig = "developer"
    BY DEF Signer
  <2>2. QED
    BY <2>1
<1>5. s = "releasesig"
  BY <1>3, <1>4 DEF Signature
<1>6. QED
  BY <1>3, <1>5 DEF Signs

\* While the keys are looked for and gpgv runs, a signature is read.
LEMMA PresentSignature ==
    ASSUME SourceInv, pc \in {"keys", "gpgv"}
    PROVE  SignatureNow \subseteq Signature
<1>1. sig \in Signature /\ sibling[path] \in Signature \cup {"none"}
  BY DEF SourceInv, TypeOK, HasSignature
<1>2. QED
  BY <1>1 DEF SignatureNow

\* Every step of the check keeps the invariant.
LEMMA ThreadInv ==
    ASSUME SourceInv, Thread
    PROVE  SourceInv'
<1> USE DEF SourceInv
<1>0. DownloadInv
  BY DEF TypeOK, DownloadInv
<1>1. CASE Inspect
  <2>1. ThreadTypeOK' /\ HasSignature'
    BY <1>1
    DEF Inspect, Goto, Answer, TypeOK, ThreadTypeOK, HasSignature, Steps, Verdicts
  <2>2. QED
    BY <1>0, <1>1, <2>1, AloneInv, ThreadStep
    DEF Inspect, Goto, Answer, ThreadOnly, TypeOK
<1>2. CASE PrivateCopy
  <2>1. file[path] \in Content
    BY DEF TypeOK
  <2>2. ThreadTypeOK' /\ HasSignature'
    BY <1>2, <2>1
    DEF PrivateCopy, Goto, Answer, TypeOK, ThreadTypeOK, HasSignature, Steps, Verdicts
  <2>3. QED
    BY <1>0, <1>2, <2>2, AloneInv, ThreadStep
    DEF PrivateCopy, Goto, Answer, ThreadOnly, TypeOK
<1>3. CASE LookForSignature
  <2>1. sibling[path] \in Signature \cup {"none"}
    BY DEF TypeOK
  <2>2. pc' \in {"fetch", "keys"} /\ (pc' = "keys" => sig' # "none")
    BY <1>3 DEF LookForSignature, Goto
  <2>3. ThreadTypeOK' /\ HasSignature'
    BY <1>3, <2>1, <2>2
    DEF LookForSignature, Goto, TypeOK, ThreadTypeOK, HasSignature, Steps
  <2>4. QED
    BY <1>0, <1>3, <2>2, <2>3, AloneInv, ThreadStep
    DEF LookForSignature, ThreadOnly, TypeOK
<1>4. CASE FetchSignature
  <2>1. DownloadInv'
    BY <1>0, <1>4, BeginInv DEF FetchSignature
  <2>2. queue' = <<"signature">> /\ pc' = "fetching"
    BY <1>4 DEF FetchSignature, BeginDownload, Goto
  <2>3. ThreadTypeOK' /\ HasSignature'
    BY <1>4, <2>2 DEF FetchSignature, Goto, TypeOK, ThreadTypeOK, HasSignature, Steps
  <2>4. QED
    BY <1>4, <2>1, <2>2, <2>3, ThreadStep DEF FetchSignature, TypeOK
<1>5. CASE SignatureFetched
  <2>1. DownloadInv'
    BY <1>0, <1>5, CollectInv DEF SignatureFetched
  <2>2. outcome = "done" => sig # "none"
    BY <1>5, Queues DEF SignatureFetched, HasSignature, QueueInv
  <2>3. pc' \in {"keys", "answer"} /\ (pc' = "keys" => sig # "none")
        /\ (pc' = "answer" => verdict' = "not verified") /\ verdict' \in Verdicts
    BY <1>5, <2>2 DEF SignatureFetched, Goto, Answer, Verdicts, TypeOK
  <2>4. ThreadTypeOK' /\ HasSignature'
    BY <1>5, <2>3
    DEF SignatureFetched, Goto, Answer, TypeOK, ThreadTypeOK, HasSignature, Steps
  <2>5. QED
    BY <1>5, <2>1, <2>3, <2>4, ThreadStep DEF SignatureFetched, TypeOK
<1>6. CASE FetchKeys
  <2>1. SignatureNow \subseteq Signature
    BY <1>6, PresentSignature DEF FetchKeys
  <2>2. \A s \in Signature : KeysWanted(s) \subseteq {"release signer", "developer"}
    <3>1. Signer.releasesig = "release signer" /\ Signer.developersig = "developer"
          /\ Signer.cutsig = "release signer"
      BY DEF Signer
    <3>2. \A s \in Signature : Signer[s] \in {"release signer", "developer"}
      BY <3>1 DEF Signature
    <3>3. QED
      BY <3>2 DEF KeysWanted
  <2>3. keyring' \subseteq {"release signer", "developer"}
    <3>1. CASE UNCHANGED keyring
      BY <3>1 DEF TypeOK
    <3>2. CASE keyring' # keyring
      <4>1. PICK s \in SignatureNow : keyring' \in SUBSET KeysWanted(s)
        BY <1>6, <3>2 DEF FetchKeys
      <4>2. QED
        BY <2>1, <2>2, <4>1
    <3>3. QED
      BY <3>1, <3>2
  <2>4. sig \in Signature
    BY <2>1 DEF SignatureNow
  <2>5. ThreadTypeOK' /\ HasSignature'
    BY <1>6, <2>3, <2>4
    DEF FetchKeys, Goto, Answer, TypeOK, ThreadTypeOK, HasSignature, Steps, Verdicts
  <2>6. QED
    BY <1>0, <1>6, <2>5, AloneInv, ThreadStep
    DEF FetchKeys, Goto, Answer, ThreadOnly, TypeOK
<1>7. CASE JudgeTarball
  <2>1. SignatureNow \subseteq Signature
    BY <1>7, PresentSignature DEF JudgeTarball
  <2>2. pc' = "answer" /\ verdict' \in {"good", "not verified"}
    BY <1>7 DEF JudgeTarball, Answer, Goto
  <2>3. verdict' = "good" => copy = "release"
    <3>1. PICK s \in SignatureNow : \E status \in GpgvStatus(copy, s) :
            verdict' = IF GpgvTarball(copy, status) = "good" /\ Signer[s] = "release signer"
                       THEN "good" ELSE "not verified"
      BY <1>7 DEF JudgeTarball, Answer
    <3>2. PICK status \in GpgvStatus(copy, s) :
            verdict' = IF GpgvTarball(copy, status) = "good" /\ Signer[s] = "release signer"
                       THEN "good" ELSE "not verified"
      BY <3>1
    <3>3. QED
      BY <2>1, <3>2, GoodIsRelease
  <2>4. ThreadTypeOK' /\ HasSignature'
    BY <1>7, <2>2
    DEF JudgeTarball, Answer, Goto, TypeOK, ThreadTypeOK, HasSignature, Steps,
        Verdicts
  <2>5. QED
    BY <1>0, <1>7, <2>2, <2>3, <2>4, AloneInv, ThreadStep
    DEF JudgeTarball, Answer, Goto, ThreadOnly, TypeOK
<1>8. QED
  BY <1>1, <1>2, <1>3, <1>4, <1>5, <1>6, <1>7 DEF Thread

-----------------------------------------------------------------------------
(* The window and everybody else.                                          *)

\* A check begins: nothing is selected, and nobody has allowed anything.
LEMMA SetSourceInv ==
    ASSUME SourceInv, busy # "build", NEW p \in Path, SetSource(p), DownloadInv',
           UNCHANGED <<diskVars, dialog, buildVars>>
    PROVE  SourceInv'
<1>1. TypeOK'
  BY
  DEF SourceInv, TypeOK, SetSource, DownloadInv, BusyStates, SigStates, Steps,
      Verdicts, diskVars, buildVars, wordVars
<1>2. OneAtATime'
  BY DEF SourceInv, OneAtATime, SetSource, buildVars, wordVars
<1>3. HasSignature' /\ JudgedCopy' /\ WordInv'
  BY DEF WordInv, wordVars, HasSignature, JudgedCopy, SetSource
<1>4. QED
  BY <1>1, <1>2, <1>3 DEF SourceInv, DownloadInv

\* The window's steps around a check, a download and the override.
LEMMA PageInv ==
    ASSUME SourceInv,
           \/ SourceChecked \/ EndDownload \/ CancelDownload \/ CheckAgain
           \/ \E p \in Path : OpenTarball(p) \/ DropTarball(p) \/ StartDownload(p)
           \/ AskOverride \/ AnswerOverride \/ DropOverride
    PROVE  SourceInv'
<1> USE DEF SourceInv
<1>0. DownloadInv
  BY DEF TypeOK, DownloadInv
<1>1. CASE SourceChecked
  <2>1. busy = "signature check" /\ source = NoPath /\ unpacking = "none"
    BY <1>1 DEF SourceChecked, OneAtATime
  <2>2. DownloadInv'
    BY <1>0, <1>1, AloneInv DEF SourceChecked
  <2>3. signature' \in {"none", "verified", "failed"} /\ source' \in Path \cup {NoPath}
    BY <1>1, <2>1 DEF SourceChecked, TypeOK
  <2>4. TypeOK'
    BY <1>1, <2>2, <2>3
    DEF SourceChecked, TypeOK, DownloadInv, BusyStates, SigStates, Steps, Verdicts,
        diskVars, buildVars, wordVars
  <2>5. OneAtATime'
    BY <1>1, <2>1 DEF SourceChecked, OneAtATime, buildVars
  <2>6. signature' = "verified" => copy' = "release"
    BY <1>1 DEF SourceChecked, JudgedCopy, diskVars
  <2>7. JudgedCopy' /\ HasSignature' /\ WordInv'
    BY <1>1, <2>6 DEF WordInv, wordVars, SourceChecked, JudgedCopy, HasSignature
  <2>8. QED
    BY <2>2, <2>4, <2>5, <2>7 DEF DownloadInv
<1>2. CASE EndDownload
  <2>1. DownloadInv'
    BY <1>0, <1>2, CollectInv DEF EndDownload
  <2>2. path \in Path
    BY DEF TypeOK
  <2>3. CASE outcome = "done"
    BY <1>2, <2>1, <2>2, <2>3, SetSourceInv DEF EndDownload
  <2>4. CASE outcome # "done"
    <3>1. pc = "idle" /\ unpacking = "none"
      BY <1>2 DEF EndDownload, OneAtATime
    <3>2. TypeOK'
      BY <1>2, <2>1, <2>4
      DEF EndDownload, TypeOK, DownloadInv, BusyStates, diskVars, pageVars, threadVars,
          buildVars, wordVars
    <3>3. OneAtATime' /\ HasSignature' /\ JudgedCopy'
      BY <1>2, <2>4, <3>1
      DEF EndDownload, OneAtATime, HasSignature, JudgedCopy, diskVars, pageVars,
          threadVars, buildVars
    <3>4. QED
      BY <1>2, <2>1, <2>4, <3>1, <3>2, <3>3, WordKept
      DEF EndDownload, DownloadInv, diskVars, pageVars, threadVars
  <2>5. QED
    BY <2>3, <2>4
<1>3. CASE CancelDownload
  <2>1. DownloadInv' /\ UNCHANGED queue
    BY <1>0, <1>3 DEF CancelDownload, DownloadInv, DownloadTypeOK, Amounts, QueueInv
  <2>2. UNCHANGED <<diskVars, busy, dialog, pageVars, threadVars, buildVars, wordVars>>
    BY <1>3 DEF CancelDownload
  <2>3. TypeOK'
    BY <2>1, <2>2
    DEF TypeOK, DownloadInv, diskVars, pageVars, threadVars, buildVars, wordVars
  <2>4. OneAtATime' /\ HasSignature' /\ JudgedCopy' /\ WordInv'
    BY <2>1, <2>2
    DEF WordInv, wordVars, OneAtATime, SourceTrustNow, HasSignature, JudgedCopy,
        diskVars, pageVars, threadVars, buildVars
  <2>5. QED
    BY <2>1, <2>3, <2>4 DEF DownloadInv
<1>4. ASSUME NEW p \in Path, CheckAgain \/ OpenTarball(p) \/ DropTarball(p)
      PROVE  SourceInv'
  <2>1. DownloadInv'
    BY <1>0, <1>4, AloneInv DEF CheckAgain, OpenTarball, DropTarball
  <2>2. PICK q \in Path : SetSource(q)
    BY <1>4 DEF CheckAgain, OpenTarball, DropTarball, TypeOK
  <2>3. busy = "none" /\ UNCHANGED <<diskVars, dialog, buildVars>>
    BY <1>4 DEF CheckAgain, OpenTarball, DropTarball, Clickable, Idle
  <2>4. QED
    BY <2>1, <2>2, <2>3, SetSourceInv
<1>5. ASSUME NEW p \in Path, StartDownload(p)
      PROVE  SourceInv'
  <2>1. DownloadInv'
    BY <1>0, <1>5, BeginInv DEF StartDownload
  <2>2. pc = "idle" /\ unpacking = "none"
    BY <1>5 DEF StartDownload, Clickable, Idle, OneAtATime
  <2>3. TypeOK'
    BY <1>5, <2>1
    DEF StartDownload, TypeOK, DownloadInv, BusyStates, diskVars, pageVars, buildVars,
        wordVars
  <2>4. OneAtATime' /\ HasSignature' /\ JudgedCopy'
    BY <1>5, <2>2
    DEF StartDownload, OneAtATime, HasSignature, JudgedCopy, diskVars, pageVars,
        buildVars
  <2>5. QED
    BY <1>5, <2>1, <2>3, <2>4, WordKept
    DEF StartDownload, DownloadInv, diskVars, pageVars
<1>6. CASE AskOverride \/ AnswerOverride \/ DropOverride
  <2>1. DownloadInv' /\ UNCHANGED <<diskVars, busy, source, signature, threadVars, buildVars, downloadVars>>
    BY <1>0, <1>6, AloneInv DEF AskOverride, AnswerOverride, DropOverride, PageOnly
  <2>2. unpacking = "none" /\ busy # "build"
    BY <1>6 DEF AskOverride, AnswerOverride, DropOverride, Clickable, Idle, OneAtATime
  <2>3. /\ dialog' \in BOOLEAN /\ allow' \in BOOLEAN /\ overtaken' \in BOOLEAN
        /\ asked' \in Content \cup {"none"} /\ consented' \in Content \cup {"none"}
        /\ WordInv'
    <3>1. CASE AskOverride
      <4>1. pc = "idle"
        BY <3>1 DEF AskOverride, Clickable, Idle, OneAtATime
      <4>2. QED
        BY <2>1, <3>1, <4>1 DEF AskOverride, TypeOK, WordInv, diskVars, threadVars
    <3>2. CASE AnswerOverride
      <4>1. PICK yes \in BOOLEAN :
              allow' = yes /\ consented' = (IF yes THEN asked ELSE "none")
        BY <3>2 DEF AnswerOverride
      <4>2. QED
        BY <2>1, <3>2, <4>1 DEF AnswerOverride, TypeOK, WordInv, diskVars, threadVars
    <3>3. CASE DropOverride
      BY <2>1, <3>3 DEF DropOverride, TypeOK, WordInv, diskVars, threadVars
    <3>4. QED
      BY <1>6, <3>1, <3>2, <3>3
  <2>4. TypeOK'
    BY <2>1, <2>3 DEF TypeOK, DownloadInv, diskVars, threadVars, buildVars, wordVars
  <2>5. OneAtATime' /\ HasSignature' /\ JudgedCopy'
    BY <2>1, <2>2
    DEF OneAtATime, HasSignature, JudgedCopy, diskVars, threadVars, buildVars,
        downloadVars
  <2>6. QED
    BY <2>1, <2>3, <2>4, <2>5 DEF DownloadInv
<1>7. QED
  <2>1. CASE CheckAgain
    <3>1. \E p \in Path : TRUE
      BY DEF TypeOK
    <3>2. QED
      BY <2>1, <3>1, <1>4
  <2>2. QED
    BY <1>1, <1>2, <1>3, <1>4, <1>5, <1>6, <2>1

\* The steps of a build.
LEMMA UnpackInv ==
    ASSUME SourceInv, StartBuild \/ Unpack \/ EndBuild
    PROVE  SourceInv'
<1> USE DEF SourceInv
<1>1. DownloadInv' /\ UNCHANGED <<diskVars, dialog, pageVars, threadVars, wordVars, downloadVars>>
  BY AloneInv DEF TypeOK, DownloadInv, StartBuild, Unpack, EndBuild
<1>2. busy' \in BusyStates /\ unpacking' \in {"none", "verified", "unverified"} /\ built' \in Builds
  <2>1. CASE StartBuild
    BY <2>1 DEF StartBuild, TypeOK, BusyStates, CanBuild, SourceTrustNow
  <2>2. CASE Unpack
    <3>1. unpacking \in {"verified", "unverified"}
      BY <2>2 DEF Unpack, TypeOK
    <3>2. SingleTopDir(copy) => [content |-> copy, trust |-> unpacking] \in Builds
      BY <3>1 DEF SingleTopDir, Trees, Builds, Content
    <3>3. QED
      BY <2>2, <3>2 DEF Unpack, TypeOK
  <2>3. CASE EndBuild
    BY <2>3 DEF EndBuild, TypeOK, BusyStates, Builds
  <2>4. QED
    BY <2>1, <2>2, <2>3
<1>3. TypeOK'
  BY <1>1, <1>2 DEF TypeOK, DownloadInv, diskVars, pageVars, threadVars, wordVars
<1>4. OneAtATime'
  <2>1. CASE StartBuild
    BY <1>1, <2>1
    DEF StartBuild, Clickable, Idle, OneAtATime, SourceTrustNow, pageVars, threadVars
  <2>2. CASE Unpack
    BY <1>1, <2>2 DEF Unpack, OneAtATime, SourceTrustNow, pageVars, threadVars
  <2>3. CASE EndBuild
    BY <1>1, <2>3 DEF EndBuild, OneAtATime, SourceTrustNow, pageVars, threadVars
  <2>4. QED
    BY <2>1, <2>2, <2>3
<1>5. HasSignature' /\ JudgedCopy' /\ WordInv'
  BY <1>1
  DEF WordInv, wordVars, HasSignature, JudgedCopy, diskVars, pageVars, threadVars,
      downloadVars
<1>6. QED
  BY <1>1, <1>3, <1>4, <1>5 DEF DownloadInv

\* What arrives from the network, and what others write.
LEMMA WorldInv ==
    ASSUME SourceInv, Transfer \/ PlaceFile \/ SomebodyElse
    PROVE  SourceInv'
<1> USE DEF SourceInv
<1>0. DownloadInv
  BY DEF TypeOK, DownloadInv
<1>1. CASE Transfer
  <2>1. DownloadInv' /\ UNCHANGED queue
    BY <1>0, <1>1, TransferInv DEF Transfer
  <2>2. UNCHANGED <<diskVars, busy, dialog, pageVars, threadVars, buildVars, wordVars>>
    BY <1>1 DEF Transfer
  <2>3. TypeOK'
    BY <2>1, <2>2
    DEF TypeOK, DownloadInv, diskVars, pageVars, threadVars, buildVars, wordVars
  <2>4. OneAtATime' /\ HasSignature' /\ JudgedCopy' /\ WordInv'
    BY <2>1, <2>2
    DEF WordInv, wordVars, OneAtATime, SourceTrustNow, HasSignature, JudgedCopy,
        diskVars, pageVars, threadVars, buildVars
  <2>5. QED
    BY <2>1, <2>3, <2>4 DEF DownloadInv
<1>2. CASE PlaceFile
  <2>1. DownloadInv' /\ (queue = <<"signature">> => queue' = <<>>)
    BY <1>0, <1>2, PlacedInv DEF PlaceFile
  <2>2. UNCHANGED <<copy, busy, dialog, pageVars, pc, path, keyring, verdict, buildVars, wordVars>>
    BY <1>2 DEF PlaceFile
  <2>3. /\ file' \in [Path -> Content]
        /\ sibling' \in [Path -> Signature \cup {"none"}]
        /\ sig' \in Signature \cup {"none"}
    <3> DEFINE tarball == IF part = "all" THEN "release" ELSE "cut"
    <3> DEFINE tarSign == IF part = "all" THEN "releasesig" ELSE "cutsig"
    <3> DEFINE next == [sibling EXCEPT ![path] = tarSign]
    <3>1. tarball \in Content /\ tarSign \in Signature
      BY DEF Content, Signature
    <3>2. /\ [file EXCEPT ![path] = tarball] \in [Path -> Content]
          /\ next \in [Path -> Signature \cup {"none"}]
      BY <3>1 DEF TypeOK
    <3>3. /\ file' \in {file, [file EXCEPT ![path] = tarball]}
          /\ sibling' \in {sibling, next}
          /\ sig' \in {sig, tarSign}
      BY <1>2 DEF PlaceFile
    <3> HIDE DEF tarball, tarSign, next
    <3>4. QED
      BY <3>1, <3>2, <3>3 DEF TypeOK
  <2>4. sig' = sig \/ sig' # "none"
    BY <1>2 DEF PlaceFile
  <2>5. pc = "fetching" => sig' # "none"
    <3> SUFFICES ASSUME pc = "fetching" PROVE sig' # "none"
      OBVIOUS
    <3>1. busy # "download"
      BY DEF OneAtATime
    <3>2. CASE queue = <<"signature">>
      <4>1. Head(queue) = "signature"
        BY <3>2
      <4>2. QED
        BY <1>2, <3>1, <4>1 DEF PlaceFile
    <3>3. CASE queue # <<"signature">>
      BY <2>4, <3>3 DEF HasSignature
    <3>4. QED
      BY <3>2, <3>3
  <2>6. TypeOK'
    BY <2>1, <2>2, <2>3 DEF TypeOK, DownloadInv, pageVars, buildVars, wordVars
  <2>7. OneAtATime' /\ HasSignature' /\ JudgedCopy' /\ WordInv'
    BY <2>2, <2>4, <2>5
    DEF WordInv, wordVars, OneAtATime, SourceTrustNow, HasSignature, JudgedCopy,
        pageVars, buildVars
  <2>8. QED
    BY <2>1, <2>6, <2>7 DEF DownloadInv
<1>3. CASE SomebodyElse
  <2>1. DownloadInv' /\ UNCHANGED <<copy, busy, dialog, pageVars, threadVars, buildVars, wordVars, downloadVars>>
    BY <1>0, <1>3, AloneInv DEF SomebodyElse
  <2>2. file' \in [Path -> Content] /\ sibling' \in [Path -> Signature \cup {"none"}]
    <3>1. file \in [Path -> Content] /\ sibling \in [Path -> Signature \cup {"none"}]
      BY DEF TypeOK
    <3>2. PICK p \in Path :
            \/ \E c \in Content : file' = [file EXCEPT ![p] = c] /\ UNCHANGED sibling
            \/ \E s \in Signature : sibling' = [sibling EXCEPT ![p] = s] /\ UNCHANGED file
      BY <1>3 DEF SomebodyElse
    <3>3. CASE \E c \in Content : file' = [file EXCEPT ![p] = c] /\ UNCHANGED sibling
      BY <3>1, <3>3
    <3>4. CASE \E s \in Signature : sibling' = [sibling EXCEPT ![p] = s] /\ UNCHANGED file
      BY <3>1, <3>4
    <3>5. QED
      BY <3>2, <3>3, <3>4
  <2>3. TypeOK'
    BY <2>1, <2>2 DEF TypeOK, DownloadInv, pageVars, threadVars, buildVars, wordVars
  <2>4. OneAtATime' /\ HasSignature' /\ JudgedCopy' /\ WordInv'
    BY <2>1
    DEF WordInv, wordVars, OneAtATime, SourceTrustNow, HasSignature, JudgedCopy,
        pageVars, threadVars, buildVars, downloadVars
  <2>5. QED
    BY <2>1, <2>3, <2>4 DEF DownloadInv
<1>4. QED
  BY <1>1, <1>2, <1>3

-----------------------------------------------------------------------------
(* The theorems.                                                           *)

\* The window opens with nothing selected and no download.
LEMMA InitInv == Init => SourceInv
<1> SUFFICES ASSUME Init PROVE SourceInv
  OBVIOUS
<1>1. DownloadTypeOK /\ QueueInv
  <2>1. attempt \in 0..(MAX_RETRIES - 1)
    BY DEF Init, DownloadInit
  <2>2. QED
    BY <2>1, Zenon DEF Init, DownloadInit, DownloadTypeOK, Amounts, QueueInv
<1>2. file \in [Path -> Content] /\ sibling \in [Path -> Signature \cup {"none"}]
  BY DEF Init, Content, Signature
<1>3. TypeOK
  BY <1>1, <1>2
  DEF Init, TypeOK, BusyStates, SigStates, Steps, Verdicts, Builds, Content
<1>4. OneAtATime /\ HasSignature /\ JudgedCopy /\ WordInv
  BY DEF WordInv, wordVars, Init, OneAtATime, HasSignature, JudgedCopy
<1>5. QED
  BY <1>1, <1>3, <1>4 DEF SourceInv

\* Every step keeps the invariant.
LEMMA StepInv == SourceInv /\ [Next]_vars => SourceInv'
<1> SUFFICES ASSUME SourceInv, [Next]_vars PROVE SourceInv'
  OBVIOUS
<1>1. CASE UNCHANGED vars
  <2>1. DownloadInv'
    BY <1>1, AloneInv DEF vars, SourceInv, TypeOK, DownloadInv
  <2>2. TypeOK'
    BY <1>1, <2>1
    DEF vars, SourceInv, TypeOK, DownloadInv, diskVars, pageVars, threadVars,
        buildVars, wordVars
  <2>3. OneAtATime' /\ HasSignature' /\ JudgedCopy' /\ WordInv'
    BY <1>1
    DEF WordInv, wordVars, vars, SourceInv, OneAtATime, SourceTrustNow, HasSignature,
        JudgedCopy, diskVars, pageVars, threadVars, buildVars, wordVars, downloadVars
  <2>4. QED
    BY <2>1, <2>2, <2>3 DEF SourceInv, DownloadInv
<1>2. CASE Next
  BY <1>2, ThreadInv, PageInv, UnpackInv, WorldInv DEF Next
<1>3. QED
  BY <1>1, <1>2

\* The invariant holds in every state.
LEMMA Invariant == Spec => []SourceInv
  BY InitInv, StepInv, PTL DEF Spec

\* Every variable of the Build page keeps its type, for any number of tarballs
\* and any number of attempts.
THEOREM SourceTypeCorrect == Spec => []TypeOK
<1>1. SourceInv => TypeOK
  BY DEF SourceInv
<1>2. QED
  BY <1>1, Invariant, PTL

\* A file takes its real name only when all of it is there, as far as the server
\* said how much that is (download_one).
THEOREM WholeRenamed == Spec => []RenamesWhole
<1>1. Init => RenamesWhole
  BY DEF Init, DownloadInit, RenamesWhole
<1>2. RenamesWhole /\ [Next]_vars => RenamesWhole'
  <2> SUFFICES ASSUME RenamesWhole, [Next]_vars PROVE RenamesWhole'
    OBVIOUS
  <2>1. CASE UNCHANGED downloadVars
    BY <2>1 DEF RenamesWhole, downloadVars
  <2>2. CASE Transferring
    <3>1. ASSUME Retry PROVE transfer' # "place"
      BY <3>1 DEF Retry, End
    <3>2. CASE EndOfStream
      BY <3>1, <3>2 DEF EndOfStream, RenamesWhole
    <3>3. CASE Attempt \/ Chunk \/ NotPlaced
      BY <3>1, <3>3 DEF Attempt, Chunk, Receive, NotPlaced, End, RenamesWhole
    <3>4. QED
      BY <2>2, <3>2, <3>3 DEF Transferring
  <2>3. CASE Placed \/ CollectDownload \/ CancelDownload
    BY <2>3 DEF Placed, CollectDownload, CancelDownload, RenamesWhole
  <2>a. ASSUME NEW files, BeginDownload(files) PROVE RenamesWhole'
    BY <2>a DEF BeginDownload, RenamesWhole
  <2>4. CASE Thread
    BY <2>1, <2>3, <2>a, <2>4
    DEF Thread, Inspect, PrivateCopy, LookForSignature, FetchSignature,
        SignatureFetched, FetchKeys, JudgeTarball, ThreadOnly
  <2>5. CASE Transfer \/ PlaceFile \/ SomebodyElse
    BY <2>1, <2>2, <2>3, <2>5 DEF Transfer, PlaceFile, SomebodyElse
  <2>6. CASE SourceChecked \/ EndDownload \/ CheckAgain
    BY <2>1, <2>3, <2>6 DEF SourceChecked, EndDownload, CheckAgain
  <2>7. CASE \E p \in Path : OpenTarball(p) \/ DropTarball(p) \/ StartDownload(p)
    BY <2>1, <2>a, <2>7 DEF OpenTarball, DropTarball, StartDownload
  <2>8. CASE AskOverride \/ AnswerOverride \/ DropOverride \/ StartBuild \/ Unpack \/ EndBuild
    BY <2>1, <2>8
    DEF AskOverride, AnswerOverride, DropOverride, PageOnly, StartBuild, Unpack,
        EndBuild
  <2>9. QED
    BY <2>1, <2>3, <2>4, <2>5, <2>6, <2>7, <2>8 DEF Next, vars
<1>3. QED
  BY <1>1, <1>2, PTL DEF Spec

\* "Good signature" is only ever said of a private copy that holds what a release
\* signer signed (set_source, verify_tarball).
THEOREM VerifiedReleased == Spec => []VerifiedIsReleased
<1>1. SourceInv => VerifiedIsReleased
  <2> SUFFICES ASSUME SourceInv, SignatureRow.text = "Good signature"
               PROVE  copy \in Released
    BY DEF VerifiedIsReleased
  <2>1. signature \in SigStates
    BY DEF SourceInv, TypeOK
  <2>2. signature = "verified"
    BY <2>1 DEF SignatureRow, SigStates
  <2>3. QED
    BY <2>2 DEF SourceInv, JudgedCopy, Released
<1>2. QED
  BY <1>1, Invariant, PTL

\* What is not verified is unpacked only after a yes to the question about those very
\* bytes, unless the source was chosen under the dialog (AppState.allow_unverified):
\* only a check replaces the private copy, and it begins by taking the answer back.
THEOREM UnverifiedAllowed == Spec => []UnverifiedWasAllowed
<1>1. SourceInv => UnverifiedWasAllowed
  BY DEF SourceInv, OneAtATime, WordInv, SourceTrustNow, UnverifiedWasAllowed
<1>2. QED
  BY <1>1, Invariant, PTL

\* The Build page, with its threads, dialogs and downloads, and whatever others
\* write to the user's files, implements SourceTrust.
THEOREM TrustKept == Spec => KeepsTrust
<1>1. Init => Trust!Init
  BY DEF Init, Trust!Init, Trust!NothingBuilt, SourceTrustNow
<1>2. SourceInv /\ [Next]_vars => [Trust!Next]_<<SourceTrustNow, built>>
  <2> SUFFICES ASSUME SourceInv, [Next]_vars
               PROVE  [Trust!Next]_<<SourceTrustNow, built>>
    OBVIOUS
  <2>1. CASE UNCHANGED built
    <3>1. SourceTrustNow' \in {"none", "verified", "unverified"}
      BY DEF SourceTrustNow
    <3>2. QED
      BY <2>1, <3>1 DEF Trust!Next, Trust!Judge
  <2>2. CASE Unpack /\ built' # built
    <3>1. /\ SingleTopDir(copy) /\ built' = [content |-> copy, trust |-> unpacking]
          /\ UNCHANGED SourceTrustNow
      BY <2>2 DEF Unpack, SourceTrustNow, pageVars
    <3>2. unpacking = SourceTrustNow /\ SourceTrustNow # "none"
      BY <2>2 DEF Unpack, SourceInv, OneAtATime
    <3>3. SourceTrustNow = "verified" => copy \in Released
      BY DEF SourceTrustNow, SourceInv, JudgedCopy, Released
    <3>4. copy \in Trees /\ Trust!Unpack(copy)
      BY <3>1, <3>2, <3>3 DEF SingleTopDir, Trust!Unpack
    <3>5. QED
      BY <3>4 DEF Trust!Next
  <2>3. CASE EndBuild
    <3>1. UNCHANGED SourceTrustNow
      BY <2>3 DEF EndBuild, SourceTrustNow, pageVars
    <3>2. QED
      BY <2>3, <3>1 DEF EndBuild, Trust!Next, Trust!End, Trust!NothingBuilt
  <2>4. QED
    <3>1. CASE UNCHANGED vars
      BY <3>1, <2>1 DEF vars, buildVars
    <3>2. CASE Thread
      BY <3>2, <2>1
      DEF Thread, Inspect, PrivateCopy, LookForSignature, FetchSignature,
          SignatureFetched, FetchKeys, JudgeTarball, ThreadOnly, buildVars
    <3>3. CASE Transfer \/ PlaceFile \/ SomebodyElse
      BY <3>3, <2>1 DEF Transfer, PlaceFile, SomebodyElse, buildVars
    <3>4. CASE SourceChecked \/ EndDownload \/ CancelDownload \/ CheckAgain
      BY <3>4, <2>1
      DEF SourceChecked, EndDownload, CancelDownload, CheckAgain, buildVars
    <3>5. CASE \E p \in Path : OpenTarball(p) \/ DropTarball(p) \/ StartDownload(p)
      BY <3>5, <2>1 DEF OpenTarball, DropTarball, StartDownload, buildVars
    <3>6. CASE AskOverride \/ AnswerOverride \/ DropOverride \/ StartBuild
      BY <3>6, <2>1
      DEF AskOverride, AnswerOverride, DropOverride, StartBuild, PageOnly, buildVars
    <3>7. QED
      BY <2>1, <2>2, <2>3, <3>1, <3>2, <3>3, <3>4, <3>5, <3>6 DEF Next
<1>3. QED
  BY <1>1, <1>2, Invariant, PTL DEF Spec, KeepsTrust, Trust!Spec
=============================================================================
