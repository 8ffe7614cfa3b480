-------------------------- MODULE SystemPageProofs --------------------------
(* Theorems about SystemPage, for every set of versions, every computer and *)
(* any number of scans, of runs and of steps of others.                     *)
EXTENDS SystemPage, TLAPS, FiniteSetTheorems, WellFoundedInduction

\* What the constants are assumed to be, in parts.
LEMMA VersionsFinite == IsFiniteSet(Version)
BY SystemPageAssumption

LEMMA Bounds == MaxOthers \in Nat /\ MaxRuns \in Nat
BY SystemPageAssumption

LEMMA VersionType ==
    ASSUME NEW v \in Version
    PROVE  v.release \in Seq(Nat) /\ v.rc \in Nat \cup {NoRc} /\ v.rest \in Seq(Nat)
BY SystemPageAssumption

LEMMA StartType ==
    ASSUME NEW s \in Starts
    PROVE  s.machine \in Machine /\ s.kernels \subseteq Version /\ s.running \in s.kernels
BY SystemPageAssumption

-----------------------------------------------------------------------------
(* The app's order of versions.                                            *)

\* Being earlier is transitive ...
LEMMA EarlierTransitive ==
    ASSUME NEW a \in Seq(Nat), NEW b \in Seq(Nat), NEW c \in Seq(Nat),
           Earlier(a, b), Earlier(b, c)
    PROVE  Earlier(a, c)
<1>1. PICK i \in 1..Len(b) :
        /\ \A j \in 1..(i - 1) : j <= Len(a) /\ a[j] = b[j]
        /\ i > Len(a) \/ a[i] < b[i]
  BY DEF Earlier
<1>2. PICK k \in 1..Len(c) :
        /\ \A j \in 1..(k - 1) : j <= Len(b) /\ b[j] = c[j]
        /\ k > Len(b) \/ b[k] < c[k]
  BY DEF Earlier
<1>3. Len(a) \in Nat /\ Len(b) \in Nat /\ Len(c) \in Nat
  OBVIOUS
<1>4. CASE i < k
  <2>1. i \in 1..Len(c) /\ b[i] = c[i]
    BY <1>2, <1>3, <1>4
  <2>2. \A j \in 1..(i - 1) : j <= Len(a) /\ a[j] = c[j]
    BY <1>1, <1>2, <1>3, <1>4, SMTT(60)
  <2>3. QED
    BY <1>1, <2>1, <2>2 DEF Earlier
<1>5. CASE i = k
  <2>1. \A j \in 1..(i - 1) : j <= Len(a) /\ a[j] = c[j]
    BY <1>1, <1>2, <1>3, <1>5
  <2>2. i > Len(a) \/ a[i] < c[i]
    <3>1. SUFFICES ASSUME i <= Len(a) PROVE a[i] < c[i]
      BY <1>3
    <3>2. a[i] \in Nat /\ b[i] \in Nat /\ c[i] \in Nat
      BY <1>3, <1>5, <3>1, SMTT(60)
    <3>3. a[i] < b[i] /\ b[i] < c[i]
      BY <1>1, <1>2, <1>3, <1>5, <3>1
    <3>4. \A x, y, z \in Nat : x < y /\ y < z => x < z
      OBVIOUS
    <3>5. QED
      BY <3>2, <3>3, <3>4
  <2>3. QED
    BY <1>5, <2>1, <2>2 DEF Earlier
<1>6. CASE k < i
  <2>1. k <= Len(a) /\ a[k] = b[k] /\ k <= Len(b)
    BY <1>1, <1>3, <1>6
  <2>2. \A j \in 1..(k - 1) : j <= Len(a) /\ a[j] = c[j]
    BY <1>1, <1>2, <1>3, <1>6, SMTT(60)
  <2>3. a[k] < c[k]
    BY <1>2, <1>3, <2>1
  <2>4. QED
    BY <2>2, <2>3 DEF Earlier
<1>7. QED
  BY <1>4, <1>5, <1>6

\* ... and nothing is earlier than itself.
LEMMA EarlierIrreflexive ==
    ASSUME NEW a \in Seq(Nat)
    PROVE  ~Earlier(a, a)
<1>1. SUFFICES ASSUME NEW i \in 1..Len(a), i > Len(a) \/ a[i] < a[i] PROVE FALSE
  BY DEF Earlier
<1>2. a[i] \in Nat /\ Len(a) \in Nat
  OBVIOUS
<1>3. QED
  BY <1>1, <1>2

LEMMA KeyIsSeq ==
    ASSUME NEW v \in Version
    PROVE  VersionKey(v) \in Seq(Nat)
<1>1. v.release \in Seq(Nat) /\ v.rc \in Nat \cup {NoRc} /\ v.rest \in Seq(Nat)
  BY VersionType
<1>2. (IF v.rc = NoRc THEN <<1>> ELSE <<0, v.rc>>) \in Seq(Nat)
  <2>1. CASE v.rc = NoRc
    BY <2>1
  <2>2. CASE v.rc # NoRc
    BY <1>1, <2>2
  <2>3. QED
    BY <2>1, <2>2
<1>3. QED
  BY <1>1, <1>2 DEF VersionKey

LEMMA NewerIsOrder ==
    /\ \A u, v, w \in Version : Newer(u, v) /\ Newer(v, w) => Newer(u, w)
    /\ \A v \in Version : ~Newer(v, v)
<1>1. ASSUME NEW u \in Version, NEW v \in Version, NEW w \in Version, Newer(u, v), Newer(v, w)
      PROVE  Newer(u, w)
  BY <1>1, KeyIsSeq, EarlierTransitive DEF Newer
<1>2. \A v \in Version : ~Newer(v, v)
  BY KeyIsSeq, EarlierIrreflexive DEF Newer
<1>3. QED
  BY <1>1, <1>2

\* Of some versions one has none newer than it among them: the sets of those
\* newer than one of them are well-founded by inclusion, and the least is empty.
LEMMA NewestExists ==
    ASSUME NEW K \in SUBSET Version, K # {}
    PROVE  \E v \in K : \A w \in K : ~Newer(w, v)
<1> DEFINE Above(v) == {w \in K : Newer(w, v)}
<1> DEFINE T == {Above(v) : v \in K}
<1>1. \A v \in K : Above(v) \in FiniteSubsetsOf(K)
  <2>1. IsFiniteSet(K)
    BY VersionsFinite, FS_Subset
  <2>2. FiniteSubsetsOf(K) = SUBSET K
    BY <2>1, FS_FiniteSubsetsOfFinite
  <2>3. QED
    BY <2>2
<1>2. T \subseteq FiniteSubsetsOf(K) /\ T # {}
  <2>1. PICK x \in K : TRUE
    OBVIOUS
  <2>2. Above(x) \in T
    OBVIOUS
  <2>3. T \subseteq FiniteSubsetsOf(K)
    <3> HIDE DEF Above
    <3> QED
      BY <1>1
  <2>4. QED
    BY <2>2, <2>3
<1>3. IsWellFoundedOn(StrictSubsetOrdering(K), FiniteSubsetsOf(K))
  BY FS_StrictSubsetOrderingWellFounded
<1>4. PICK A \in T : \A B \in T : <<B, A>> \notin StrictSubsetOrdering(K)
  <2> HIDE DEF T
  <2> QED
    BY <1>2, <1>3, WFMin
<1>5. PICK v \in K : A = Above(v)
  BY <1>4
<1>6. \A w \in K : ~Newer(w, v)
  <2>1. SUFFICES ASSUME NEW w \in K, Newer(w, v) PROVE FALSE
    OBVIOUS
  <2>2. w \in Above(v) /\ w \notin Above(w)
    BY <2>1, NewerIsOrder
  <2>3. Above(w) \subseteq Above(v)
    BY <2>1, NewerIsOrder
  <2>4. Above(w) \in SUBSET K /\ Above(v) \in SUBSET K /\ Above(w) \in T
    OBVIOUS
  <2>5. <<Above(w), Above(v)>> \in StrictSubsetOrdering(K)
    <3> HIDE DEF Above
    <3>1. Above(w) # Above(v)
      BY <2>2
    <3>2. <<Above(w), Above(v)>> \in (SUBSET K) \X (SUBSET K)
      BY <2>4
    <3>3. QED
      BY <2>3, <3>1, <3>2 DEF StrictSubsetOrdering
  <2>6. QED
    BY <1>4, <1>5, <2>4, <2>5
<1>7. QED
  BY <1>6

\* The newest of the list is not among what goes.
Spared(list, going) == \E v \in list \ going : \A w \in list : ~Newer(w, v)

\* prune_candidates spares the newest, in the app's order.
LEMMA CandidatesSpare ==
    ASSUME NEW list \in SUBSET Version, NEW keep \in 1..Cardinality(Version),
           NEW going \in PruneCandidates(list, keep, running), going # {}
    PROVE  Spared(list, going) /\ going \in SUBSET Version /\ running \notin going
<1>1. PICK kept \in SUBSET list :
        /\ Cardinality(kept) = IF keep < Cardinality(list) THEN keep ELSE Cardinality(list)
        /\ \A v \in kept, w \in list \ kept : ~Newer(w, v)
        /\ going = (list \ kept) \ {running}
  BY DEF PruneCandidates
<1>2. IsFiniteSet(list) /\ IsFiniteSet(kept) /\ list # {}
  BY <1>1, VersionsFinite, FS_Subset
<1>3. Cardinality(list) \in Nat /\ Cardinality(list) # 0 /\ Cardinality(Version) \in Nat
  BY <1>2, VersionsFinite, FS_CardinalityType, FS_EmptySet
<1>4. Cardinality(kept) # 0
  BY <1>1, <1>3
<1>5. kept # {}
  BY <1>4, FS_EmptySet
<1>6. PICK v \in kept : \A w \in kept : ~Newer(w, v)
  BY <1>5, NewestExists
<1>7. \A w \in list : ~Newer(w, v)
  BY <1>1, <1>6
<1>8. v \in list \ going
  BY <1>1
<1>9. QED
  BY <1>1, <1>7, <1>8 DEF Spared

-----------------------------------------------------------------------------
(* The inductive invariant.                                                *)

\* A run that has said nothing has changed nothing, until a mode tells of what
\* it did; so what pkexec's own codes are taken for is what they say.
RunInv ==
    /\ run \in {"helper", "auth"} => ~changed /\ ~said
    /\ run = "script" /\ ~said => ~changed
    /\ run = "exited" /\ code \in {"126", "127"} /\ ~said => ~changed
    /\ CancelledChangedNothing

\* A bulk removal works on what was chosen from the list the user reviewed.
PruneInv ==
    /\ dialog.about # "none" => busy \in {"none", "signature check"}
    /\ dialog.about = "confirm" => Spared(reviewed, dialog.kernels) /\ running \notin dialog.kernels
    /\ busy = "bulk removal" => Spared(reviewed, todo \cup gone) /\ running \notin todo \cup gone
    /\ gone # {} => busy = "bulk removal" /\ run \notin {"helper", "auth"}
    /\ newest \cap gone = {}

PageInv == TypeOK /\ RunInv /\ PruneInv

-----------------------------------------------------------------------------
(* Groups of steps.                                                        *)

\* A scan goes on, ends, or is asked for.
Scanning == ScanSigning \/ ScanKernels \/ SysinfoLoaded \/ ClickRefresh

LEMMA ScanningDoes ==
    ASSUME TypeOK, Scanning
    PROVE  /\ UNCHANGED <<machineVars, others, runs, busy, dialog, jobVars, runVars>>
           /\ info' \in Info
           /\ scans' \subseteq [step : {"signing", "kernels", "answer"}, info : Info]
<1> DEFINE ScanSet == [step : {"signing", "kernels", "answer"}, info : Info]
<1>1. info \in Info /\ scans \subseteq ScanSet /\ kernels \subseteq Version
  BY DEF TypeOK
<1>2. NoInfo \in Info
  BY DEF NoInfo, Info, Signing
<1>3. Scan("signing") \in ScanSet
  BY <1>2 DEF Scan
<1>4. CASE ScanSigning
  <2>1. PICK s \in scans : scans' = (scans \ {s}) \cup
             {[step |-> "kernels", info |-> [NoInfo EXCEPT !.signing = DetectKernelSigning(machine)]]}
    BY <1>4 DEF ScanSigning
  <2>2. DetectKernelSigning(machine) \in Signing
    BY DEF DetectKernelSigning, CombineKernelSigning, Signing
  <2>3. [NoInfo EXCEPT !.signing = DetectKernelSigning(machine)] \in Info
    BY <1>2, <2>2 DEF Info
  <2>4. [step |-> "kernels", info |-> [NoInfo EXCEPT !.signing = DetectKernelSigning(machine)]] \in ScanSet
    BY <2>3
  <2>5. QED
    <3> HIDE DEF ScanSet
    <3>1. scans' \subseteq ScanSet
      BY <1>1, <2>1, <2>4
    <3>2. QED
      BY <1>1, <1>4, <3>1 DEF ScanSigning, ScanSet
<1>5. CASE ScanKernels
  <2>1. PICK s \in scans : scans' = (scans \ {s}) \cup
             {[step |-> "answer", info |-> [s.info EXCEPT !.kernels = kernels]]}
    BY <1>5 DEF ScanKernels
  <2>2. s.info \in Info
    BY <1>1
  <2>3. [s.info EXCEPT !.kernels = kernels] \in Info
    BY <1>1, <2>2 DEF Info
  <2>4. [step |-> "answer", info |-> [s.info EXCEPT !.kernels = kernels]] \in ScanSet
    BY <2>3
  <2>5. QED
    <3> HIDE DEF ScanSet
    <3>1. scans' \subseteq ScanSet
      BY <1>1, <2>1, <2>4
    <3>2. QED
      BY <1>1, <1>5, <3>1 DEF ScanKernels, ScanSet
<1>6. CASE SysinfoLoaded
  <2>1. PICK s \in scans : scans' = scans \ {s} /\ info' = s.info
    BY <1>6 DEF SysinfoLoaded
  <2>2. s.info \in Info
    BY <1>1
  <2>3. QED
    <3> HIDE DEF ScanSet
    <3>1. scans' \subseteq ScanSet
      BY <1>1, <2>1
    <3>2. QED
      BY <1>6, <2>1, <2>2, <3>1 DEF SysinfoLoaded, ScanSet
<1>7. CASE ClickRefresh
  <2> HIDE DEF ScanSet
  <2>1. scans' \subseteq ScanSet
    BY <1>1, <1>3, <1>7 DEF ClickRefresh, LoadSysinfo
  <2>2. QED
    BY <1>1, <1>7, <2>1 DEF ClickRefresh, ScanSet
<1>8. QED
  BY <1>4, <1>5, <1>6, <1>7 DEF Scanning

\* A dialog opens, or the one that asks how many to keep is answered.
Opening == ClickPrune \/ ClickSetUp \/ AnswerKeep \/ \E v \in Version : ClickRemove(v)

LEMMA OpeningDoes ==
    ASSUME TypeOK, PruneInv, Opening
    PROVE  \E about \in {"none", "remove", "keep", "confirm", "setup"}, K \in SUBSET Version :
             /\ Open(about, K)
             /\ busy \in {"none", "signature check"}
             /\ about = "confirm" => Spared(info.kernels, K) /\ running \notin K
<1>1. info.kernels \in SUBSET Version
  BY DEF TypeOK, Info
<1>2. CASE ClickPrune
  BY <1>2 DEF ClickPrune, Clickable
<1>3. CASE ClickSetUp
  BY <1>3 DEF ClickSetUp, Clickable
<1>4. CASE AnswerKeep
  <2>1. busy \in {"none", "signature check"}
    BY <1>4 DEF AnswerKeep, PruneInv
  <2>2. CASE Open("none", {})
    BY <2>1, <2>2
  <2>3. ASSUME NEW keep \in 1..Cardinality(Version),
               NEW candidates \in PruneCandidates(info.kernels, keep, running),
               candidates # {}, Open("confirm", candidates)
        PROVE  \E about \in {"none", "remove", "keep", "confirm", "setup"}, K \in SUBSET Version :
                 /\ Open(about, K)
                 /\ busy \in {"none", "signature check"}
                 /\ about = "confirm" => Spared(info.kernels, K) /\ running \notin K
    <3>1. Spared(info.kernels, candidates) /\ candidates \in SUBSET Version /\ running \notin candidates
      BY <1>1, <2>3, CandidatesSpare
    <3>2. QED
      BY <2>1, <2>3, <3>1
  <2>4. QED
    BY <1>4, <2>2, <2>3 DEF AnswerKeep
<1>5. ASSUME NEW v \in Version, ClickRemove(v)
      PROVE  \E K \in SUBSET Version : Open("remove", K) /\ busy = "none"
  BY <1>5 DEF ClickRemove, Clickable
<1>6. QED
  BY <1>2, <1>3, <1>4, <1>5 DEF Opening

\* The script is called.
Beginning ==
    \/ ClickTools \/ \E v \in Version : ClickSign(v) \/ ClickBootNext(v)
    \/ AnswerDialog

LEMMA BeginningDoes ==
    ASSUME TypeOK, PruneInv, Beginning
    PROVE  /\ dialog' = NoDialog /\ UNCHANGED <<machineVars, others, info, scans>>
           /\ \/ \E what \in Actions, K \in SUBSET Version :
                   /\ Begin(what, K)
                   /\ what = "bulk removal" => Spared(reviewed, K) /\ running \notin K
              \/ UNCHANGED <<busy, runs, jobVars, runVars>>
<1>1. dialog.kernels \in SUBSET Version
  BY DEF TypeOK
<1>2. CASE ClickTools
  BY <1>2 DEF ClickTools, Clickable, Actions
<1>3. CASE \E v \in Version : ClickSign(v) \/ ClickBootNext(v)
  <2>1. PICK v \in Version : ClickSign(v) \/ ClickBootNext(v)
    BY <1>3
  <2>2. CASE ClickSign(v)
    BY <2>2 DEF ClickSign, Clickable, Actions
  <2>3. CASE ClickBootNext(v)
    BY <2>3 DEF ClickBootNext, Clickable, Actions
  <2>4. QED
    BY <2>1, <2>2, <2>3
<1>4. CASE AnswerDialog
  <2>1. PICK about \in {"remove", "confirm", "setup"},
             what \in {"kernel removal", "bulk removal", "signing setup"} :
          Answer(about, what) /\ (what = "bulk removal" => about = "confirm")
    BY <1>4 DEF AnswerDialog
  <2>2. dialog.about = about /\ dialog' = NoDialog /\ UNCHANGED <<machineVars, others, info, scans>>
    BY <2>1 DEF Answer
  <2>3. what \in Actions
    BY <2>1 DEF Actions
  <2>4. what = "bulk removal" => Spared(reviewed, dialog.kernels) /\ running \notin dialog.kernels
    BY <2>1, <2>2 DEF PruneInv
  <2>5. QED
    BY <1>1, <2>1, <2>2, <2>3, <2>4 DEF Answer, Refused
<1>5. QED
  BY <1>2, <1>3, <1>4 DEF Beginning

\* The script works and talks.
Working ==
    \/ \E v \in Version : RemoveKernel(v)
    \/ WorkSilently \/ SetUp \/ InstallTools \/ StartScript \/ Talk

\* The window turns to a tarball and back.
Dropping == DropTarball \/ SourceChecked

LEMMA NextSteps ==
    Next => Scanning \/ Opening \/ Beginning \/ Dropping \/ Working \/ RunReported \/ SomebodyElse
BY DEF Next, Scanning, Opening, Beginning, Dropping, Working

-----------------------------------------------------------------------------
(* A run of the script.                                                    *)

\* What the steps do to a run: nothing, or one of the steps of Privileged.
RunMoves ==
    \/ UNCHANGED runVars
    \/ run = "off" /\ RunScript
    \/ CheckHelper \/ Authenticate \/ Say \/ Report
    \/ \E silently \in BOOLEAN : Change(silently)
    \/ \E c \in Codes : Exit(c)

LEMMA MovesOfRun ==
    ASSUME TypeOK, PruneInv, Next
    PROVE  RunMoves
<1>1. CASE Scanning
  BY <1>1, ScanningDoes DEF RunMoves
<1>2. CASE Opening
  BY <1>2, OpeningDoes DEF Open, RunMoves
<1>3. CASE Beginning
  <2>1. CASE UNCHANGED runVars
    BY <2>1 DEF RunMoves
  <2>2. ASSUME NEW what, NEW K, Begin(what, K) PROVE RunMoves
    <3>1. run = "off"
      BY <2>2 DEF Begin, TypeOK, RunTypeOK, Actions
    <3>2. QED
      BY <2>2, <3>1 DEF Begin, RunMoves
  <2>3. QED
    BY <1>3, <2>1, <2>2, BeginningDoes
<1>4. CASE Dropping
  BY <1>4 DEF Dropping, DropTarball, SourceChecked, RunMoves
<1>5. CASE Working
  <2>1. ASSUME NEW v \in Version, RemoveKernel(v) PROVE RunMoves
    BY <2>1 DEF RemoveKernel, RunMoves
  <2>2. CASE WorkSilently
    BY <2>2 DEF WorkSilently, RunMoves
  <2>3. CASE SetUp
    BY <2>3 DEF SetUp, RunMoves
  <2>4. CASE InstallTools
    BY <2>4 DEF InstallTools, RunMoves
  <2>5. CASE StartScript
    BY <2>5 DEF StartScript, RunMoves
  <2>6. CASE Talk
    BY <2>6 DEF Talk, RunMoves
  <2>7. QED
    BY <1>5, <2>1, <2>2, <2>3, <2>4, <2>5, <2>6 DEF Working
<1>6. CASE RunReported
  BY <1>6 DEF RunReported, RunMoves
<1>7. CASE SomebodyElse
  BY <1>7 DEF SomebodyElse, RunMoves
<1>8. QED
  BY <1>1, <1>2, <1>3, <1>4, <1>5, <1>6, <1>7, NextSteps

LEMMA RunStep ==
    ASSUME RunTypeOK, RunInv, RunMoves
    PROVE  RunTypeOK' /\ RunInv'
<1> USE DEF RunTypeOK, RunInv, CancelledChangedNothing
<1>1. CASE UNCHANGED runVars
  BY <1>1 DEF runVars
<1>2. CASE run = "off" /\ RunScript
  BY <1>2 DEF RunScript, Codes
<1>3. CASE CheckHelper
  BY <1>3 DEF CheckHelper, Codes
<1>4. CASE Authenticate
  BY <1>4 DEF Authenticate, Codes
<1>5. CASE Say
  BY <1>5 DEF Say
<1>6. ASSUME NEW silently \in BOOLEAN, Change(silently) PROVE RunTypeOK' /\ RunInv'
  BY <1>6 DEF Change
<1>7. ASSUME NEW c \in Codes, Exit(c) PROVE RunTypeOK' /\ RunInv'
  BY <1>7 DEF Exit, Codes
<1>8. CASE Report
  <2>1. DescribeFailure \in Messages
    BY DEF DescribeFailure, Messages
  <2>2. DescribeFailure \in {"cancelled", "not authorized"} => code \in {"126", "127"} /\ ~said
    BY DEF DescribeFailure
  <2>3. run = "exited" /\ run' = "off" /\ message' = DescribeFailure
        /\ said' = FALSE /\ code' = "none" /\ UNCHANGED changed
    BY <1>8 DEF Report
  <2>4. QED
    BY <2>1, <2>2, <2>3 DEF Codes
<1>9. QED
  BY <1>1, <1>2, <1>3, <1>4, <1>5, <1>6, <1>7, <1>8 DEF RunMoves

-----------------------------------------------------------------------------
(* Types, and the bulk removal.                                            *)

PageTypeOK ==
    /\ kernels \subseteq Version /\ running \in kernels /\ machine \in Machine
    /\ machine.mounted => machine.efi
    /\ others \in 0..MaxOthers /\ runs \in 0..MaxRuns
    /\ info \in Info
    /\ scans \subseteq [step : {"signing", "kernels", "answer"}, info : Info]
    /\ busy \in Actions \cup {"none", "signature check"}
    /\ run # "off" => busy \in Actions
    /\ dialog \in [about : {"none", "remove", "keep", "confirm", "setup"}, kernels : SUBSET Version]
    /\ todo \subseteq Version /\ newest \subseteq Version
    /\ reviewed \subseteq Version /\ gone \subseteq Version

LEMMA ScanningStep ==
    ASSUME TypeOK, PruneInv, Scanning
    PROVE  PageTypeOK' /\ PruneInv'
<1>1. /\ UNCHANGED <<machineVars, others, runs, busy, dialog, jobVars, runVars>>
      /\ info' \in Info
      /\ scans' \subseteq [step : {"signing", "kernels", "answer"}, info : Info]
  BY ScanningDoes
<1>2. PageTypeOK'
  BY <1>1 DEF TypeOK, PageTypeOK, machineVars, jobVars, runVars
<1>3. PruneInv'
  BY <1>1 DEF PruneInv, machineVars, jobVars, runVars
<1>4. QED
  BY <1>2, <1>3

LEMMA OpeningStep ==
    ASSUME TypeOK, PruneInv, Opening
    PROVE  PageTypeOK' /\ PruneInv'
<1>1. PICK about \in {"none", "remove", "keep", "confirm", "setup"}, K \in SUBSET Version :
        /\ Open(about, K)
        /\ busy \in {"none", "signature check"}
        /\ about = "confirm" => Spared(info.kernels, K) /\ running \notin K
  BY OpeningDoes
<1>2. /\ dialog' = [about |-> about, kernels |-> K]
      /\ reviewed' = IF about = "confirm" THEN info.kernels ELSE {}
      /\ UNCHANGED <<machineVars, others, runs, info, scans, busy, todo, newest, gone, runVars>>
  BY <1>1 DEF Open
<1>3. reviewed' \subseteq Version
  BY <1>2 DEF TypeOK, Info
<1>4. dialog' \in [about : {"none", "remove", "keep", "confirm", "setup"}, kernels : SUBSET Version]
      /\ dialog'.about = about /\ dialog'.kernels = K
  BY <1>2
<1>5. PageTypeOK'
  BY <1>2, <1>3, <1>4 DEF TypeOK, PageTypeOK, machineVars, runVars
<1>6. PruneInv'
  BY <1>1, <1>2, <1>4 DEF PruneInv, machineVars, runVars
<1>7. QED
  BY <1>5, <1>6

LEMMA BeginningStep ==
    ASSUME TypeOK, PruneInv, Beginning
    PROVE  PageTypeOK' /\ PruneInv'
<1>1. dialog' = NoDialog /\ UNCHANGED <<machineVars, others, info, scans>>
  BY BeginningDoes
<1>2. dialog' \in [about : {"none", "remove", "keep", "confirm", "setup"}, kernels : SUBSET Version]
      /\ dialog'.about = "none"
  BY <1>1 DEF NoDialog
<1>3. CASE UNCHANGED <<busy, runs, jobVars, runVars>>
  <2>1. PageTypeOK'
    BY <1>1, <1>2, <1>3 DEF TypeOK, PageTypeOK, machineVars, jobVars, runVars
  <2>2. PruneInv'
    BY <1>1, <1>2, <1>3 DEF PruneInv, machineVars, jobVars, runVars
  <2>3. QED
    BY <2>1, <2>2
<1>4. ASSUME NEW what \in Actions, NEW K \in SUBSET Version, Begin(what, K),
             what = "bulk removal" => Spared(reviewed, K) /\ running \notin K
      PROVE  PageTypeOK' /\ PruneInv'
  <2>1. /\ busy = "none" /\ runs < MaxRuns /\ busy' = what /\ runs' = runs + 1 /\ todo' = K
        /\ newest' = {} /\ gone' = {} /\ reviewed' = reviewed
    BY <1>4 DEF Begin
  <2>2. runs' \in 0..MaxRuns
    BY <2>1, Bounds DEF TypeOK
  <2>3. PageTypeOK'
    BY <1>1, <1>2, <2>1, <2>2 DEF TypeOK, PageTypeOK, machineVars
  <2>4. todo' \cup gone' = K
    BY <2>1
  <2>5. PruneInv'
    BY <1>1, <1>2, <1>4, <2>1, <2>4 DEF PruneInv, machineVars
  <2>6. QED
    BY <2>3, <2>5
<1>5. QED
  BY <1>3, <1>4, BeginningDoes

LEMMA DroppingStep ==
    ASSUME TypeOK, PruneInv, Dropping
    PROVE  PageTypeOK' /\ PruneInv'
<1>1. /\ busy \in {"none", "signature check"} /\ busy' \in {"none", "signature check"}
      /\ UNCHANGED <<machineVars, others, runs, info, scans, dialog, jobVars, runVars>>
  BY DEF Dropping, DropTarball, SourceChecked
<1>2. run = "off"
  BY <1>1 DEF TypeOK, RunTypeOK, Actions
<1>3. PageTypeOK'
  BY <1>1, <1>2 DEF TypeOK, PageTypeOK, machineVars, jobVars, runVars
<1>4. PruneInv'
  BY <1>1 DEF PruneInv, machineVars, jobVars, runVars
<1>5. QED
  BY <1>3, <1>4

\* Less to do, or more of it done, spares what was spared.
LEMMA SparedStays ==
    ASSUME NEW list, NEW A, NEW B, Spared(list, A), B \subseteq A
    PROVE  Spared(list, B)
BY DEF Spared

\* The steps of the script leave the page alone, and keep to what is to do.
LEMMA WorkingStep ==
    ASSUME TypeOK, PruneInv, Working
    PROVE  PageTypeOK' /\ PruneInv'
<1>1. /\ UNCHANGED <<others, runs, pageVars, running, reviewed>>
      /\ busy \in Actions /\ run # "off"
  <2>1. UNCHANGED <<others, runs, pageVars, running, reviewed>> /\ run # "off"
    <3>1. ASSUME NEW v \in Version, RemoveKernel(v)
          PROVE  UNCHANGED <<others, runs, pageVars, running, reviewed>> /\ run # "off"
      BY <3>1 DEF RemoveKernel, PageSame, Change
    <3>2. CASE WorkSilently \/ SetUp \/ InstallTools
      BY <3>2 DEF WorkSilently, SetUp, InstallTools, PageSame, Change, machineVars, jobVars
    <3>3. CASE StartScript
      BY <3>3 DEF StartScript, Authenticate, PageSame, machineVars
    <3>4. CASE Talk
      BY <3>4 DEF Talk, CheckHelper, Say, Exit, PageSame, machineVars, jobVars
    <3>5. QED
      BY <3>1, <3>2, <3>3, <3>4 DEF Working
  <2>2. QED
    BY <2>1 DEF TypeOK
<1>2. UNCHANGED <<info, scans, busy, dialog>>
  BY <1>1 DEF pageVars
<1>3. ASSUME /\ kernels' \subseteq Version /\ running \in kernels' /\ machine' \in Machine
             /\ machine'.mounted => machine'.efi
             /\ todo' \subseteq Version /\ newest' \subseteq Version /\ gone' \subseteq Version
      PROVE  PageTypeOK'
  BY <1>1, <1>2, <1>3 DEF TypeOK, PageTypeOK
<1>4. ASSUME /\ todo' \cup gone' \subseteq todo \cup gone
             /\ gone' # {} => busy = "bulk removal" /\ run' \notin {"helper", "auth"}
             /\ newest' \cap gone' = {}
      PROVE  PruneInv'
  <2>1. busy = "bulk removal" => Spared(reviewed, todo' \cup gone') /\ running \notin todo' \cup gone'
    BY <1>4, SparedStays DEF PruneInv
  <2>2. QED
    BY <1>1, <1>2, <1>4, <2>1 DEF PruneInv
<1>5. /\ kernels \subseteq Version /\ running \in kernels /\ machine \in Machine
      /\ machine.mounted => machine.efi
      /\ todo \subseteq Version /\ newest \subseteq Version /\ gone \subseteq Version
      /\ newest \cap gone = {} /\ (gone # {} => busy = "bulk removal" /\ run \notin {"helper", "auth"})
  BY DEF TypeOK, PruneInv
<1>6. ASSUME NEW v \in Version, RemoveKernel(v) PROVE PageTypeOK' /\ PruneInv'
  <2>1. /\ v \in todo /\ todo' = todo \ {v} /\ newest' = newest /\ machine' = machine
        /\ busy \in {"kernel removal", "bulk removal"}
        /\ run' \in {"script", "tell"}
        /\ \/ v \in kernels \ ({running} \cup newest) /\ kernels' = kernels \ {v}
              /\ gone' = IF busy = "bulk removal" THEN gone \cup {v} ELSE gone
           \/ kernels' = kernels /\ gone' = gone
    BY <1>6 DEF RemoveKernel, Change, runVars
  <2>2. PageTypeOK'
    BY <1>3, <1>5, <2>1
  <2>3. todo' \cup gone' \subseteq todo \cup gone
    BY <2>1
  <2>4. newest' \cap gone' = {}
    BY <1>5, <2>1
  <2>5. gone' # {} => busy = "bulk removal" /\ run' \notin {"helper", "auth"}
    BY <1>5, <2>1
  <2>6. PruneInv'
    BY <1>4, <2>3, <2>4, <2>5
  <2>7. QED
    BY <2>2, <2>6
<1>7. CASE WorkSilently
  <2>1. /\ UNCHANGED <<machineVars, newest, gone>> /\ todo' = {} /\ run' \in {"script", "tell"}
    BY <1>7 DEF WorkSilently, Change
  <2>2. PageTypeOK'
    BY <1>3, <1>5, <2>1 DEF machineVars
  <2>3. PruneInv'
    BY <1>4, <1>5, <2>1
  <2>4. QED
    BY <2>2, <2>3
<1>8. CASE SetUp
  <2>1. /\ UNCHANGED <<kernels, running, jobVars>> /\ run' \in {"script", "tell"}
    BY <1>8 DEF SetUp, Change
  <2>2. PICK m \in {[machine EXCEPT !.mounted = @ \/ machine.efi],
                    [machine EXCEPT !.mokutil = TRUE, !.sbsign = TRUE],
                    [machine EXCEPT !.key = machine.sbsign],
                    IF machine.key /\ machine.mounted /\ machine.mokutil /\ ~machine.enrolled
                    THEN [machine EXCEPT !.queued = TRUE, !.listed = TRUE] ELSE machine} : machine' = m
    BY <1>8 DEF SetUp
  <2>3. m \in Machine /\ (m.mounted => m.efi)
    BY <1>5, <2>2, ZenonT(60) DEF Machine
  <2>4. PageTypeOK'
    BY <1>3, <1>5, <2>1, <2>2, <2>3 DEF jobVars
  <2>5. PruneInv'
    BY <1>4, <1>5, <2>1 DEF jobVars
  <2>6. QED
    BY <2>4, <2>5
<1>9. CASE InstallTools
  <2>1. UNCHANGED <<machineVars, jobVars>> /\ run' \in {"script", "tell"}
    BY <1>9 DEF InstallTools, Change
  <2>2. PageTypeOK'
    BY <1>3, <1>5, <2>1 DEF machineVars, jobVars
  <2>3. PruneInv'
    BY <1>4, <1>5, <2>1 DEF jobVars
  <2>4. QED
    BY <2>2, <2>3
<1>10. CASE StartScript
  <2>1. /\ run = "auth" /\ run' \in {"script", "exited"} /\ UNCHANGED <<machineVars, todo, gone>>
        /\ newest' \in {NewestInList(kernels), {}}
    BY <1>10 DEF StartScript, Authenticate
  <2>2. gone = {}
    BY <2>1 DEF PruneInv
  <2>3. newest' \subseteq Version
    BY <1>5, <2>1 DEF NewestInList
  <2>4. PageTypeOK'
    BY <1>3, <1>5, <2>1, <2>3 DEF machineVars
  <2>5. PruneInv'
    BY <1>4, <2>1, <2>2
  <2>6. QED
    BY <2>4, <2>5
<1>11. CASE Talk
  <2>1. UNCHANGED <<machineVars, jobVars>>
    BY <1>11 DEF Talk
  <2>2. run' \in {"helper", "auth"} => run \in {"helper", "auth"}
    BY <1>11 DEF Talk, CheckHelper, Say, Exit
  <2>3. PageTypeOK'
    BY <1>3, <1>5, <2>1 DEF machineVars, jobVars
  <2>4. PruneInv'
    BY <1>4, <1>5, <2>1, <2>2 DEF jobVars
  <2>5. QED
    BY <2>3, <2>4
<1>12. QED
  BY <1>6, <1>7, <1>8, <1>9, <1>10, <1>11 DEF Working

LEMMA ReportedStep ==
    ASSUME TypeOK, PruneInv, RunReported
    PROVE  PageTypeOK' /\ PruneInv'
<1> DEFINE ScanSet == [step : {"signing", "kernels", "answer"}, info : Info]
<1>1. /\ busy' = "none" /\ todo' = {} /\ newest' = {} /\ reviewed' = {} /\ gone' = {} /\ run' = "off"
      /\ UNCHANGED <<machineVars, others, runs, info, dialog>>
      /\ scans' \subseteq scans \cup {Scan("signing")}
  BY DEF RunReported, Report, LoadSysinfo
<1>2. Scan("signing") \in ScanSet
  BY DEF Scan, NoInfo, Info, Signing
<1>3. scans' \subseteq ScanSet
  <2> HIDE DEF ScanSet
  <2>1. scans \subseteq ScanSet
    BY DEF TypeOK, ScanSet
  <2>2. QED
    BY <1>1, <1>2, <2>1
<1>4. PageTypeOK'
  BY <1>1, <1>3 DEF TypeOK, PageTypeOK, machineVars
<1>5. PruneInv'
  <2>1. run = "exited"
    BY DEF RunReported, Report
  <2>2. busy \in Actions
    BY <2>1 DEF TypeOK
  <2>3. dialog.about = "none"
    BY <2>2 DEF PruneInv, Actions
  <2>4. QED
    BY <1>1, <2>3 DEF PruneInv, machineVars
<1>6. QED
  BY <1>4, <1>5

LEMMA SomebodyStep ==
    ASSUME TypeOK, PruneInv, SomebodyElse
    PROVE  PageTypeOK' /\ PruneInv'
<1>1. /\ others < MaxOthers /\ others' = others + 1
      /\ UNCHANGED <<running, runs, pageVars, jobVars, runVars>>
  BY DEF SomebodyElse
<1>2. others' \in 0..MaxOthers
  <2>1. others \in 0..MaxOthers /\ others < MaxOthers /\ others' = others + 1
    BY <1>1 DEF TypeOK
  <2>2. QED
    BY <2>1, Bounds
<1>3. kernels' \subseteq Version /\ running \in kernels'
  <2>1. UNCHANGED kernels \/ \E v \in Version \ {running} :
          kernels' = (IF v \in kernels THEN kernels \ {v} ELSE kernels \cup {v})
    BY DEF SomebodyElse
  <2>2. QED
    BY <2>1 DEF TypeOK
<1>4. machine' \in Machine /\ (machine'.mounted => machine'.efi)
  <2>1. machine \in Machine /\ (machine.mounted => machine.efi)
    BY DEF TypeOK
  <2>2. CASE UNCHANGED machine
    BY <2>1, <2>2
  <2>3. ASSUME NEW q \in BOOLEAN, NEW l \in BOOLEAN,
               machine' = [machine EXCEPT !.queued = q, !.listed = machine.listed /\ l]
        PROVE  machine' \in Machine /\ (machine'.mounted => machine'.efi)
    BY <2>1, <2>3 DEF Machine
  <2>4. CASE machine' = [machine EXCEPT !.mounted = FALSE]
    BY <2>1, <2>4 DEF Machine
  <2>5. QED
    BY <2>2, <2>3, <2>4 DEF SomebodyElse
<1>5. PageTypeOK'
  BY <1>1, <1>2, <1>3, <1>4 DEF TypeOK, PageTypeOK, pageVars, jobVars, runVars
<1>6. PruneInv'
  BY <1>1 DEF PruneInv, pageVars, jobVars, runVars
<1>7. QED
  BY <1>5, <1>6

-----------------------------------------------------------------------------
(* The invariant, and what follows.                                        *)

LEMMA InitInv == Init => PageInv
<1>1. SUFFICES ASSUME Init PROVE PageInv
  OBVIOUS
<1>2. PICK s \in Starts :
        Possible(s.machine) /\ machine = s.machine /\ kernels = s.kernels /\ running = s.running
  BY <1>1 DEF Init
<1>3. /\ kernels \subseteq Version /\ running \in kernels
      /\ machine \in Machine /\ (machine.mounted => machine.efi)
  BY <1>2, StartType DEF Possible
<1>4. /\ others = 0 /\ runs = 0
      /\ info = NoInfo /\ scans = {Scan("signing")}
      /\ busy = "none" /\ dialog = NoDialog
      /\ todo = {} /\ newest = {} /\ reviewed = {} /\ gone = {}
      /\ RunInit
  BY <1>1 DEF Init
<1>5. NoInfo \in Info
  BY DEF NoInfo, Info, Signing
<1>6. Scan("signing") \in [step : {"signing", "kernels", "answer"}, info : Info]
  BY <1>5 DEF Scan
<1>7. RunTypeOK /\ RunInv
  BY <1>4 DEF RunInit, RunTypeOK, RunInv, CancelledChangedNothing, Codes, Messages
<1>8. dialog \in [about : {"none", "remove", "keep", "confirm", "setup"}, kernels : SUBSET Version]
      /\ dialog.about = "none"
  BY <1>4 DEF NoDialog
<1>9. run = "off"
  BY <1>4 DEF RunInit
<1>10. others \in 0..MaxOthers /\ runs \in 0..MaxRuns
  BY <1>4, Bounds
<1>11. TypeOK
  BY <1>3, <1>4, <1>5, <1>6, <1>7, <1>8, <1>9, <1>10 DEF TypeOK
<1>12. PruneInv
  BY <1>4, <1>8 DEF PruneInv
<1>13. QED
  BY <1>7, <1>11, <1>12 DEF PageInv

LEMMA StepInv == PageInv /\ [Next]_vars => PageInv'
<1>1. SUFFICES ASSUME PageInv, [Next]_vars PROVE PageInv'
  OBVIOUS
<1>2. TypeOK /\ RunInv /\ PruneInv /\ RunTypeOK
  BY <1>1 DEF PageInv, TypeOK
<1>3. RunTypeOK' /\ PageTypeOK' => TypeOK'
  BY DEF TypeOK, PageTypeOK
<1>4. CASE UNCHANGED vars
  <2>1. UNCHANGED <<machineVars, others, runs, pageVars, jobVars, runVars>>
    BY <1>4 DEF vars
  <2>2. RunTypeOK' /\ RunInv'
    BY <1>2, <2>1, RunStep DEF RunMoves
  <2>3. PageTypeOK' /\ PruneInv'
    BY <1>2, <2>1 DEF TypeOK, PageTypeOK, PruneInv, machineVars, pageVars, jobVars, runVars
  <2>4. QED
    BY <1>3, <2>2, <2>3 DEF PageInv
<1>5. CASE Next
  <2>1. RunTypeOK' /\ RunInv'
    BY <1>2, <1>5, MovesOfRun, RunStep
  <2>2. PageTypeOK' /\ PruneInv'
    BY <1>2, <1>5, NextSteps, ScanningStep, OpeningStep, BeginningStep, DroppingStep, WorkingStep,
       ReportedStep, SomebodyStep
  <2>3. QED
    BY <1>3, <2>1, <2>2 DEF PageInv
<1>6. QED
  BY <1>1, <1>4, <1>5

LEMMA Invariant == Spec => []PageInv
BY InitInv, StepInv, PTL DEF Spec

\* The machine, the page, the run and the job of the script have their types.
THEOREM SystemPageTypeCorrect == Spec => []TypeOK
<1>1. PageInv => TypeOK
  BY DEF PageInv
<1>2. QED
  BY <1>1, Invariant, PTL

\* When the window says that authentication was cancelled or not authorized,
\* the script has changed nothing (describe_failure).
THEOREM CancelledIsHarmless == Spec => []CancelledChangedNothing
<1>1. PageInv => CancelledChangedNothing
  BY DEF PageInv, RunInv
<1>2. QED
  BY <1>1, Invariant, PTL

\* A bulk removal takes neither the running kernel, nor the newest of the list
\* the user reviewed, nor the newest the script found (prune_candidates,
\* do_remove_many), in whatever way the two orders differ.
THEOREM NewestIsKept == Spec => []PruneKeepsNewest
<1>1. PageInv => PruneKeepsNewest
  <2>1. SUFFICES ASSUME PageInv, gone # {}
                 PROVE  /\ running \notin gone /\ newest \cap gone = {}
                        /\ \E v \in reviewed \ gone : \A w \in reviewed : ~Newer(w, v)
    BY DEF PruneKeepsNewest
  <2>2. PruneInv
    BY <2>1 DEF PageInv
  <2>3. Spared(reviewed, todo \cup gone) /\ running \notin todo \cup gone /\ newest \cap gone = {}
    BY <2>1, <2>2 DEF PruneInv
  <2>4. Spared(reviewed, gone)
    BY <2>3, SparedStays
  <2>5. QED
    BY <2>3, <2>4 DEF Spared
<1>2. QED
  BY <1>1, Invariant, PTL

\* What the app's check before an install lets through and what the script's
\* does (install_blocker, secure_boot_preflight) are for every machine as
\* PreflightsAgree says.
THEOREM ChecksAgree == Spec => []PreflightsAgree
<1>1. PageInv => PreflightsAgree
  <2>1. SUFFICES ASSUME PageInv PROVE PreflightsAgree
    OBVIOUS
  <2>2. /\ machine.efi \in BOOLEAN /\ machine.mounted \in BOOLEAN /\ machine.on \in BOOLEAN
        /\ machine.validation \in BOOLEAN /\ machine.mokutil \in BOOLEAN /\ machine.sbsign \in BOOLEAN
        /\ machine.key \in BOOLEAN /\ machine.enrolled \in BOOLEAN /\ machine.queued \in BOOLEAN
        /\ machine.listed \in BOOLEAN /\ (machine.mounted => machine.efi)
    BY <2>1 DEF PageInv, TypeOK, Machine
  <2>3. machine \in Machine
    BY <2>1 DEF PageInv, TypeOK
  <2> DEFINE m == Mounted(machine)
  <2>4. /\ m.mounted = machine.efi /\ m.efi = machine.efi /\ m.on = machine.on
        /\ m.validation = machine.validation /\ m.mokutil = machine.mokutil /\ m.sbsign = machine.sbsign
        /\ m.key = machine.key /\ m.enrolled = machine.enrolled /\ m.queued = machine.queued
    BY <2>3 DEF Mounted, Machine
  <2> DEFINE blocked == InstallBlocked(DetectSecureBoot(machine), DetectKernelSigning(machine))
             enforcing == SecureBootEnforcing(m)
             \* what a scan of the app takes for Secure Boot, and the key's state
             boot == machine.efi /\
                     IF machine.mounted
                     THEN machine.on /\ (machine.mokutil => machine.validation)
                     ELSE FALSE
             signed == machine.key /\ ((machine.mokutil /\ machine.efi /\ machine.mounted /\ machine.enrolled)
                                       \/ (machine.efi /\ machine.mounted /\ machine.listed))
  <2>5. (DetectSecureBoot(machine) = "enabled") <=> boot
    BY <2>2 DEF DetectSecureBoot, CombineSecureBoot, EfiVariable, MokutilState
  <2>6. (DetectKernelSigning(machine) \in {"Enrolled", "EnrollmentPending"}) <=> signed
    BY <2>2 DEF DetectKernelSigning, CombineKernelSigning, TestKey, KeyPending
  <2>7. blocked <=> boot /\ ~signed
    BY <2>5, <2>6 DEF InstallBlocked
  <2>8. enforcing <=> machine.efi /\ machine.on /\ (machine.mokutil => machine.validation)
    BY <2>2, <2>4 DEF SecureBootEnforcing, MokutilState
  <2>9. KeyEnrollmentState(m) \in {"enrolled", "pending"} <=>
          machine.mokutil /\ machine.efi /\ (machine.enrolled \/ machine.queued)
    BY <2>2, <2>4 DEF KeyEnrollmentState
  <2>10. PreflightPasses(m) <=>
           (enforcing => machine.key /\ machine.sbsign /\ machine.mokutil /\ machine.efi
                         /\ (machine.enrolled \/ machine.queued))
    BY <2>4, <2>9 DEF PreflightPasses
  <2>11. blocked => ~PreflightPasses(m) \/ (machine.queued /\ ~machine.listed)
    BY <2>2, <2>7, <2>8, <2>10
  <2>12. ~blocked => \/ PreflightPasses(m)
                     \/ machine.efi /\ ~machine.mounted
                     \/ ~machine.mokutil \/ ~machine.sbsign
                     \/ machine.listed /\ ~machine.queued
    BY <2>2, <2>7, <2>8, <2>10
  <2>13. QED
    BY <2>11, <2>12 DEF PreflightsAgree
<1>2. QED
  BY <1>1, Invariant, PTL
=============================================================================
