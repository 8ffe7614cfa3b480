---------------------------- MODULE SetupProofs ----------------------------
(* Theorems about the two parts of do_setup_signing that change what the   *)
(* firmware does: the request to enroll keys (Enroll) and the boot path    *)
(* through shim (ShimChain), for every set of certificates, every bound    *)
(* and every layout.  The two share no variable: ShimChain has of the      *)
(* request only whether the key waits.                                     *)
EXTENDS Enroll, ShimChain, TLAPS

-----------------------------------------------------------------------------
(* The request.                                                            *)

\* A password is kept with a request alone.  Entries without one are what a
\* failed import wrote, never all of what the setup is going to queue.
PasswordInv ==
    /\ mokNew = {} => mokAuth = NoAuth
    /\ step = "import" /\ mokAuth = NoAuth => mokNew = {}
    /\ step = "retry" /\ mokAuth = NoAuth => ~(ders \subseteq mokNew)

\* The list names no key that was not in the request it has the size of.
ListInv ==
    \E R \in SUBSET Entries : list.size = RequestSize[R] /\ list.keys \subseteq R

\* What the setup is going to queue is new to the firmware; past the password
\* there is some.
DersInv ==
    /\ step \notin {"idle", "collect"} => ders \cap trusted = {}
    /\ step \in {"revoke", "import", "retry", "drop", "record"} => ders # {}

\* Between the revocation and the next import only another tool sets a
\* password; from the import on there is one, and the setup's last one.
OnePassword ==
    /\ step \in {"import", "retry"} => mokAuth \in {NoAuth, Theirs}
    /\ step = "record" => ders \subseteq mokNew /\ mokAuth \in {pw, Theirs}
    /\ step = "idle" /\ outcome = "done"
         => mokAuth \in {pw, Theirs} \/ mokNew = {}

\* What waited when the setup began still waits, or is carried along.
FoundInv ==
    /\ step \in {"collect", "hash", "revoke"} => found \subseteq mokNew \cup trusted
    /\ step \in {"hash", "revoke", "import", "retry", "drop", "record"}
         => found \subseteq ders \cup trusted

RequestInv ==
    /\ EnrollTypeOK
    /\ PasswordInv /\ ListInv /\ DersInv /\ OnePassword /\ FoundInv

\* Kernel Pop has queued nothing yet.
LEMMA RequestInit ==
    ASSUME EnrollInit PROVE RequestInv
<1>1. {} \in SUBSET Entries
  OBVIOUS
<1>2. EnrollTypeOK
  BY <1>1 DEF EnrollInit, EnrollTypeOK, NoList, NoAuth
<1>3. ListInv
  BY <1>1 DEF EnrollInit, NoList, ListInv
<1>4. QED
  BY <1>2, <1>3
     DEF EnrollInit, RequestInv, PasswordInv, DersInv, OnePassword, FoundInv

\* An import adds the new entries and keeps the type; it leaves a request with
\* a password.
LEMMA ImportAdds ==
    ASSUME EnrollTypeOK,
           NEW K \in SUBSET Entries, NEW word \in Passwords \cup {Theirs},
           MokImport(K, word)
    PROVE  /\ mokNew' = mokNew \cup (K \ trusted) /\ trusted' = trusted
           /\ mokNew' \in SUBSET Entries
           /\ mokAuth' \in Passwords \cup {Theirs, NoAuth}
           /\ mokAuth' \in {mokAuth, word}
           /\ mokAuth' = word \/ (mokAuth' = mokAuth /\ mokNew' = mokNew)
BY DEF MokImport, EnrollTypeOK

LEMMA RequestType ==
    ASSUME EnrollTypeOK, [EnrollNext]_enrollVars
    PROVE  EnrollTypeOK'
<1> USE EnrollAssumption
<1>1. CASE StartSetup
  BY <1>1 DEF StartSetup, EnrollTypeOK, firmware
<1>2. CASE Collect
  <2>1. ders' \in SUBSET Certs
    BY <1>2 DEF Collect, End, EnrollTypeOK, Entries
  <2>2. QED
    BY <1>2, <2>1
       DEF Collect, End, Continue, EnrollTypeOK, firmware
<1>3. CASE NothingToQueue \/ DropRequest
  <2>1. list' = NoList
        /\ NoList \in [size : {RequestSize[K] : K \in SUBSET Entries},
                               keys : SUBSET Certs]
    BY <1>3 DEF NothingToQueue, DropRequest, NoList
  <2>2. QED
    BY <1>3, <2>1
       DEF NothingToQueue, DropRequest, MokRevoke, End,
           RunSame, EnrollTypeOK, firmware
<1>4. CASE HashPassword \/ Revoke
  BY <1>4
     DEF HashPassword, Revoke, MokRevoke, End,
         Continue, RunSame, EnrollTypeOK, firmware
<1>5. CASE Import \/ Retry
  <2>1. CASE MokImport(ders, pw)
    <3>1. ders \in SUBSET Entries /\ pw \in Passwords
      BY DEF EnrollTypeOK, Entries
    <3>2. /\ mokNew' \in SUBSET Entries /\ trusted' = trusted
          /\ mokAuth' \in Passwords \cup {Theirs, NoAuth}
      BY <2>1, <3>1, ImportAdds
    <3>3. QED
      BY <1>5, <3>2
         DEF Import, Retry, Continue, RunSame, EnrollTypeOK
  <2>2. CASE MokImportFails(ders)
    <3>1. mokNew' \in SUBSET Entries /\ UNCHANGED <<mokAuth, trusted>>
      BY <2>2 DEF MokImportFails, EnrollTypeOK, Entries
    <3>2. QED
      BY <1>5, <3>1
         DEF Import, Retry, Continue, RunSame, EnrollTypeOK
  <2>3. QED
    BY <1>5, <2>1, <2>2 DEF Import, Retry
<1>6. CASE Record
  <2>1. list' \in [size : {RequestSize[K] : K \in SUBSET Entries}, keys : SUBSET Certs]
    BY <1>6 DEF Record, NoList, EnrollTypeOK
  <2>2. QED
    BY <1>6, <2>1
       DEF Record, End, RunSame, EnrollTypeOK, firmware
<1>7. ASSUME NEW e \in Entries, OtherImport(e) PROVE EnrollTypeOK'
  <2>1. /\ mokNew' \in SUBSET Entries /\ trusted' = trusted
        /\ mokAuth' \in Passwords \cup {Theirs, NoAuth}
    BY <1>7, ImportAdds DEF OtherImport
  <2>2. QED
    BY <1>7, <2>1 DEF OtherImport, RunSame, EnrollTypeOK
<1>8. CASE OtherRevoke \/ Reboot
  BY <1>8
     DEF OtherRevoke, Reboot, MokRevoke, End,
         RunSame, EnrollTypeOK, firmware
<1>9. CASE UNCHANGED enrollVars
  BY <1>9 DEF enrollVars, firmware, EnrollTypeOK
<1>10. QED
  BY <1>1, <1>2, <1>3, <1>4, <1>5, <1>6, <1>7, <1>8, <1>9 DEF EnrollNext

\* Where the request is left alone, what is said of it stays true.
LEMMA RequestStep ==
    ASSUME RequestInv, [EnrollNext]_enrollVars
    PROVE  RequestInv'
<1> USE EnrollAssumption DEF PasswordInv, DersInv, OnePassword, FoundInv
<1>a. EnrollTypeOK'
  BY RequestType DEF RequestInv
<1>b. /\ EnrollTypeOK /\ PasswordInv /\ ListInv /\ DersInv /\ OnePassword /\ FoundInv
      /\ NoAuth # Theirs
  BY DEF RequestInv, NoAuth, Theirs
<1>c. UNCHANGED list => ListInv'
  BY <1>b DEF ListInv
<1>d. list' = NoList => ListInv'
  BY DEF ListInv, NoList
<1>e. MokRevoke => mokNew' = {} /\ mokAuth' = NoAuth /\ trusted' = trusted
  BY DEF MokRevoke
<1>f. ASSUME PasswordInv', DersInv', OnePassword', FoundInv', ListInv' PROVE RequestInv'
  BY <1>a, <1>f DEF RequestInv
<1> USE DEF Continue, End, RunSame, firmware
<1>1. CASE StartSetup
  BY <1>b, <1>c, <1>f, <1>1 DEF StartSetup
<1>2. CASE Collect
  <2>1. /\ step = "collect" /\ UNCHANGED <<mokNew, mokAuth, trusted, list, pw, found>>
        /\ step' = "hash" => ders' \cap trusted = {} /\ (mokNew \ trusted) \subseteq ders'
        /\ step' = "hash" \/ (step' = "idle" /\ outcome' = "refused")
    BY <1>2 DEF Collect
  <2>2. QED
    BY <1>b, <1>c, <1>f, <2>1
<1>3. CASE NothingToQueue \/ DropRequest
  BY <1>b, <1>d, <1>e, <1>f, <1>3 DEF NothingToQueue, DropRequest
<1>4. CASE HashPassword
  <2>1. /\ step = "hash" /\ ders # {} /\ UNCHANGED <<mokNew, mokAuth, trusted, list, pw, ders, found>>
        /\ step' = "revoke" \/ (step' = "idle" /\ outcome' = "refused")
    BY <1>4 DEF HashPassword
  <2>2. DersInv'
    BY <1>b, <2>1
  <2>3. PasswordInv' /\ OnePassword' /\ FoundInv'
    BY <1>b, <2>1
  <2>4. QED
    BY <1>c, <1>f, <2>1, <2>2, <2>3
<1>5. CASE Revoke
  BY <1>b, <1>c, <1>e, <1>f, <1>5 DEF Revoke
<1>6. CASE Import \/ Retry
  <2>0. /\ step \in {"import", "retry"} /\ UNCHANGED <<list, pw, ders, found, outcome>>
        /\ ders # {} /\ ders \cap trusted = {} /\ ders \in SUBSET Entries /\ pw \in Passwords
    BY <1>b, <1>6 DEF Import, Retry, EnrollTypeOK, Entries
  <2>1. CASE MokImport(ders, pw) /\ step' = "record"
    <3>1. /\ mokNew' = mokNew \cup (ders \ trusted) /\ trusted' = trusted
          /\ mokAuth' = pw \/ (mokAuth' = mokAuth /\ mokNew' = mokNew)
      BY <1>b, <2>0, <2>1, ImportAdds
    <3>2. ders \subseteq mokNew' /\ mokNew' # {}
      BY <2>0, <3>1
    <3>3. mokAuth' \in {pw, Theirs}
      BY <1>b, <2>0, <3>1, <3>2
    <3>4. QED
      BY <1>b, <1>c, <1>f, <2>0, <2>1, <3>1, <3>2, <3>3
  <2>2. CASE MokImportFails(ders) /\ step' = IF step = "import" THEN "retry" ELSE "drop"
    <3>1. PICK part \in SUBSET (ders \ trusted) :
             (part = {} \/ part # ders \ trusted) /\ mokNew' = mokNew \cup part
      BY <2>2 DEF MokImportFails
    <3>2. UNCHANGED <<mokAuth, trusted>>
      BY <2>2 DEF MokImportFails
    <3>3. step = "import" /\ mokAuth = NoAuth => ~(ders \subseteq mokNew')
      BY <1>b, <2>0, <3>1
    <3>4. mokNew' = {} => mokNew = {}
      BY <3>1
    <3>5. QED
      BY <1>b, <1>c, <1>f, <2>0, <2>2, <3>2, <3>3, <3>4
  <2>3. QED
    BY <1>6, <2>1, <2>2 DEF Import, Retry
<1>7. CASE Record
  <2>1. ListInv'
    <3>1. CASE list' = [size |-> RequestSize[mokNew], keys |-> ders]
      BY <1>b, <1>7, <3>1 DEF ListInv, Record, EnrollTypeOK
    <3>2. QED
      BY <1>c, <1>d, <1>7, <3>1 DEF Record
  <2>2. QED
    BY <1>b, <1>f, <1>7, <2>1 DEF Record
<1>8. ASSUME NEW e \in Entries, OtherImport(e) PROVE RequestInv'
  <2>1. /\ mokNew \subseteq mokNew' /\ trusted' = trusted
        /\ mokAuth' = Theirs \/ (mokAuth' = mokAuth /\ mokNew' = mokNew)
        /\ mokNew' = {} => mokAuth' = mokAuth
    BY <1>8 DEF OtherImport, MokImport
  <2>2. UNCHANGED <<list, step, outcome, pw, ders, found>>
    BY <1>8 DEF OtherImport
  <2>3. QED
    BY <1>b, <1>c, <1>f, <2>1, <2>2
<1>9. CASE OtherRevoke
  BY <1>b, <1>c, <1>e, <1>f, <1>9 DEF OtherRevoke
<1>10. CASE Reboot
  <2>1. step' = "idle" /\ UNCHANGED <<list, pw, ders, found>>
    BY <1>10 DEF Reboot
  <2>2. step # "idle" => outcome' = "stopped"
    BY <1>10 DEF Reboot
  <2>3. step = "idle" => outcome' = outcome
    BY <1>10 DEF Reboot
  <2>4. (mokNew' = {} /\ mokAuth' = NoAuth) \/ UNCHANGED <<mokNew, mokAuth>>
    BY <1>10 DEF Reboot, MokRevoke
  <2>5. QED
    BY <1>b, <1>c, <1>f, <2>1, <2>2, <2>3, <2>4
<1>11. CASE UNCHANGED enrollVars
  BY <1>b, <1>c, <1>f, <1>11 DEF enrollVars
<1>12. QED
  BY <1>1, <1>2, <1>3, <1>4, <1>5, <1>6, <1>7, <1>8, <1>9, <1>10, <1>11 DEF EnrollNext

LEMMA RequestInvariant == EnrollSpec => []RequestInv
<1>1. EnrollInit => RequestInv
  BY RequestInit
<1>2. RequestInv /\ [EnrollNext]_enrollVars => RequestInv'
  BY RequestStep
<1>3. QED
  BY <1>1, <1>2, PTL DEF EnrollSpec

\* The request, its password and the shared list keep their types.
THEOREM RequestTypeCorrect == EnrollSpec => []EnrollTypeOK
<1>1. RequestInv => EnrollTypeOK
  BY DEF RequestInv
<1>2. QED
  BY <1>1, RequestInvariant, PTL

\* "Waiting" is true, and one password enrolls all of the keys, whatever other
\* tools queue, whichever mokutil call fails, wherever the machine stops.
THEOREM WaitingIsTrue == EnrollSpec => []PendingIsWaiting
<1>1. ASSUME RequestInv, step = "idle", NEW k \in Certs, Status(k) = "pending"
      PROVE  /\ SizeTells => k \in mokNew
             /\ outcome = "done" /\ mokAuth # Theirs => mokAuth = pw
  <2>1. mokNew # {} /\ list.size = RequestSize[mokNew] /\ k \in list.keys
    BY <1>1 DEF Status, Listed
  <2>2. PICK R \in SUBSET Entries : list.size = RequestSize[R] /\ list.keys \subseteq R
    BY <1>1 DEF RequestInv, ListInv
  <2>3. SizeTells => k \in mokNew
    BY <2>1, <2>2 DEF SizeTells
  <2>4. QED
    BY <1>1, <2>1, <2>3 DEF RequestInv, OnePassword
<1>2. RequestInv => PendingIsWaiting
  BY <1>1 DEF PendingIsWaiting
<1>3. QED
  BY <1>2, RequestInvariant, PTL

\* No setup loses silently what waited when it began.
THEOREM WaitingIsKept == EnrollSpec => NothingWaitingLost
<1>1. ASSUME RequestInv, [EnrollNext]_enrollVars
      PROVE  [step # "idle" /\ step' = "idle" /\ outcome' \notin {"failed", "stopped"}
                => found \subseteq mokNew' \cup trusted']_enrollVars
  <2>1. SUFFICES ASSUME EnrollNext, step # "idle", step' = "idle",
                        outcome' \notin {"failed", "stopped"}
                 PROVE  found \subseteq mokNew' \cup trusted'
    BY <1>1
  <2> USE DEF Continue, End, firmware
  <2>2. \/ Collect \/ NothingToQueue \/ HashPassword
        \/ Revoke \/ Record
    BY <2>1
       DEF EnrollNext, StartSetup, Import, Retry,
           DropRequest, OtherImport, OtherRevoke, Reboot
  <2>3. CASE Collect \/ HashPassword \/ Revoke
    <3>1. step \in {"collect", "hash", "revoke"} /\ UNCHANGED <<mokNew, trusted>>
      BY <2>1, <2>3 DEF Collect, HashPassword, Revoke
    <3>2. QED
      BY <1>1, <3>1 DEF RequestInv, FoundInv
  <2>4. CASE NothingToQueue
    BY <1>1, <2>4 DEF NothingToQueue, MokRevoke, RequestInv, FoundInv
  <2>5. CASE Record
    BY <1>1, <2>5 DEF Record, RequestInv, FoundInv, OnePassword
  <2>6. QED
    BY <2>2, <2>3, <2>4, <2>5
<1>2. QED
  BY <1>1, RequestInvariant, PTL DEF EnrollSpec, NothingWaitingLost

-----------------------------------------------------------------------------
(* The boot path.                                                          *)

\* Past the signing of systemd-boot, the steps of the setup in their order.
FromShim     == {"shim", "fb", "mm", "fallback", "beside", "csv", "entry", "last-prune"}
FromFb       == FromShim \ {"shim"}
FromMm       == FromFb \ {"fb"}
FromFallback == FromMm \ {"mm"}
FromBeside   == FromFallback \ {"fallback"}
FromCsv      == FromBeside \ {"beside"}
FromEntry    == FromCsv \ {"csv"}

\* The setup has a key from its first step on.
KeyInv == pc["setup"] \notin {"off", "key"} => key

\* What sbsign leaves is signed; once systemd-boot is signed, on the ESP and
\* beside it, only signed ones follow.
SignedAt(p) ==
    /\ pc[p] = "replace" => tmp[p].by = "ours"
    /\ pc[p] \in {"stamp", "refresh", "update", "keep", "check", "prune"}
         => signed.by # "nobody"
    /\ pc[p] = "prune" => esp.by # "nobody"

SignedInv ==
    /\ esp # NoFile
    /\ \A p \in Proc : SignedAt(p)
    /\ pc["setup"] \in FromShim \/ sb \/ chained
         => esp.by # "nobody" /\ signed.by # "nobody"

\* The chain is laid from shim outwards, and nothing takes it down.
ChainInv ==
    /\ pc["setup"] \in FromFb \/ "shim" \in entries => "shim" \in vendor
    /\ pc["setup"] \in FromMm => "fb" \in vendor
    /\ pc["setup"] \in FromFallback => "mm" \in vendor
    /\ pc["setup"] \in FromBeside \/ chained => fallback = "shim"
    /\ pc["setup"] \in FromCsv \/ chained => beside
    /\ pc["setup"] \in FromEntry \/ chained => csv
    /\ fallback = "shim" => Files \subseteq vendor

\* The firmware forgets no entry before the fallback path is whole.
EntryInv ==
    /\ listed /\ ~chained => entries # {}
    /\ sb => "shim" \in entries \/ chained

\* Secure Boot without our key in the firmware: the machine came with it, and
\* with a systemd-boot of the distribution's, which nobody signs over.
DistroInv ==
    /\ pc["setup"] = "import" => mok = "none"
    /\ sb /\ mok # "enrolled" =>
        /\ ships /\ signed.by = "distro" /\ esp.by = "distro"
        /\ \A p \in Proc : pc[p] \notin {"sign", "replace", "stamp", "update", "check"}

ChainPathInv == TypeOK /\ KeyInv /\ SignedInv /\ ChainInv /\ EntryInv /\ DistroInv

\* A step of one process leaves the other where it is.
LEMMA GotoMoves ==
    ASSUME pc \in [Proc -> Setup \cup Signing \cup {"off"}],
           NEW p \in Proc, NEW next \in Setup \cup Signing \cup {"off"}, Goto(p, next)
    PROVE  /\ pc' \in [Proc -> Setup \cup Signing \cup {"off"}]
           /\ pc'[p] = next /\ \A q \in Proc \ {p} : pc'[q] = pc[q]
BY DEF Goto

\* bootctl copies a loader, and of two versions never the older one.
LEMMA Copies ==
    ASSUME NEW now \in Loader, NEW s \in Loader, NEW v \in 0..(MaxUpgrades + 1),
           NEW copy \in BootctlCopies(now, s, v)
    PROVE  /\ copy \in Loader
           /\ copy = now \/ copy = s \/ (s = NoFile /\ copy = SignedBy("nobody", v))
           /\ copy # now => copy # NoFile
BY ShimChainAssumption DEF BootctlCopies, Loader, SignedBy, NoFile

\* Every loader there can be is one.
LEMMA Loaders ==
    /\ NoFile \in Loader
    /\ \A v \in 0..(MaxUpgrades + 1) :
          /\ SignedBy("ours", v) \in Loader /\ SignedBy("ours", v).by = "ours"
          /\ SignedBy("distro", v) \in Loader /\ SignedBy("distro", v).by = "distro"
BY ShimChainAssumption DEF Loader, NoFile, SignedBy

LEMMA ChainInit == Init => ChainPathInv
<1> SUFFICES ASSUME Init PROVE ChainPathInv
  OBVIOUS
<1> USE DEF Proc
<1>1. PICK layout \in Layouts :
        LET over == layout = "signed-over"
            shim == layout \in {"shim", "signed-over"}
        IN /\ src = 1 /\ ships \in BOOLEAN /\ (over => ships)
           /\ signed = IF over THEN SignedBy("ours", 1)
                       ELSE IF ships THEN SignedBy("distro", 1) ELSE NoFile
           /\ esp = IF signed = NoFile THEN SignedBy("nobody", 1) ELSE signed
           /\ stamp = (IF over THEN 1 ELSE 0) /\ hook = over /\ key = over
           /\ mok \in (IF over THEN {"queued", "enrolled"} ELSE {"none"})
           /\ lib \in BOOLEAN /\ (shim => lib)
           /\ vendor = IF shim THEN Files ELSE {}
           /\ fallback \in (IF shim THEN {"systemd-boot", "shim"} ELSE {"systemd-boot"})
           /\ beside = (fallback = "shim") /\ csv = (fallback = "shim")
           /\ entries \in CASE shim -> {{"shim"}, {"shim", "direct"}}
                            [] layout = "direct" -> {{"direct"}}
                            [] OTHER -> {{}}
           /\ sb \in BOOLEAN /\ (mok = "queued" => ~sb) /\ Boots
           /\ listed = (entries # {})
  BY DEF Init
<1>2. /\ apt = "idle" /\ pc = [p \in Proc |-> "off"]
      /\ want = [p \in Proc |-> 0] /\ tmp = [p \in Proc |-> NoFile]
      /\ chainOk = TRUE /\ result = "none" /\ chained = FALSE /\ setups = 0
  BY DEF Init
<1>3. layout \in {"direct", "fallback", "shim", "signed-over"}
  BY ShimChainAssumption
<1>4. 1 \in 0..(MaxUpgrades + 1) /\ 0 \in 0..(MaxUpgrades + 1) /\ 1 \in 1..(MaxUpgrades + 1)
      /\ 0 \in 0..MaxSetups
  BY ShimChainAssumption
<1>5. signed \in Loader /\ esp \in Loader /\ esp # NoFile
      /\ SignedBy("nobody", 1) # NoFile /\ SignedBy("distro", 1) # NoFile
      /\ SignedBy("ours", 1) # NoFile
      /\ SignedBy("nobody", 1).by = "nobody"
  BY <1>1, <1>4, Loaders DEF Loader, SignedBy, NoFile
<1>6. entries \subseteq {"shim", "direct"} /\ listed = (entries # {})
      /\ (layout \in {"shim", "signed-over"} <=> "shim" \in entries)
  BY <1>1, <1>3
<1>7. fallback = "shim" => layout \in {"shim", "signed-over"}
  BY <1>1
<1>8. sb => /\ layout \in {"shim", "signed-over"} /\ (esp.by = "distro" \/ esp.by = "ours")
            /\ mok # "queued"
  BY <1>1, <1>3, <1>6 DEF Boots, FallbackStarts, ShimStarts
<1>9. sb => signed = esp /\ (mok # "enrolled" => ships /\ esp.by = "distro")
  BY <1>1, <1>3, <1>4, <1>5, <1>8, Loaders
<1>10. TypeOK
  BY <1>1, <1>2, <1>4, <1>5, <1>6, Loaders DEF TypeOK, Files, Setup, Signing
<1>11. KeyInv /\ SignedInv
  BY <1>2, <1>5, <1>8, <1>9 DEF KeyInv, SignedInv, SignedAt, FromShim
<1>12. ChainInv
  BY <1>1, <1>2, <1>6, <1>7
     DEF ChainInv, FromShim, FromFb, FromMm, FromFallback, FromBeside, FromCsv, FromEntry, Files
<1>13. EntryInv /\ DistroInv
  BY <1>1, <1>2, <1>6, <1>8, <1>9 DEF EntryInv, DistroInv
<1>14. QED
  BY <1>10, <1>11, <1>12, <1>13 DEF ChainPathInv

\* A step of sign_boot_loader, in the words of the rest of the setup.
LEMMA SignStep ==
    ASSUME TypeOK, NEW p \in Proc, SignBootLoader(p)
    PROVE  /\ UNCHANGED <<packageVars, vendor, fallback, beside, csv, sb, mok, key, apt,
                          listed, setups, chained, result>>
           /\ chainOk' \in BOOLEAN
           /\ entries' = entries \/ ("shim" \in entries /\ entries' = entries \ {"direct"})
           /\ \E next \in Signing \cup {"off", "hooks", "shim"} :
                 /\ Goto(p, next) /\ pc[p] \in Signing
                 /\ p = "setup" => next # "off"
                 /\ p = "hook"  => next \notin {"hooks", "shim"}
<1> USE DEF SignOnly, runVars, Proc, Signing
<1>1. chainOk \in BOOLEAN
  BY DEF TypeOK
<1>a. ASSUME SignFails(p)
      PROVE  /\ UNCHANGED <<chained, result>> /\ chainOk' \in BOOLEAN
             /\ \E next \in {"off", "hooks"} :
                   Goto(p, next) /\ (p = "setup" => next # "off") /\ (p = "hook" => next # "hooks")
  <2>1. CASE p = "setup"
    BY <1>a, <2>1 DEF SignFails, NoChain
  <2>2. CASE p = "hook"
    BY <1>1, <1>a, <2>2 DEF SignFails
  <2>3. QED
    BY <2>1, <2>2
<1>b. ASSUME SignEnds(p)
      PROVE  /\ UNCHANGED runVars
             /\ \E next \in {"off", "shim"} :
                   Goto(p, next) /\ (p = "setup" => next # "off") /\ (p = "hook" => next # "shim")
  BY <1>b DEF SignEnds
<1>2. CASE Judge(p)
  <2>1. CASE SignFails(p)
    BY <1>a, <1>2, <2>1 DEF Judge
  <2>2. CASE UNCHANGED runVars /\ \E next \in {"refresh", "sign", "update"} : Goto(p, next)
    BY <1>1, <1>2, <2>2 DEF Judge
  <2>3. QED
    BY <1>2, <2>1, <2>2 DEF Judge
<1>3. CASE Sign(p)
  <2>1. CASE SignFails(p)
    BY <1>a, <1>3, <2>1 DEF Sign
  <2>2. CASE UNCHANGED runVars /\ Goto(p, "replace")
    BY <1>1, <1>3, <2>2 DEF Sign
  <2>3. QED
    BY <1>3, <2>1, <2>2 DEF Sign
<1>4. CASE Replace(p) \/ Stamp(p)
  BY <1>1, <1>4 DEF Replace, Stamp
<1>5. CASE BootctlUpdate(p)
  BY <1>1, <1>5 DEF BootctlUpdate
<1>6. CASE InstallLoader(p) \/ LoaderInPlace(p)
  <2>1. CASE SignFails(p) /\ InstallLoader(p)
    BY <1>a, <2>1 DEF InstallLoader
  <2>2. CASE UNCHANGED runVars /\ Goto(p, "prune")
    BY <1>1, <1>6, <2>2 DEF InstallLoader, LoaderInPlace
  <2>3. QED
    BY <1>6, <2>1, <2>2 DEF InstallLoader, LoaderInPlace
<1>7. CASE Prune(p)
  BY <1>1, <1>b, <1>7 DEF Prune, PruneDirect
<1>8. QED
  BY <1>2, <1>3, <1>4, <1>5, <1>6, <1>7 DEF SignBootLoader

\* What sign_boot_loader makes are loaders and versions.
LEMMA SignType ==
    ASSUME TypeOK, NEW p \in Proc, SignBootLoader(p) PROVE TypeOK'
<1>1. PICK next \in Signing \cup {"off", "hooks", "shim"} :
         Goto(p, next) /\ (p = "hook"  => next \notin {"hooks", "shim"})
  BY SignStep
<1>2. pc' \in [Proc -> Setup \cup Signing \cup {"off"}] /\ pc'["hook"] \in Signing \cup {"off"}
  <2>1. next \in Setup \cup Signing \cup {"off"}
    BY DEF Setup, Files
  <2>2. /\ pc' \in [Proc -> Setup \cup Signing \cup {"off"}]
        /\ pc'[p] = next /\ \A q \in Proc \ {p} : pc'[q] = pc[q]
    BY <1>1, <2>1, GotoMoves DEF TypeOK
  <2>3. QED
    BY <1>1, <2>2 DEF TypeOK, Proc
<1>3. signed' \in Loader /\ stamp' \in 0..(MaxUpgrades + 1) /\ esp' \in Loader
      /\ want' \in [Proc -> 0..(MaxUpgrades + 1)] /\ tmp' \in [Proc -> Loader]
  <2>1. src \in 0..(MaxUpgrades + 1)
    BY ShimChainAssumption DEF TypeOK
  <2>2. CASE Judge(p) \/ Stamp(p) \/ LoaderInPlace(p) \/ Prune(p)
    BY <2>1, <2>2 DEF Judge, Stamp, LoaderInPlace, Prune, TypeOK, loaderVars
  <2>3. CASE Sign(p) \/ Replace(p)
    BY <2>1, <2>3, Loaders DEF Sign, Replace, TypeOK, loaderVars
  <2>4. CASE BootctlUpdate(p)
    BY <2>1, <2>4, Copies DEF BootctlUpdate, TypeOK, loaderVars
  <2>5. CASE InstallLoader(p)
    BY <2>5 DEF InstallLoader, TypeOK, loaderVars
  <2>6. QED
    BY <2>2, <2>3, <2>4, <2>5 DEF SignBootLoader
<1>4. /\ UNCHANGED <<packageVars, vendor, fallback, beside, csv, sb, mok, key, apt, listed,
                     setups, chained, result>>
      /\ chainOk' \in BOOLEAN /\ entries' \subseteq entries
  BY SignStep
<1>5. QED
  BY <1>2, <1>3, <1>4 DEF TypeOK, packageVars

LEMMA ChainType == TypeOK /\ KeyInv /\ [Next]_vars => TypeOK'
<1> SUFFICES ASSUME TypeOK, KeyInv, [Next]_vars PROVE TypeOK'
  OBVIOUS
<1>a. /\ src \in 0..(MaxUpgrades + 1) /\ "setup" \in Proc /\ "hook" \in Proc
      /\ \A s \in Setup \cup {"judge"} : s \in Setup \cup Signing \cup {"off"}
      /\ "off" \in Setup \cup Signing \cup {"off"}
      /\ "judge" \in Signing
  BY ShimChainAssumption DEF TypeOK, Proc, Signing
<1>b. ASSUME NEW next \in Setup \cup Signing \cup {"off"}, Goto("setup", next)
      PROVE  /\ pc' \in [Proc -> Setup \cup Signing \cup {"off"}]
             /\ pc'["hook"] \in Signing \cup {"off"}
  <2>1. pc' \in [Proc -> Setup \cup Signing \cup {"off"}] /\ pc'["hook"] = pc["hook"]
    BY <1>a, <1>b, GotoMoves DEF TypeOK, Proc
  <2>2. QED
    BY <2>1 DEF TypeOK
<1>c. {"key", "packages", "queue", "import", "restore", "restored", "shim", "fb", "mm", "fallback",
       "beside", "csv", "entry", "last-prune", "hooks", "judge", "off"}
        \subseteq Setup \cup Signing \cup {"off"}
  BY DEF Setup, Files, Signing
<1>1. ASSUME NEW p \in Proc, SignBootLoader(p) PROVE TypeOK'
  BY <1>1, SignType
<1>2. CASE Start
  <2>1. setups' \in 0..MaxSetups
    BY <1>2, ShimChainAssumption DEF Start, TypeOK
  <2>2. /\ pc' \in [Proc -> Setup \cup Signing \cup {"off"}]
        /\ pc'["hook"] \in Signing \cup {"off"}
    BY <1>b, <1>c, <1>2 DEF Start
  <2>3. QED
    BY <1>2, <2>1, <2>2 DEF Start, TypeOK, packageVars, loaderVars, espVars, firmwareVars
<1>3. CASE GenerateKey
  <2>1. /\ pc' \in [Proc -> Setup \cup Signing \cup {"off"}]
        /\ pc'["hook"] \in Signing \cup {"off"}
    BY <1>b, <1>c, <1>3 DEF GenerateKey
  <2>2. /\ key' \in BOOLEAN /\ (key => key') /\ result' \in {result, "not-queued"}
        /\ UNCHANGED <<chainOk, chained>>
    BY <1>3 DEF GenerateKey, runVars, TypeOK
  <2>3. QED
    BY <1>3, <2>1, <2>2
       DEF GenerateKey, TypeOK, SetupSame, packageVars, loaderVars, espVars, firmwareVars, runVars
<1>4. CASE InstallShimPackages
  <2>1. /\ pc' \in [Proc -> Setup \cup Signing \cup {"off"}]
        /\ pc'["hook"] \in Signing \cup {"off"}
    <3>1. CASE Goto("setup", "queue")
      BY <1>b, <1>c, <3>1
    <3>2. CASE pc' = [setup |-> "queue", hook |-> IF hook THEN "judge" ELSE "off"]
      BY <1>a, <1>c, <3>2 DEF Proc
    <3>3. QED
      BY <1>4, <3>1, <3>2 DEF InstallShimPackages
  <2>2. lib' \in BOOLEAN /\ chainOk' \in BOOLEAN
    BY <1>4 DEF InstallShimPackages, TypeOK
  <2>3. QED
    BY <1>4, <2>1, <2>2
       DEF InstallShimPackages, TypeOK, SetupSame, loaderVars, espVars, firmwareVars
<1>5. CASE QueueKey \/ ImportKey
  <2>1. /\ pc' \in [Proc -> Setup \cup Signing \cup {"off"}]
        /\ pc'["hook"] \in Signing \cup {"off"}
    BY <1>b, <1>c, <1>5 DEF QueueKey, ImportKey, Queued, QueueFails
  <2>2. mok' \in {"none", "queued", "enrolled"} /\ result' \in {result, "not-queued"}
        /\ UNCHANGED <<chainOk, chained>>
    BY <1>5 DEF QueueKey, ImportKey, Queued, QueueFails, TypeOK, runVars
  <2>3. UNCHANGED <<packageVars, loaderVars, espVars, entries, sb, key, apt, want, tmp, listed, setups>>
    BY <1>5 DEF QueueKey, ImportKey, SetupSame
  <2>4. QED
    BY <2>1, <2>2, <2>3 DEF TypeOK, packageVars, loaderVars, espVars
<1>6. CASE RestoreDistribution
  <2>1. CASE UNCHANGED <<loaderVars, esp, entries>> /\ Goto("setup", "restored")
    <3>1. /\ pc' \in [Proc -> Setup \cup Signing \cup {"off"}]
          /\ pc'["hook"] \in Signing \cup {"off"}
      BY <1>b, <1>c, <2>1
    <3>2. QED
      BY <1>6, <2>1, <3>1
         DEF RestoreDistribution, TypeOK, SetupSame, packageVars, loaderVars, runVars
  <2>2. CASE /\ signed' = SignedBy("distro", src) /\ stamp' = 0
             /\ esp' \in BootctlCopies(esp, signed', src)
             /\ entries' \in {entries, entries \cup {"direct"}}
             /\ pc' = [setup |-> "restored", hook |-> IF hook THEN "judge" ELSE "off"]
    <3>1. signed' \in Loader /\ esp' \in Loader /\ stamp' \in 0..(MaxUpgrades + 1)
      BY <1>a, <2>2, Loaders, Copies, ShimChainAssumption DEF TypeOK
    <3>2. /\ pc' \in [Proc -> Setup \cup Signing \cup {"off"}]
          /\ pc'["hook"] \in Signing \cup {"off"}
      BY <1>a, <1>c, <2>2 DEF Proc
    <3>3. entries' \subseteq {"shim", "direct"}
      BY <2>2 DEF TypeOK
    <3>4. QED
      BY <1>6, <3>1, <3>2, <3>3 DEF RestoreDistribution, TypeOK, SetupSame, packageVars, runVars
  <2>3. QED
    BY <1>6, <2>1, <2>2 DEF RestoreDistribution
<1>7. CASE SignFirst
  <2>1. /\ pc' \in [Proc -> Setup \cup Signing \cup {"off"}]
        /\ pc'["hook"] \in Signing \cup {"off"}
    BY <1>b, <1>c, <1>7 DEF SignFirst
  <2>2. QED
    BY <1>7, <2>1
       DEF SignFirst, TypeOK, SetupSame, packageVars, loaderVars, espVars, firmwareVars, runVars
<1>8. CASE \/ \E f \in Files : InstallVendorFile(f)
           \/ InstallFallback \/ InstallBeside \/ WriteCsv \/ CreateEntry \/ FinishChain
  <2>1. /\ pc' \in [Proc -> Setup \cup Signing \cup {"off"}]
        /\ pc'["hook"] \in Signing \cup {"off"}
    BY <1>b, <1>c, <1>8
       DEF InstallVendorFile, InstallFallback, InstallBeside, WriteCsv, CreateEntry, FinishChain,
           NoChain, After, Files
  <2>2. /\ vendor' \subseteq Files /\ fallback' \in {"systemd-boot", "shim"}
        /\ beside' \in BOOLEAN /\ csv' \in BOOLEAN
    BY <1>8
       DEF InstallVendorFile, InstallFallback, InstallBeside, WriteCsv, CreateEntry, FinishChain,
           TypeOK
  <2>3. entries' \subseteq {"shim", "direct"}
    BY <1>8
       DEF InstallVendorFile, InstallFallback, InstallBeside, WriteCsv, CreateEntry, FinishChain,
           PruneDirect, TypeOK
  <2>4. ChainSame /\ chainOk' \in BOOLEAN /\ chained' \in BOOLEAN /\ result' = result
    BY <1>8
       DEF InstallVendorFile, InstallFallback, InstallBeside, WriteCsv, CreateEntry, FinishChain,
           NoChain, runVars, TypeOK
  <2>5. QED
    BY <2>1, <2>2, <2>3, <2>4 DEF ChainSame, SetupSame, TypeOK, packageVars, loaderVars
<1>9. CASE InstallHooks
  <2>1. /\ pc' \in [Proc -> Setup \cup Signing \cup {"off"}]
        /\ pc'["hook"] \in Signing \cup {"off"}
    BY <1>b, <1>c, <1>9 DEF InstallHooks
  <2>2. key
    BY <1>9 DEF InstallHooks, KeyInv
  <2>3. QED
    BY <1>9, <2>1, <2>2
       DEF InstallHooks, TypeOK, SetupSame, loaderVars, espVars, firmwareVars
<1>10. CASE AptUnpack
  <2>1. src' \in 1..(MaxUpgrades + 1) /\ src' \in 0..(MaxUpgrades + 1)
    BY <1>10, ShimChainAssumption DEF AptUnpack, TypeOK
  <2>2. signed' \in Loader
    BY <1>10, <2>1, Loaders DEF AptUnpack, TypeOK
  <2>3. ships' \in BOOLEAN /\ apt' \in {"idle", "unpacked"}
    BY <1>10 DEF AptUnpack, TypeOK
  <2>4. UNCHANGED <<lib, hook, stamp, espVars, firmwareVars, key, pc, want, tmp, runVars, listed, setups>>
    BY <1>10 DEF AptUnpack
  <2>5. QED
    BY <2>1, <2>2, <2>3, <2>4 DEF TypeOK, espVars, firmwareVars, runVars
<1>11. CASE AptConfigure
  <2>1. /\ pc' \in [Proc -> Setup \cup Signing \cup {"off"}]
        /\ pc'["hook"] \in Signing \cup {"off"}
    <3>1. CASE Goto("hook", "judge")
      BY <1>a, <1>c, <3>1, GotoMoves DEF TypeOK, Proc
    <3>2. QED
      BY <1>11, <3>1 DEF AptConfigure, HookRuns, TypeOK
  <2>2. esp' \in Loader
    BY <1>a, <1>11, Copies DEF AptConfigure, TypeOK
  <2>3. QED
    BY <1>11, <2>1, <2>2 DEF AptConfigure, TypeOK, packageVars, loaderVars, runVars
<1>12. CASE Restart
  <2>1. /\ pc' \in [Proc -> Setup \cup Signing \cup {"off"}]
        /\ pc'["hook"] \in Signing \cup {"off"}
    BY <1>a, <1>12 DEF Restart
  <2>2. tmp' \in [Proc -> Loader]
    BY <1>12, Loaders DEF Restart
  <2>3. mok' \in {"none", "queued", "enrolled"} /\ entries' \subseteq {"shim", "direct"}
    BY <1>12 DEF Restart, TypeOK
  <2>4. QED
    BY <1>12, <2>1, <2>2, <2>3 DEF Restart, TypeOK, packageVars, loaderVars, espVars, runVars
<1>13. CASE FirmwareReset \/ TurnOn
  <2>1. entries' \subseteq {"shim", "direct"} /\ sb' \in BOOLEAN
    BY <1>13 DEF FirmwareReset, TurnOn, TypeOK
  <2>2. UNCHANGED <<packageVars, loaderVars, espVars, mok, key, apt, pc, want, tmp, runVars, listed, setups>>
    BY <1>13 DEF FirmwareReset, TurnOn
  <2>3. QED
    BY <2>1, <2>2 DEF TypeOK, packageVars, loaderVars, espVars, runVars
<1>14. CASE UNCHANGED vars
  BY <1>14 DEF vars, TypeOK, packageVars, loaderVars, espVars, firmwareVars, runVars
<1>15. QED
  BY <1>1, <1>2, <1>3, <1>4, <1>5, <1>6, <1>7, <1>8, <1>9, <1>10, <1>11, <1>12, <1>13, <1>14
  DEF Next, SetupStep

\* Where the two processes are after a step of the setup, and after apt's.
LEMMA SetupGoto ==
    ASSUME TypeOK, NEW next, Goto("setup", next)
    PROVE  pc'["setup"] = next /\ pc'["hook"] = pc["hook"]
BY DEF Goto, TypeOK, Proc

LEMMA HookGoto ==
    ASSUME TypeOK, NEW next, Goto("hook", next)
    PROVE  pc'["hook"] = next /\ pc'["setup"] = pc["setup"]
BY DEF Goto, TypeOK, Proc

LEMMA SignPlaces ==
    ASSUME TypeOK, NEW p \in Proc, SignBootLoader(p)
    PROVE  \/ pc'["setup"] = pc["setup"]
           \/ pc["setup"] \in Signing /\ pc'["setup"] \in Signing \cup {"hooks", "shim"}
<1>1. PICK next \in Signing \cup {"off", "hooks", "shim"} :
         Goto(p, next) /\ pc[p] \in Signing /\ (p = "setup" => next # "off")
  BY SignStep
<1>2. QED
  BY <1>1, SetupGoto, HookGoto DEF Proc

LEMMA StepKey == TypeOK /\ KeyInv /\ [Next]_vars => KeyInv'
<1> SUFFICES ASSUME TypeOK, KeyInv, [Next]_vars PROVE KeyInv'
  OBVIOUS
<1> USE DEF KeyInv
<1>a. ASSUME pc["setup"] \notin {"off", "key"}, key' = key PROVE KeyInv'
  BY <1>a
<1>b. ASSUME pc'["setup"] = pc["setup"], key' = key PROVE KeyInv'
  BY <1>b
<1>1. ASSUME NEW p \in Proc, SignBootLoader(p) PROVE KeyInv'
  <2>1. key' = key
    BY <1>1, SignStep
  <2>2. QED
    BY <1>1, <1>a, <1>b, <2>1, SignPlaces DEF Signing
<1>2. CASE Start
  BY <1>2, SetupGoto DEF Start
<1>3. CASE GenerateKey
  BY <1>3, SetupGoto DEF GenerateKey
<1>4. CASE InstallShimPackages \/ QueueKey \/ ImportKey \/ RestoreDistribution \/ SignFirst
  BY <1>4, <1>a DEF InstallShimPackages, QueueKey, ImportKey, RestoreDistribution, SignFirst
<1>5. CASE \/ \E f \in Files : InstallVendorFile(f)
           \/ InstallFallback \/ InstallBeside \/ WriteCsv \/ CreateEntry \/ FinishChain
           \/ InstallHooks
  BY <1>5, <1>a
     DEF InstallVendorFile, InstallFallback, InstallBeside, WriteCsv, CreateEntry, FinishChain,
         InstallHooks, ChainSame, Files
<1>6. CASE AptConfigure
  BY <1>6, <1>b, HookGoto DEF AptConfigure, HookRuns
<1>7. CASE Restart
  BY <1>7 DEF Restart, Proc
<1>8. CASE AptUnpack \/ FirmwareReset \/ TurnOn \/ UNCHANGED vars
  BY <1>8, <1>b DEF AptUnpack, FirmwareReset, TurnOn, vars
<1>9. QED
  BY <1>1, <1>2, <1>3, <1>4, <1>5, <1>6, <1>7, <1>8 DEF Next, SetupStep

\* Each file is in place when the setup goes on to the next, and no step takes
\* one away.
LEMMA StepChain == TypeOK /\ ChainInv /\ [Next]_vars => ChainInv'
<1> SUFFICES ASSUME TypeOK, ChainInv, [Next]_vars PROVE ChainInv'
  OBVIOUS
<1> USE DEF ChainInv, FromShim, FromFb, FromMm, FromFallback, FromBeside, FromCsv, FromEntry
<1>a. ASSUME pc'["setup"] = pc["setup"] \/ pc'["setup"] \notin FromFb,
             UNCHANGED <<vendor, fallback, beside, csv, chained>>,
             "shim" \in entries' => "shim" \in entries \/ "shim" \in vendor
      PROVE  ChainInv'
  BY <1>a
<1>1. ASSUME NEW p \in Proc, SignBootLoader(p) PROVE ChainInv'
  <2>1. pc'["setup"] = pc["setup"] \/ pc'["setup"] \notin FromFb
    BY <1>1, SignPlaces DEF Signing
  <2>2. UNCHANGED <<vendor, fallback, beside, csv, chained>> /\ entries' \subseteq entries
    BY <1>1, SignStep
  <2>3. QED
    BY <1>a, <2>1, <2>2
<1>2. CASE Start \/ GenerateKey \/ InstallShimPackages \/ QueueKey \/ ImportKey
  <2>1. pc'["setup"] \in {"key", "packages", "off", "queue", "import", "restore", "hooks"}
    BY <1>2, SetupGoto
       DEF Start, GenerateKey, InstallShimPackages, QueueKey, ImportKey, Queued, QueueFails
  <2>2. UNCHANGED <<vendor, fallback, beside, csv, chained, entries>>
    BY <1>2
       DEF Start, GenerateKey, InstallShimPackages, QueueKey, ImportKey, Queued, QueueFails,
           espVars, firmwareVars, runVars
  <2>3. QED
    BY <1>a, <2>1, <2>2
<1>3. CASE RestoreDistribution \/ SignFirst \/ InstallHooks
  <2>1. pc'["setup"] \in {"restored", "judge", "off"}
    BY <1>3, SetupGoto DEF RestoreDistribution, SignFirst, InstallHooks
  <2>2. UNCHANGED <<vendor, fallback, beside, csv, chained>>
        /\ ("shim" \in entries' => "shim" \in entries)
    BY <1>3
       DEF RestoreDistribution, SignFirst, InstallHooks, espVars, firmwareVars, runVars
  <2>3. QED
    BY <1>a, <2>1, <2>2
<1>4. ASSUME NEW f \in Files, InstallVendorFile(f) PROVE ChainInv'
  <2>1. pc["setup"] = f /\ UNCHANGED <<fallback, beside, csv, entries, chained>>
        /\ vendor \subseteq vendor'
    BY <1>4 DEF InstallVendorFile, NoChain, runVars
  <2>2. CASE pc'["setup"] = "hooks"
    BY <2>1, <2>2
  <2>3. CASE Goto("setup", After(f)) /\ vendor' = vendor \cup {f}
    <3>1. pc'["setup"] = After(f)
      BY <2>3, SetupGoto
    <3>2. QED
      BY <2>1, <2>3, <3>1 DEF After, Files
  <2>4. QED
    BY <1>4, <2>2, <2>3, SetupGoto DEF InstallVendorFile, NoChain
<1>5. CASE InstallFallback
  <2>1. CASE NoChain /\ UNCHANGED fallback
    BY <1>5, <1>a, <2>1, SetupGoto DEF InstallFallback, NoChain
  <2>2. CASE fallback' = "shim" /\ Goto("setup", "beside") /\ UNCHANGED runVars
    BY <1>5, <2>2, SetupGoto DEF InstallFallback, Files, runVars, TypeOK
  <2>3. QED
    BY <1>5, <2>1, <2>2 DEF InstallFallback
<1>6. CASE InstallBeside
  <2>1. CASE NoChain /\ UNCHANGED beside
    BY <1>6, <1>a, <2>1, SetupGoto DEF InstallBeside, NoChain
  <2>2. CASE beside' = TRUE /\ Goto("setup", "csv") /\ UNCHANGED runVars
    BY <1>6, <2>2, SetupGoto DEF InstallBeside, runVars
  <2>3. QED
    BY <1>6, <2>1, <2>2 DEF InstallBeside
<1>7. CASE WriteCsv
  <2>1. CASE NoChain /\ UNCHANGED csv
    BY <1>7, <1>a, <2>1, SetupGoto DEF WriteCsv, NoChain
  <2>2. CASE csv' = TRUE /\ Goto("setup", "entry") /\ UNCHANGED runVars
    BY <1>7, <2>2, SetupGoto DEF WriteCsv, runVars
  <2>3. QED
    BY <1>7, <2>1, <2>2 DEF WriteCsv
<1>8. CASE CreateEntry
  <2>1. CASE NoChain /\ UNCHANGED entries
    BY <1>8, <1>a, <2>1, SetupGoto DEF CreateEntry, NoChain
  <2>2. CASE Goto("setup", "last-prune") /\ UNCHANGED runVars
    BY <1>8, <2>2, SetupGoto DEF CreateEntry, runVars
  <2>3. QED
    BY <1>8, <2>1, <2>2 DEF CreateEntry
<1>9. CASE FinishChain
  <2>1. pc'["setup"] = "hooks" /\ entries' \subseteq entries
    BY <1>9, SetupGoto DEF FinishChain, PruneDirect
  <2>2. QED
    BY <1>9, <2>1 DEF FinishChain
<1>10. CASE AptUnpack \/ AptConfigure
  <2>1. pc'["setup"] = pc["setup"]
    BY <1>10, HookGoto DEF AptUnpack, AptConfigure, HookRuns
  <2>2. UNCHANGED <<vendor, fallback, beside, csv, chained>>
        /\ ("shim" \in entries' => "shim" \in entries)
    BY <1>10 DEF AptUnpack, AptConfigure, espVars, firmwareVars, runVars
  <2>3. QED
    BY <1>a, <2>1, <2>2
<1>11. CASE Restart
  <2>1. pc'["setup"] = "off" /\ UNCHANGED <<vendor, fallback, beside, csv, chained>>
    BY <1>11 DEF Restart, Proc, espVars, runVars
  <2>2. "shim" \in entries' => "shim" \in entries \/ fallback = "shim"
    BY <1>11 DEF Restart
  <2>3. QED
    BY <1>a, <2>1, <2>2 DEF Files
<1>12. CASE FirmwareReset \/ TurnOn \/ UNCHANGED vars
  <2>1. pc' = pc /\ UNCHANGED <<vendor, fallback, beside, csv, chained>> /\ entries' \subseteq entries
    BY <1>12 DEF FirmwareReset, TurnOn, vars, espVars, firmwareVars, runVars
  <2>2. QED
    BY <1>a, <2>1
<1>13. QED
  BY <1>1, <1>2, <1>3, <1>4, <1>5, <1>6, <1>7, <1>8, <1>9, <1>10, <1>11, <1>12
  DEF Next, SetupStep

\* Entries go only where shim has one, or once the fallback path is whole.
LEMMA StepEntry == TypeOK /\ EntryInv /\ [Next]_vars => EntryInv'
<1> SUFFICES ASSUME TypeOK, EntryInv, [Next]_vars PROVE EntryInv'
  OBVIOUS
<1> USE DEF EntryInv
<1>a. ASSUME UNCHANGED <<sb, listed>>, chained => chained',
             entries \subseteq entries' \/ ("shim" \in entries /\ "shim" \in entries')
      PROVE  EntryInv'
  BY <1>a
<1>1. ASSUME NEW p \in Proc, SignBootLoader(p) PROVE EntryInv'
  <2>1. UNCHANGED <<sb, listed, chained>>
        /\ (entries' = entries \/ ("shim" \in entries /\ entries' = entries \ {"direct"}))
    BY <1>1, SignStep
  <2>2. QED
    BY <1>a, <2>1
<1>2. CASE Start \/ GenerateKey \/ InstallShimPackages \/ QueueKey \/ ImportKey
  BY <1>2, <1>a
     DEF Start, GenerateKey, InstallShimPackages, QueueKey, ImportKey, Queued, QueueFails,
         SetupSame, firmwareVars, runVars
<1>3. CASE RestoreDistribution \/ SignFirst \/ InstallHooks
  BY <1>3, <1>a
     DEF RestoreDistribution, SignFirst, InstallHooks, SetupSame, firmwareVars, runVars
<1>4. CASE \/ \E f \in Files : InstallVendorFile(f)
           \/ InstallFallback \/ InstallBeside \/ WriteCsv \/ CreateEntry
  BY <1>4, <1>a
     DEF InstallVendorFile, InstallFallback, InstallBeside, WriteCsv, CreateEntry, ChainSame,
         SetupSame, NoChain, runVars
<1>5. CASE FinishChain
  BY <1>5 DEF FinishChain, ChainSame, SetupSame
<1>6. CASE AptUnpack \/ AptConfigure
  BY <1>6, <1>a DEF AptUnpack, AptConfigure, firmwareVars, runVars
<1>7. CASE Restart
  BY <1>7, <1>a DEF Restart, runVars
<1>8. CASE FirmwareReset \/ TurnOn
  BY <1>8 DEF FirmwareReset, TurnOn, runVars
<1>9. CASE UNCHANGED vars
  BY <1>9, <1>a DEF vars, firmwareVars, runVars
<1>10. QED
  BY <1>1, <1>2, <1>3, <1>4, <1>5, <1>6, <1>7, <1>8, <1>9 DEF Next, SetupStep

\* Copies of a signed loader are signed.
LEMMA CopiesSigned ==
    ASSUME TypeOK, NEW s \in Loader, NEW v \in 0..(MaxUpgrades + 1),
           NEW copy \in BootctlCopies(esp, s, v), s.by # "nobody"
    PROVE  /\ copy = esp \/ copy = s
           /\ esp.by # "nobody" => copy.by # "nobody"
<1>1. s # NoFile
  BY DEF NoFile
<1>2. copy = esp \/ copy = s \/ (s = NoFile /\ copy = SignedBy("nobody", v))
  BY Copies DEF TypeOK
<1>3. QED
  BY <1>1, <1>2

\* Signatures are never lost: what SignedInv says of a process that does not move
\* stays true, and with it the rest, if the process that does move owes it.
LEMMA SignedStays ==
    ASSUME TypeOK, SignedInv, UNCHANGED sb, esp' # NoFile,
           signed.by # "nobody" => signed'.by # "nobody",
           signed.by # "nobody" /\ esp.by # "nobody" => esp'.by # "nobody",
           \A q \in Proc : SignedAt(q)' \/ (pc'[q] = pc[q] /\ tmp'[q] = tmp[q]),
           (pc'["setup"] \in FromShim /\ pc["setup"] \notin FromShim) \/ (chained' /\ ~chained)
             => esp'.by # "nobody" /\ signed'.by # "nobody"
    PROVE  SignedInv'
<1>1. ASSUME NEW q \in Proc, pc'[q] = pc[q], tmp'[q] = tmp[q] PROVE SignedAt(q)'
  BY <1>1 DEF SignedInv, SignedAt
<1>2. pc'["setup"] \in FromShim \/ sb' \/ chained' => esp'.by # "nobody" /\ signed'.by # "nobody"
  BY DEF SignedInv
<1>3. QED
  BY <1>1, <1>2 DEF SignedInv

\* Of two processes that sign, neither undoes what the other relies on.
LEMMA SignSigned ==
    ASSUME TypeOK, SignedInv, NEW p \in Proc, SignBootLoader(p) PROVE SignedInv'
<1>a. UNCHANGED <<sb, chained>> /\ esp # NoFile /\ SignedAt(p)
  BY SignStep DEF SignedInv
<1>b. pc[p] \in Signing
  BY SignStep
<1>c. PICK next \in Signing \cup {"off", "hooks", "shim"} :
         /\ Goto(p, next)
         /\ p = "setup" => next # "off"
         /\ p = "hook"  => next \notin {"hooks", "shim"}
  BY SignStep
<1>d. pc'[p] = next /\ \A q \in Proc \ {p} : pc'[q] = pc[q]
  BY <1>c DEF Goto, TypeOK
<1>e. pc'["setup"] \in FromShim => pc["setup"] \in FromShim \/ (p = "setup" /\ next = "shim")
  BY <1>b, <1>c, <1>d DEF FromShim, Signing, Proc
<1>f. ASSUME esp' # NoFile, signed.by # "nobody" => signed'.by # "nobody",
             signed.by # "nobody" /\ esp.by # "nobody" => esp'.by # "nobody",
             \A q \in Proc \ {p} : tmp'[q] = tmp[q],
             SignedAt(p)',
             next = "shim" => esp'.by # "nobody" /\ signed'.by # "nobody"
      PROVE  SignedInv'
  BY <1>a, <1>d, <1>e, <1>f, SignedStays
<1>g. ASSUME next \in {"off", "hooks", "sign"}, UNCHANGED <<signed, esp, tmp>> PROVE SignedInv'
  <2>1. SignedAt(p)'
    BY <1>d, <1>g DEF SignedAt
  <2>2. QED
    BY <1>a, <1>f, <1>g, <2>1
<1>h. SignFails(p) => next \in {"off", "hooks"}
  BY <1>c, <1>d DEF SignFails, NoChain, Goto, TypeOK, Proc
<1>1. CASE Judge(p)
  <2>1. UNCHANGED <<signed, esp, tmp>>
    BY <1>1 DEF Judge, loaderVars
  <2>2. CASE next \in {"off", "hooks", "sign"}
    BY <1>g, <2>1, <2>2
  <2>3. CASE next \in {"refresh", "update"} /\ signed.by \in {"ours", "distro"}
    BY <1>a, <1>d, <1>f, <2>1, <2>3 DEF SignedAt
  <2>4. ~SignFails(p) => next \in {"refresh", "update", "sign"}
                         /\ (next # "sign" => signed.by \in {"ours", "distro"})
    <3>1. ASSUME NEW step2 \in {"refresh", "update", "sign"}, Goto(p, step2) PROVE next = step2
      BY <1>c, <3>1 DEF Goto, TypeOK
    <3>2. CASE ships /\ signed.by = "distro"
      BY <1>1, <3>1, <3>2 DEF Judge
    <3>3. CASE ~(ships /\ signed.by = "distro")
      BY <1>1, <3>1, <3>3 DEF Judge
    <3>4. QED
      BY <3>2, <3>3
  <2>5. QED
    BY <1>h, <2>2, <2>3, <2>4
<1>2. CASE Sign(p)
  <2>1. UNCHANGED <<signed, esp>> /\ \A q \in Proc \ {p} : tmp'[q] = tmp[q]
    BY <1>2 DEF Sign, TypeOK, loaderVars
  <2>2. CASE SignFails(p) /\ UNCHANGED tmp
    BY <1>g, <1>h, <2>1, <2>2
  <2>3. CASE tmp' = [tmp EXCEPT ![p] = SignedBy("ours", src)] /\ Goto(p, "replace")
    <3>1. next = "replace" /\ tmp'[p].by = "ours"
      BY <1>d, <2>3 DEF Goto, TypeOK, SignedBy
    <3>2. SignedAt(p)'
      BY <1>d, <3>1 DEF SignedAt
    <3>3. QED
      BY <1>a, <1>f, <2>1, <3>1, <3>2
  <2>4. QED
    BY <1>2, <2>2, <2>3 DEF Sign
<1>3. CASE Replace(p)
  <2>1. /\ signed'.by = "ours" /\ esp' = esp /\ next = "stamp"
        /\ \A q \in Proc \ {p} : tmp'[q] = tmp[q]
    BY <1>3, <1>a, <1>d DEF Replace, SignedAt, Goto, TypeOK
  <2>2. SignedAt(p)'
    BY <1>d, <2>1 DEF SignedAt
  <2>3. QED
    BY <1>a, <1>f, <2>1, <2>2
<1>4. CASE Stamp(p)
  <2>1. UNCHANGED <<signed, esp, tmp>> /\ next = "update" /\ signed.by # "nobody"
    BY <1>4, <1>a, <1>d DEF Stamp, SignedAt, Goto, TypeOK
  <2>2. SignedAt(p)'
    BY <1>d, <2>1 DEF SignedAt
  <2>3. QED
    BY <1>a, <1>f, <2>1, <2>2
<1>5. CASE BootctlUpdate(p)
  <2>1. UNCHANGED <<signed, tmp>> /\ next \in {"keep", "check"} /\ signed.by # "nobody"
        /\ esp' \in BootctlCopies(esp, signed, src)
    BY <1>5, <1>a, <1>d DEF BootctlUpdate, SignedAt, Goto, TypeOK, loaderVars
  <2>2. esp' # NoFile /\ (esp.by # "nobody" => esp'.by # "nobody")
    <3>1. src \in 0..(MaxUpgrades + 1) /\ signed \in Loader /\ esp \in Loader
      BY ShimChainAssumption DEF TypeOK
    <3>2. QED
      BY <1>a, <2>1, <3>1, Copies, CopiesSigned
  <2>3. SignedAt(p)'
    BY <1>d, <2>1 DEF SignedAt
  <2>4. QED
    BY <1>f, <2>1, <2>2, <2>3
<1>6. CASE InstallLoader(p)
  <2>1. UNCHANGED <<signed, tmp>> /\ signed.by # "nobody"
    BY <1>6, <1>a DEF InstallLoader, SignedAt, loaderVars
  <2>2. CASE SignFails(p) /\ UNCHANGED esp
    BY <1>g, <1>h, <2>1, <2>2
  <2>3. CASE esp' = signed /\ Goto(p, "prune")
    <3>1. next = "prune" /\ esp' # NoFile /\ esp'.by # "nobody"
      BY <1>d, <2>1, <2>3 DEF Goto, TypeOK, NoFile
    <3>2. SignedAt(p)'
      BY <1>d, <2>1, <3>1 DEF SignedAt
    <3>3. QED
      BY <1>f, <2>1, <3>1, <3>2
  <2>4. QED
    BY <1>6, <2>2, <2>3 DEF InstallLoader
<1>7. CASE LoaderInPlace(p)
  <2>1. UNCHANGED <<signed, tmp, esp>> /\ next = "prune" /\ signed.by # "nobody" /\ esp.by # "nobody"
    BY <1>7, <1>a, <1>d DEF LoaderInPlace, SignedAt, Goto, TypeOK, loaderVars
  <2>2. SignedAt(p)'
    BY <1>d, <2>1 DEF SignedAt
  <2>3. QED
    BY <1>a, <1>f, <2>1, <2>2
<1>8. CASE Prune(p)
  <2>1. UNCHANGED <<signed, tmp, esp>> /\ signed.by # "nobody" /\ esp.by # "nobody"
    BY <1>8, <1>a DEF Prune, SignedAt, loaderVars
  <2>2. next \in {"off", "shim"}
    BY <1>8, <1>d DEF Prune, SignEnds, Goto, TypeOK
  <2>3. SignedAt(p)'
    BY <1>d, <2>2 DEF SignedAt
  <2>4. QED
    BY <1>a, <1>f, <2>1, <2>3
<1>9. QED
  BY <1>1, <1>2, <1>3, <1>4, <1>5, <1>6, <1>7, <1>8 DEF SignBootLoader

\* The steps of the setup outside sign_boot_loader, and those of apt, move a
\* process to a place that owes nothing.
LEMMA StepSigned == TypeOK /\ SignedInv /\ [Next]_vars => SignedInv'
<1> SUFFICES ASSUME TypeOK, SignedInv, [Next]_vars PROVE SignedInv'
  OBVIOUS
<1> USE DEF Proc, FromShim
<1>t. src \in 0..(MaxUpgrades + 1) /\ signed \in Loader /\ esp \in Loader /\ esp # NoFile
  BY ShimChainAssumption DEF TypeOK, SignedInv
<1>a. ASSUME NEW q \in Proc, pc'[q] \in Setup \cup {"off", "judge"} PROVE SignedAt(q)'
  BY <1>a DEF SignedAt, Setup, Files
<1>b. ASSUME UNCHANGED <<sb, tmp>>, chained' = chained \/ pc["setup"] \in FromShim,
             UNCHANGED <<signed, esp>> \/ (/\ esp' # NoFile
                                           /\ signed.by # "nobody" => signed'.by # "nobody"
                                           /\ signed.by # "nobody" /\ esp.by # "nobody"
                                                => esp'.by # "nobody"),
             \/ pc'["setup"] = pc["setup"]
             \/ pc'["setup"] \in (Setup \cup {"off", "judge"}) \ FromShim
             \/ pc'["setup"] \in Setup /\ pc["setup"] \in FromShim,
             pc'["hook"] \in {pc["hook"], "off", "judge"}
      PROVE  SignedInv'
  <2>1. \A q \in Proc : SignedAt(q)' \/ (pc'[q] = pc[q] /\ tmp'[q] = tmp[q])
    BY <1>a, <1>b
  <2>2. (pc'["setup"] \in FromShim /\ pc["setup"] \notin FromShim) \/ (chained' /\ ~chained)
          => pc["setup"] \in FromShim
    BY <1>b
  <2>3. CASE UNCHANGED <<signed, esp>>
    <3>1. pc["setup"] \in FromShim => esp'.by # "nobody" /\ signed'.by # "nobody"
      BY <2>3 DEF SignedInv
    <3>2. QED
      BY <1>b, <1>t, <2>1, <2>2, <2>3, <3>1, SignedStays
  <2>4. CASE /\ esp' # NoFile
             /\ signed.by # "nobody" => signed'.by # "nobody"
             /\ signed.by # "nobody" /\ esp.by # "nobody" => esp'.by # "nobody"
    <3>1. pc["setup"] \in FromShim => esp'.by # "nobody" /\ signed'.by # "nobody"
      BY <2>4 DEF SignedInv
    <3>2. QED
      BY <1>b, <2>1, <2>2, <2>4, <3>1, SignedStays
  <2>5. QED
    BY <1>b, <2>3, <2>4
<1>1. ASSUME NEW p \in Proc, SignBootLoader(p) PROVE SignedInv'
  BY <1>1, SignSigned
<1>2. CASE Start \/ GenerateKey
  <2>1. pc'["setup"] \in {"key", "packages", "off"} /\ pc'["hook"] = pc["hook"]
    BY <1>2, SetupGoto DEF Start, GenerateKey
  <2>2. UNCHANGED <<sb, tmp, chained, signed, esp>>
    BY <1>2 DEF Start, GenerateKey, SetupSame, loaderVars, espVars, firmwareVars, runVars
  <2>3. QED
    BY <1>b, <2>1, <2>2 DEF Setup, Files
<1>3. CASE InstallShimPackages
  <2>1. pc'["setup"] = "queue" /\ pc'["hook"] \in {pc["hook"], "judge", "off"}
    <3>1. CASE Goto("setup", "queue")
      BY <3>1, SetupGoto
    <3>2. CASE pc' = [setup |-> "queue", hook |-> IF hook THEN "judge" ELSE "off"]
      BY <3>2
    <3>3. QED
      BY <1>3, <3>1, <3>2 DEF InstallShimPackages
  <2>2. UNCHANGED <<sb, tmp, chained, signed, esp>>
    BY <1>3 DEF InstallShimPackages, SetupSame, loaderVars, espVars, firmwareVars
  <2>3. QED
    BY <1>b, <2>1, <2>2 DEF Setup, Files
<1>4. CASE QueueKey \/ ImportKey
  <2>1. pc'["setup"] \in {"off", "import", "restore", "hooks"} /\ pc'["hook"] = pc["hook"]
    BY <1>4, SetupGoto DEF QueueKey, ImportKey, Queued, QueueFails
  <2>2. UNCHANGED <<sb, tmp, chained, signed, esp>>
    BY <1>4 DEF QueueKey, ImportKey, Queued, QueueFails, SetupSame, loaderVars, espVars, runVars
  <2>3. QED
    BY <1>b, <2>1, <2>2 DEF Setup, Files
<1>5. CASE RestoreDistribution
  <2>1. pc'["setup"] = "restored" /\ pc'["hook"] \in {pc["hook"], "judge", "off"}
    <3>1. CASE Goto("setup", "restored")
      BY <3>1, SetupGoto
    <3>2. CASE pc' = [setup |-> "restored", hook |-> IF hook THEN "judge" ELSE "off"]
      BY <3>2
    <3>3. QED
      BY <1>5, <3>1, <3>2 DEF RestoreDistribution
  <2>2. UNCHANGED <<sb, tmp, chained>>
    BY <1>5 DEF RestoreDistribution, SetupSame, runVars
  <2>3. CASE UNCHANGED <<loaderVars, esp>>
    BY <1>b, <2>1, <2>2, <2>3 DEF Setup, Files, loaderVars
  <2>4. CASE signed' = SignedBy("distro", src) /\ esp' \in BootctlCopies(esp, signed', src)
    <3>1. signed' \in Loader /\ signed'.by = "distro"
      BY <1>t, <2>4, Loaders
    <3>2. esp' # NoFile /\ (esp.by # "nobody" => esp'.by # "nobody")
      BY <1>t, <2>4, <3>1, Copies, CopiesSigned
    <3>3. QED
      BY <1>b, <2>1, <2>2, <3>1, <3>2 DEF Setup, Files
  <2>5. QED
    BY <1>5, <2>3, <2>4 DEF RestoreDistribution
<1>6. CASE SignFirst \/ InstallHooks
  <2>1. pc'["setup"] \in {"judge", "off"} /\ pc'["hook"] = pc["hook"]
    BY <1>6, SetupGoto DEF SignFirst, InstallHooks
  <2>2. UNCHANGED <<sb, tmp, chained, signed, esp>>
    BY <1>6 DEF SignFirst, InstallHooks, SetupSame, loaderVars, espVars, firmwareVars, runVars
  <2>3. QED
    BY <1>b, <2>1, <2>2
<1>7. CASE \/ \E f \in Files : InstallVendorFile(f)
           \/ InstallFallback \/ InstallBeside \/ WriteCsv \/ CreateEntry \/ FinishChain
  <2>1. pc'["setup"] \in Setup /\ pc["setup"] \in FromShim /\ pc'["hook"] = pc["hook"]
    BY <1>7, SetupGoto
       DEF InstallVendorFile, InstallFallback, InstallBeside, WriteCsv, CreateEntry, FinishChain,
           NoChain, After, Setup, Files
  <2>2. UNCHANGED <<sb, tmp, signed, esp>>
    BY <1>7
       DEF InstallVendorFile, InstallFallback, InstallBeside, WriteCsv, CreateEntry, FinishChain,
           ChainSame, SetupSame, loaderVars
  <2>3. QED
    BY <1>b, <2>1, <2>2
<1>8. CASE AptUnpack
  <2>1. signed.by # "nobody" => signed'.by # "nobody"
    <3>1. src' \in 0..(MaxUpgrades + 1)
      BY <1>8, ShimChainAssumption DEF AptUnpack, TypeOK
    <3>2. SignedBy("distro", src').by = "distro"
      BY <3>1, Loaders
    <3>3. QED
      BY <1>8, <3>2 DEF AptUnpack
  <2>2. UNCHANGED <<sb, tmp, chained, esp, pc>>
    BY <1>8 DEF AptUnpack, espVars, firmwareVars, runVars
  <2>3. QED
    BY <1>b, <1>t, <2>1, <2>2
<1>9. CASE AptConfigure
  <2>1. UNCHANGED <<sb, tmp, chained, signed>> /\ esp' \in BootctlCopies(esp, signed, src)
    BY <1>9 DEF AptConfigure, loaderVars, runVars
  <2>2. pc'["setup"] = pc["setup"] /\ pc'["hook"] \in {pc["hook"], "judge"}
    BY <1>9, HookGoto DEF AptConfigure, HookRuns
  <2>3. esp' # NoFile /\ (signed.by # "nobody" /\ esp.by # "nobody" => esp'.by # "nobody")
    BY <1>t, <2>1, Copies, CopiesSigned
  <2>4. QED
    BY <1>b, <2>1, <2>2, <2>3
<1>10. CASE Restart
  <2>1. pc'["setup"] = "off" /\ pc'["hook"] = "off"
    BY <1>10 DEF Restart
  <2>2. UNCHANGED <<sb, signed, esp, chained>>
    BY <1>10 DEF Restart, loaderVars, espVars, runVars
  <2>3. \A q \in Proc : SignedAt(q)'
    BY <2>1 DEF SignedAt
  <2>4. QED
    BY <1>t, <2>1, <2>2, <2>3, SignedStays
<1>11. CASE FirmwareReset \/ UNCHANGED vars
  <2>1. UNCHANGED <<sb, tmp, chained, signed, esp, pc>>
    BY <1>11 DEF FirmwareReset, vars, loaderVars, espVars, firmwareVars, runVars
  <2>2. QED
    BY <1>b, <2>1
<1>12. CASE TurnOn
  <2>1. chained /\ UNCHANGED <<tmp, chained, signed, esp, pc>>
    BY <1>12 DEF TurnOn, loaderVars, espVars, runVars
  <2>2. QED
    BY <2>1 DEF SignedInv, SignedAt
<1>13. QED
  BY <1>1, <1>2, <1>3, <1>4, <1>5, <1>6, <1>7, <1>8, <1>9, <1>10, <1>11, <1>12
  DEF Next, SetupStep

\* Nothing signs over the distribution's systemd-boot before our key is in the
\* firmware, on a machine that came with Secure Boot on.
Resigning == {"sign", "replace", "stamp", "update", "check"}

LEMMA SignDistro ==
    ASSUME TypeOK, DistroInv, NEW p \in Proc, SignBootLoader(p) PROVE DistroInv'
<1>a. UNCHANGED <<sb, mok, ships>>
  BY SignStep DEF packageVars
<1>b. PICK next \in Signing \cup {"off", "hooks", "shim"} : Goto(p, next) /\ pc[p] \in Signing
  BY SignStep
<1>c. pc'[p] = next /\ \A q \in Proc \ {p} : pc'[q] = pc[q]
  BY <1>b DEF Goto, TypeOK
<1>d. pc'["setup"] # "import"
      \/ (pc'["setup"] = pc["setup"] /\ pc["setup"] = "import")
  BY <1>b, <1>c DEF Signing, Proc
<1>e. ASSUME sb, mok # "enrolled"
      PROVE  signed'.by = "distro" /\ esp'.by = "distro" /\ next \notin Resigning
  <2>1. ships /\ signed.by = "distro" /\ esp.by = "distro" /\ pc[p] \notin Resigning
    BY <1>e DEF DistroInv, Resigning
  <2> USE DEF Resigning
  <2>2. \A s \in Signing \cup {"off", "hooks", "shim"} : Goto(p, s) => next = s
    BY <1>c DEF Goto, TypeOK
  <2>3. SignFails(p) => next \in {"off", "hooks"}
    BY <2>2 DEF SignFails, NoChain, Proc
  <2>4. CASE Judge(p)
    BY <2>1, <2>2, <2>3, <2>4 DEF Judge, Signing, loaderVars
  <2>5. CASE BootctlUpdate(p)
    <3>1. pc[p] = "refresh" /\ esp' \in BootctlCopies(esp, signed, src) /\ signed' = signed
          /\ next = "keep"
      BY <2>1, <2>2, <2>5 DEF BootctlUpdate, Signing, loaderVars
    <3>2. signed \in Loader /\ signed # NoFile /\ src \in 0..(MaxUpgrades + 1) /\ esp \in Loader
      BY <2>1, ShimChainAssumption DEF TypeOK, NoFile
    <3>3. esp' = esp \/ esp' = signed
      BY <3>1, <3>2, Copies
    <3>4. QED
      BY <2>1, <3>1, <3>3
  <2>6. CASE InstallLoader(p) \/ LoaderInPlace(p)
    BY <2>1, <2>2, <2>3, <2>6 DEF InstallLoader, LoaderInPlace, Signing, loaderVars
  <2>7. CASE Prune(p)
    BY <2>1, <2>2, <2>7 DEF Prune, SignEnds, Signing, loaderVars
  <2>8. QED
    BY <2>1, <2>4, <2>5, <2>6, <2>7 DEF SignBootLoader, Sign, Replace, Stamp
<1>2. QED
  BY <1>a, <1>c, <1>d, <1>e DEF DistroInv, Resigning

LEMMA StepDistro == TypeOK /\ DistroInv /\ [Next]_vars => DistroInv'
<1> SUFFICES ASSUME TypeOK, DistroInv, [Next]_vars PROVE DistroInv'
  OBVIOUS
<1> USE DEF Proc
<1>a. ASSUME UNCHANGED <<sb, ships>>, mok' # "enrolled" => mok # "enrolled",
             UNCHANGED <<signed, esp>>
               \/ (sb /\ mok # "enrolled" => signed'.by = "distro" /\ esp'.by = "distro"),
             \A q \in Proc : pc'[q] = pc[q] \/ pc'[q] \notin Resigning,
             pc'["setup"] = "import" => mok' = "none"
      PROVE  DistroInv'
  BY <1>a DEF DistroInv, Resigning
<1>b. pc["setup"] = "import" => mok = "none"
  BY DEF DistroInv
<1>1. ASSUME NEW p \in Proc, SignBootLoader(p) PROVE DistroInv'
  BY <1>1, SignDistro
<1>2. CASE Start \/ GenerateKey
  <2>1. pc'["setup"] \in {"key", "packages", "off"} /\ pc'["hook"] = pc["hook"]
    BY <1>2, SetupGoto DEF Start, GenerateKey
  <2>2. UNCHANGED <<sb, ships, mok, signed, esp>>
    BY <1>2 DEF Start, GenerateKey, packageVars, loaderVars, espVars, firmwareVars
  <2>3. QED
    BY <1>a, <2>1, <2>2 DEF Resigning
<1>3. CASE InstallShimPackages
  <2>1. pc'["setup"] = "queue" /\ pc'["hook"] \in {pc["hook"], "judge", "off"}
    <3>1. CASE Goto("setup", "queue")
      BY <3>1, SetupGoto
    <3>2. CASE pc' = [setup |-> "queue", hook |-> IF hook THEN "judge" ELSE "off"]
      BY <3>2
    <3>3. QED
      BY <1>3, <3>1, <3>2 DEF InstallShimPackages
  <2>2. UNCHANGED <<sb, ships, mok, signed, esp>>
    BY <1>3 DEF InstallShimPackages, loaderVars, espVars, firmwareVars
  <2>3. QED
    BY <1>a, <2>1, <2>2 DEF Resigning
<1>4. CASE QueueKey \/ ImportKey
  <2>1. /\ pc'["setup"] \in {"off", "import", "restore", "hooks"} /\ pc'["hook"] = pc["hook"]
        /\ pc'["setup"] = "import" => mok' = "none"
    BY <1>4, SetupGoto DEF QueueKey, ImportKey, Queued, QueueFails
  <2>2. UNCHANGED <<sb, ships, signed, esp>> /\ (mok' # "enrolled" => mok # "enrolled")
    BY <1>4, <1>b DEF QueueKey, ImportKey, packageVars, loaderVars, espVars
  <2>3. QED
    BY <1>a, <2>1, <2>2 DEF Resigning
<1>5. CASE RestoreDistribution
  <2>1. pc'["setup"] = "restored" /\ pc'["hook"] \in {pc["hook"], "judge", "off"}
    <3>1. CASE Goto("setup", "restored")
      BY <3>1, SetupGoto
    <3>2. CASE pc' = [setup |-> "restored", hook |-> IF hook THEN "judge" ELSE "off"]
      BY <3>2
    <3>3. QED
      BY <1>5, <3>1, <3>2 DEF RestoreDistribution
  <2>2. UNCHANGED <<sb, ships, mok>>
    BY <1>5 DEF RestoreDistribution, packageVars
  <2>3. UNCHANGED <<signed, esp>> \/ ~(sb /\ mok # "enrolled")
    BY <1>5 DEF RestoreDistribution, DistroInv, loaderVars
  <2>4. QED
    BY <1>a, <2>1, <2>2, <2>3 DEF Resigning
<1>6. CASE SignFirst \/ InstallHooks
  <2>1. pc'["setup"] \in {"judge", "off"} /\ pc'["hook"] = pc["hook"]
    BY <1>6, SetupGoto DEF SignFirst, InstallHooks
  <2>2. UNCHANGED <<sb, ships, mok, signed, esp>>
    BY <1>6 DEF SignFirst, InstallHooks, packageVars, loaderVars, espVars, firmwareVars
  <2>3. QED
    BY <1>a, <2>1, <2>2 DEF Resigning
<1>7. CASE \/ \E f \in Files : InstallVendorFile(f)
           \/ InstallFallback \/ InstallBeside \/ WriteCsv \/ CreateEntry \/ FinishChain
  <2>1. pc'["setup"] \in {"fb", "mm", "fallback", "beside", "csv", "entry", "last-prune", "hooks"}
        /\ pc'["hook"] = pc["hook"]
    BY <1>7, SetupGoto
       DEF InstallVendorFile, InstallFallback, InstallBeside, WriteCsv, CreateEntry, FinishChain,
           NoChain, After, Files
  <2>2. UNCHANGED <<sb, ships, mok, signed, esp>>
    BY <1>7
       DEF InstallVendorFile, InstallFallback, InstallBeside, WriteCsv, CreateEntry, FinishChain,
           ChainSame, packageVars, loaderVars
  <2>3. QED
    BY <1>a, <2>1, <2>2 DEF Resigning
<1>8. CASE AptUnpack
  <2>1. UNCHANGED <<sb, mok, esp, pc>> /\ (ships => ships' /\ signed'.by = "distro")
    <3>1. src' \in 0..(MaxUpgrades + 1)
      BY <1>8, ShimChainAssumption DEF AptUnpack, TypeOK
    <3>2. SignedBy("distro", src').by = "distro"
      BY <3>1, Loaders
    <3>3. UNCHANGED <<sb, mok, esp, pc>>
      BY <1>8 DEF AptUnpack, espVars, firmwareVars
    <3>4. ships' \in {ships, TRUE} /\ signed' = (IF ships' THEN SignedBy("distro", src') ELSE signed)
      BY <1>8 DEF AptUnpack
    <3>5. ASSUME ships PROVE ships' /\ signed'.by = "distro"
      BY <3>2, <3>4, <3>5 DEF TypeOK
    <3>6. QED
      BY <3>3, <3>5
  <2>2. QED
    BY <2>1 DEF DistroInv
<1>9. CASE AptConfigure
  <2>1. UNCHANGED <<sb, ships, mok, signed>> /\ esp' \in BootctlCopies(esp, signed, src)
    BY <1>9 DEF AptConfigure, packageVars, loaderVars
  <2>2. pc'["setup"] = pc["setup"] /\ pc'["hook"] \in {pc["hook"], "judge"}
    BY <1>9, HookGoto DEF AptConfigure, HookRuns
  <2>3. sb /\ mok # "enrolled" => signed'.by = "distro" /\ esp'.by = "distro"
    <3>1. signed \in Loader /\ src \in 0..(MaxUpgrades + 1) /\ esp \in Loader
      BY ShimChainAssumption DEF TypeOK
    <3>2. signed.by = "distro" => esp' = esp \/ esp' = signed
      BY <2>1, <3>1, Copies DEF NoFile
    <3>3. QED
      BY <2>1, <3>2 DEF DistroInv
  <2>4. QED
    BY <1>a, <1>b, <2>1, <2>2, <2>3 DEF Resigning
<1>10. CASE Restart
  <2>1. pc'["setup"] = "off" /\ pc'["hook"] = "off"
    BY <1>10 DEF Restart
  <2>2. UNCHANGED <<sb, ships, signed, esp>> /\ (mok' # "enrolled" => mok # "enrolled")
    BY <1>10 DEF Restart, packageVars, loaderVars, espVars
  <2>3. QED
    BY <1>a, <2>1, <2>2 DEF Resigning
<1>11. CASE TurnOn
  BY <1>11 DEF TurnOn, DistroInv
<1>12. CASE FirmwareReset \/ UNCHANGED vars
  <2>1. UNCHANGED <<sb, ships, mok, signed, esp, pc>>
    BY <1>12 DEF FirmwareReset, vars, packageVars, loaderVars, espVars, firmwareVars
  <2>2. QED
    BY <1>a, <1>b, <2>1
<1>13. QED
  BY <1>1, <1>2, <1>3, <1>4, <1>5, <1>6, <1>7, <1>8, <1>9, <1>10, <1>11, <1>12
  DEF Next, SetupStep

LEMMA ChainPathInvariant == Spec => []ChainPathInv
<1>1. ChainPathInv /\ [Next]_vars => ChainPathInv'
  BY ChainType, StepKey, StepSigned, StepChain, StepEntry, StepDistro DEF ChainPathInv
<1>2. QED
  BY ChainInit, <1>1, PTL DEF Spec

\* The packages, the ESP, the firmware and both processes keep their types.
THEOREM ChainTypeCorrect == Spec => []TypeOK
<1>1. ChainPathInv => TypeOK
  BY DEF ChainPathInv
<1>2. QED
  BY ChainPathInvariant, <1>1, PTL

\* Where Secure Boot is on, shim starts the systemd-boot that is there.
LEMMA ShimWorks ==
    ASSUME ChainPathInv, "shim" \in vendor PROVE ShimStarts(sb)
<1>1. CASE ~sb
  BY <1>1 DEF ChainPathInv, SignedInv, ShimStarts
<1>2. CASE sb
  <2>1. esp # NoFile /\ esp.by # "nobody" /\ esp.by \in {"nobody", "ours", "distro"}
    BY <1>2 DEF ChainPathInv, SignedInv, TypeOK, Loader
  <2>2. mok = "enrolled" \/ esp.by = "distro"
    BY <1>2 DEF ChainPathInv, DistroInv
  <2>3. QED
    BY <2>1, <2>2 DEF ShimStarts
<1>3. QED
  BY <1>1, <1>2

\* The machine has something to start at every step of the setup, the hook and an
\* upgrade, whatever fails and wherever it stops.
THEOREM MachineBoots == Spec => []AlwaysBoots
<1>1. ASSUME ChainPathInv PROVE AlwaysBoots
  <2>a. TypeOK /\ ChainInv /\ EntryInv
    BY <1>1 DEF ChainPathInv
  <2>b. fallback = "shim" => "shim" \in vendor
    BY <2>a DEF ChainInv, Files
  <2>1. CASE "shim" \in entries
    <3>1. "shim" \in vendor
      BY <2>1, <2>a DEF ChainInv
    <3>2. ShimStarts(sb)
      BY <1>1, <3>1, ShimWorks
    <3>3. QED
      BY <2>1, <3>2 DEF AlwaysBoots, Boots
  <2>2. CASE "shim" \notin entries /\ sb
    <3>1. chained
      BY <2>2, <2>a DEF EntryInv
    <3>2. fallback = "shim" /\ beside /\ csv
      BY <3>1, <2>a DEF ChainInv
    <3>3. ShimStarts(sb)
      BY <1>1, <2>b, <3>2, ShimWorks
    <3>4. QED
      BY <3>2, <3>3 DEF AlwaysBoots, Boots, FallbackStarts
  <2>3. CASE "shim" \notin entries /\ ~sb
    <3>1. CASE "direct" \in entries \/ fallback # "shim"
      BY <2>3, <3>1 DEF AlwaysBoots, Boots, FallbackStarts
    <3>2. CASE fallback = "shim" /\ beside /\ csv
      <4>1. ShimStarts(sb)
        BY <1>1, <2>b, <3>2, ShimWorks
      <4>2. QED
        BY <3>2, <4>1 DEF AlwaysBoots, Boots, FallbackStarts
    <3>3. CASE entries = {} /\ fallback = "shim" /\ ~(beside /\ csv)
      <4>1. ~chained
        BY <2>a, <3>3 DEF ChainInv
      <4>2. ~listed
        BY <2>a, <3>3, <4>1 DEF EntryInv
      <4>3. QED
        BY <3>3, <4>2 DEF AlwaysBoots
    <3>4. entries = {} \/ "direct" \in entries
      BY <2>3, <2>a DEF TypeOK
    <3>5. QED
      BY <3>1, <3>2, <3>3, <3>4
  <2>4. QED
    BY <2>1, <2>2, <2>3
<1>2. QED
  BY ChainPathInvariant, <1>1, PTL

\* What the setup reported stays true: the fallback path alone starts the machine
\* with Secure Boot on, unless the key is not trusted after all.
THEOREM FallbackHolds == Spec => []FallbackIsWhole
<1>1. ASSUME ChainPathInv, chained, esp.by = "distro" \/ mok # "none" PROVE FallbackStarts(TRUE)
  <2>1. fallback = "shim" /\ beside /\ csv /\ Files \subseteq vendor
    BY <1>1 DEF ChainPathInv, ChainInv
  <2>2. esp # NoFile /\ esp.by \in {"ours", "distro"} /\ mok \in {"none", "queued", "enrolled"}
    BY <1>1 DEF ChainPathInv, SignedInv, TypeOK, Loader
  <2>3. ShimStarts(TRUE)
    BY <1>1, <2>1, <2>2 DEF ShimStarts, Files
  <2>4. QED
    BY <2>1, <2>3 DEF FallbackStarts
<1>2. ChainPathInv => FallbackIsWhole
  BY <1>1 DEF FallbackIsWhole
<1>3. QED
  BY ChainPathInvariant, <1>2, PTL

=============================================================================
