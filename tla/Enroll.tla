------------------------------- MODULE Enroll -------------------------------
(***************************************************************************)
(* Queueing keys for enrollment: queue_key_enrollment of                   *)
(* scripts/privileged-install.sh, and what src/system.rs makes of it.      *)
(*                                                                         *)
(* The firmware keeps one request (MokNew) under one password (MokAuth).   *)
(* The script rebuilds the whole request with mokutil, one call after      *)
(* another, while other tools queue entries of their own; MOK Manager      *)
(* takes the request at the next boot.  The app may not read MokNew, only  *)
(* its size, so the script leaves it a list of the keys it queued.         *)
(***************************************************************************)
CONSTANTS
    Certs,       \* certificates that may be in a request
    Hashes,      \* entries of a request that are not certificates
    Own, Dkms,   \* Kernel Pop's signing key and the DKMS module-signing key
    Passwords,   \* passwords a user may choose in Kernel Pop
    RequestSize  \* the size MokNew has with a set of entries

Entries == Certs \cup Hashes
Theirs  == "theirs"   \* a password chosen in another tool
NoAuth  == "none"

\* The list is missing: as good as one that names no key.
NoList  == [size |-> RequestSize[{}], keys |-> {}]

ASSUME EnrollAssumption ==
    /\ Certs \cap Hashes = {}
    /\ {Own, Dkms} \subseteq Certs
    /\ Passwords \cap {Theirs, NoAuth} = {}
    /\ DOMAIN RequestSize = SUBSET Entries

VARIABLES
    mokNew,    \* entries waiting; no variable when there is none
    mokAuth,   \* the password of the request
    trusted,   \* certificates in the MOK list, db or built in
    list,      \* /var/lib/mok-pending/list
    step,      \* next command of queue_key_enrollment
    pw,        \* the password chosen for this setup
    ders,      \* certificates this setup is going to queue
    outcome,   \* how the last setup ended
    found      \* history: the entries waiting when it began

firmware == <<mokNew, mokAuth, trusted>>
enrollVars == <<firmware, list, step, pw, ders, outcome, found>>

EnrollTypeOK ==
    /\ mokNew \in SUBSET Entries
    /\ mokAuth \in Passwords \cup {Theirs, NoAuth}
    /\ trusted \in SUBSET Certs
    /\ list \in [size : {RequestSize[K] : K \in SUBSET Entries}, keys : SUBSET Certs]
    /\ step \in {"idle", "collect", "hash", "revoke", "import", "retry", "drop", "record"}
    /\ pw \in Passwords
    /\ ders \in SUBSET Certs
    /\ outcome \in {"none", "done", "nothing-to-queue", "refused", "failed", "stopped"}
    /\ found \in SUBSET Entries

EnrollInit ==
    /\ mokNew = {} /\ mokAuth = NoAuth
    /\ trusted \in SUBSET Certs
    /\ list = NoList
    /\ step = "idle" /\ pw \in Passwords /\ ders = {} /\ outcome = "none" /\ found = {}

-----------------------------------------------------------------------------
(* mokutil (external), as the script relies on it.                         *)

\* --import adds what is neither trusted nor waiting and sets the password;
\* when there is nothing to add it succeeds and the password stays.
MokImport(K, password) ==
    /\ mokNew' = mokNew \cup (K \ trusted)
    /\ mokAuth' = IF K \subseteq mokNew \cup trusted THEN mokAuth ELSE password
    /\ UNCHANGED trusted

\* An import that fails may have written part of the request, never all.
MokImportFails(K) ==
    /\ \E part \in SUBSET (K \ trusted) :
          /\ part = {} \/ part # K \ trusted
          /\ mokNew' = mokNew \cup part
    /\ UNCHANGED <<mokAuth, trusted>>

MokRevoke == mokNew' = {} /\ mokAuth' = NoAuth /\ UNCHANGED trusted

-----------------------------------------------------------------------------
(* queue_key_enrollment.                                                   *)

Continue(next) == step' = next /\ UNCHANGED outcome
End(how) == step' = "idle" /\ outcome' = how
RunSame == UNCHANGED <<pw, ders, found>>

StartSetup ==
    /\ step = "idle"
    /\ pw' \in Passwords
    /\ step' = "collect" /\ ders' = {} /\ outcome' = "none" /\ found' = mokNew
    /\ UNCHANGED <<firmware, list>>

\* Mutant: entries that are not certificates are taken along.
CollectEverything ==
    /\ step = "collect"
    /\ \/ End("refused") /\ UNCHANGED ders
       \/ \E own \in {{Own}, {Own, Dkms}} :
             /\ ders' = (mokNew \cup own) \ trusted
             /\ Continue("hash")
    /\ UNCHANGED <<firmware, list, pw, found>>

\* Mutant: what other tools have queued is not carried over.
CollectOwn ==
    /\ step = "collect"
    /\ \/ End("refused") /\ UNCHANGED ders
       \/ \E own \in {{Own}, {Own, Dkms}} :
             ders' = own \ trusted /\ Continue("hash")
    /\ UNCHANGED <<firmware, list, pw, found>>

\* pending_mok_certs and add_cert: the waiting certificates, Kernel Pop's key
\* and the DKMS key if the machine has one, less what is trusted already.  A
\* request that cannot be read or carried over is left alone.
Collect ==
    /\ step = "collect"
    /\ \/ End("refused") /\ UNCHANGED ders
       \/ \E own \in {{Own}, {Own, Dkms}} :
             /\ mokNew \cap Hashes = {}
             /\ ders' = (mokNew \cup own) \ trusted
             /\ Continue("hash")
    /\ UNCHANGED <<firmware, list, pw, found>>

\* Nothing needs enrolling: a request that is left over goes, and the list.
NothingToQueue ==
    /\ step = "hash" /\ ders = {}
    /\ IF mokNew # {} THEN MokRevoke \/ UNCHANGED firmware ELSE UNCHANGED firmware
    /\ list' = NoList
    /\ End("nothing-to-queue") /\ RunSame

HashPassword ==
    /\ step = "hash" /\ ders # {}
    /\ Continue("revoke") \/ End("refused")
    /\ UNCHANGED <<firmware, list>> /\ RunSame

\* The waiting request is revoked; if that fails, it stays as it is.
Revoke ==
    /\ step = "revoke"
    /\ \/ /\ IF mokNew # {} THEN MokRevoke ELSE UNCHANGED firmware
          /\ Continue("import")
       \/ mokNew # {} /\ End("refused") /\ UNCHANGED firmware
    /\ UNCHANGED list /\ RunSame

Import ==
    /\ step = "import"
    /\ \/ MokImport(ders, pw) /\ Continue("record")
       \/ MokImportFails(ders) /\ Continue("retry")
    /\ UNCHANGED list /\ RunSame

Retry ==
    /\ step = "retry"
    /\ \/ MokImport(ders, pw) /\ Continue("record")
       \/ MokImportFails(ders) /\ Continue("drop")
    /\ UNCHANGED list /\ RunSame

\* Both imports failed: what they may have written goes, the list too, and
\* every key that waits no more is named.
DropRequest ==
    /\ step = "drop"
    /\ IF mokNew # {} THEN MokRevoke \/ UNCHANGED firmware ELSE UNCHANGED firmware
    /\ list' = NoList
    /\ End("failed") /\ RunSame

\* write_mok_pending_list: MokNew's size as it is now, and the keys queued.
\* When it cannot be written the earlier list stays.
Record ==
    /\ step = "record"
    /\ \/ list' = IF mokNew = {} THEN NoList ELSE [size |-> RequestSize[mokNew], keys |-> ders]
       \/ UNCHANGED list
    /\ End("done")
    /\ UNCHANGED firmware /\ RunSame

-----------------------------------------------------------------------------
(* Everyone else.                                                          *)

\* Another tool queues an entry, at any time.
OtherImport(e) ==
    /\ MokImport({e}, Theirs)
    /\ UNCHANGED <<list, step, outcome>> /\ RunSame

\* Another tool withdraws the request; not while a setup rebuilds it.
OtherRevoke ==
    /\ step = "idle" /\ mokNew # {}
    /\ MokRevoke
    /\ UNCHANGED <<list, step, outcome>> /\ RunSame

\* The machine reboots, at any time: MOK Manager enrolls the request, or
\* drops it, or the user never gets there.
Reboot ==
    /\ \/ /\ mokAuth # NoAuth
          /\ trusted' = trusted \cup (mokNew \cap Certs)
          /\ mokNew' = {} /\ mokAuth' = NoAuth
       \/ MokRevoke
       \/ UNCHANGED firmware
    /\ IF step = "idle" THEN UNCHANGED <<step, outcome>> ELSE End("stopped")
    /\ UNCHANGED list /\ RunSame

EnrollNext ==
    \/ StartSetup \/ Collect \/ NothingToQueue \/ HashPassword \/ Revoke
    \/ Import \/ Retry \/ DropRequest \/ Record
    \/ \E e \in Entries : OtherImport(e)
    \/ OtherRevoke \/ Reboot

EnrollSpec == EnrollInit /\ [][EnrollNext]_enrollVars

-----------------------------------------------------------------------------
(* What the System tab shows for a key.                                    *)

\* Mutant: the list is believed whatever the request is by now.
ListedAnyway(k) == mokNew # {} /\ k \in list.keys

\* key_pending and parse_pending_list: a request exists that has the size it
\* had when the list was written.
Listed(k) ==
    mokNew # {} /\ list.size = RequestSize[mokNew] /\ k \in list.keys

\* combine_key_enrollment, for an app that is not root.
Status(k) ==
    IF k \in trusted THEN "enrolled" ELSE IF Listed(k) THEN "pending" ELSE "not-enrolled"

-----------------------------------------------------------------------------
(* Properties.                                                             *)

\* No other request has the size of the one that waits.
SizeTells == \A K \in SUBSET Entries : RequestSize[K] = RequestSize[mokNew] => K = mokNew

\* A setup that ends without naming the keys it lost has lost none: what was
\* waiting when it began is still waiting, or trusted.
NothingWaitingLost ==
    [][step # "idle" /\ step' = "idle" /\ outcome' \notin {"failed", "stopped"}
          => found \subseteq mokNew' \cup trusted']_enrollVars

\* A key shown as waiting really is in the request MOK Manager will show, unless
\* another request has the same size, which is all the app can see of it
\* (parse_pending_list); and the password chosen last enrolls it: "That one
\* password enrolls all of these keys", if that setup got so far and no other tool
\* has queued an entry since.
PendingIsWaiting ==
    step = "idle" => \A k \in Certs :
        Status(k) = "pending" =>
            /\ SizeTells => k \in mokNew
            /\ outcome = "done" /\ mokAuth # Theirs => mokAuth = pw
=============================================================================
