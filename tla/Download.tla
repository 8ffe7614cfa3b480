------------------------------ MODULE Download ------------------------------
(***************************************************************************)
(* download_files (src/download.rs): files fetched one after the other,    *)
(* each into <name>.part first.  The Download button fetches a tarball and *)
(* its signature with it, and can be cancelled; the check of a source      *)
(* fetches a signature.  Source says which file takes the real name.       *)
(***************************************************************************)
EXTENDS Naturals, Sequences

CONSTANT MAX_RETRIES   \* attempts for one file
ASSUME RetriesAssumption == MAX_RETRIES \in Nat \ {0}

VARIABLES
    queue,     \* the files to come, the one at hand first
    transfer,  \* where download_one is, "off" when nothing is fetched
    attempt,   \* failed attempts for the file at hand
    known,     \* the server named the length of the file
    part,      \* what <name>.part holds of it
    cancel,    \* the flag of the Cancel button
    outcome    \* how the download ended

\* A server may send data for ever, a little at a time.  "some" and "more" are
\* both less than all; they alternate, so that each chunk is a step.
Amounts == {"nothing", "some", "more", "all"}

downloadVars == <<queue, transfer, attempt, known, part, cancel, outcome>>

DownloadTypeOK ==
    /\ queue \in {<<>>, <<"tarball">>, <<"signature">>, <<"tarball", "signature">>}
    /\ transfer \in {"off", "attempt", "stream", "place", "ended"}
    /\ attempt \in 0..(MAX_RETRIES - 1)
    /\ known \in BOOLEAN /\ cancel \in BOOLEAN
    /\ part \in Amounts
    /\ outcome \in {"none", "done", "failed", "cancelled"}

DownloadInit ==
    /\ queue = <<>> /\ transfer = "off" /\ attempt = 0
    /\ known = FALSE /\ cancel = FALSE /\ outcome = "none"
    /\ part = "nothing"

BeginDownload(files) ==
    /\ transfer' = "attempt" /\ queue' = files /\ attempt' = 0
    /\ cancel' = FALSE /\ outcome' = "none"
    /\ UNCHANGED <<known, part>>

End(how) == transfer' = "ended" /\ outcome' = how /\ UNCHANGED <<queue, attempt>>

\* Mutant: one attempt too many.
RetryOnceMore ==
    IF attempt = MAX_RETRIES
    THEN End("failed")
    ELSE transfer' = "attempt" /\ attempt' = attempt + 1 /\ UNCHANGED <<queue, outcome>>

\* An attempt has failed; there are MAX_RETRIES of them.
Retry ==
    IF attempt + 1 = MAX_RETRIES
    THEN End("failed")
    ELSE transfer' = "attempt" /\ attempt' = attempt + 1 /\ UNCHANGED <<queue, outcome>>

\* The flag is looked at, then the request is made.  It may fail, or the
\* server answer with an error; else the .part file begins anew.
Attempt ==
    /\ transfer = "attempt"
    /\ \/ cancel /\ End("cancelled") /\ UNCHANGED <<known, part>>
       \/ ~cancel /\ Retry /\ UNCHANGED <<known, part>>
       \/ /\ ~cancel
          /\ transfer' = "stream" /\ known' \in BOOLEAN /\ part' = "some"
          /\ UNCHANGED <<queue, attempt, outcome>>
    /\ UNCHANGED cancel

\* The next data: more of the file, or the rest of it.
Receive ==
    /\ part # "all"
    /\ part' \in {"some", "more", "all"} \ {part}
    /\ UNCHANGED <<transfer, queue, attempt, outcome>>

\* Mutant: the flag is looked at before an attempt only.
ChunkUninterrupted ==
    /\ transfer = "stream"
    /\ Receive \/ (Retry /\ part' = "nothing")
    /\ UNCHANGED <<known, cancel>>

\* Data, or an error in its place, be it that nothing came for too long; the
\* flag is looked at first.
Chunk ==
    /\ transfer = "stream"
    /\ \/ cancel /\ End("cancelled") /\ part' = "nothing"
       \/ ~cancel /\ Receive
       \/ ~cancel /\ Retry /\ part' = "nothing"
    /\ UNCHANGED <<known, cancel>>

\* Mutant: the end of the data is the end of the file.
EndOfStreamUnmeasured ==
    /\ transfer = "stream"
    /\ transfer' = "place"
    /\ UNCHANGED <<part, known, cancel, queue, attempt, outcome>>

\* The server sends no more.  Only a length it named shows that some is missing.
EndOfStream ==
    /\ transfer = "stream"
    /\ IF known /\ part # "all"
       THEN Retry /\ part' = "nothing"
       ELSE /\ transfer' = "place"
            /\ UNCHANGED <<part, queue, attempt, outcome>>
    /\ UNCHANGED <<known, cancel>>

\* The .part file takes the real name, and the next file is due; or a file
\* operation fails, and it stays.
Placed ==
    /\ transfer = "place" /\ part' = "nothing" /\ queue' = Tail(queue)
    /\ IF Len(queue) = 1
       THEN transfer' = "ended" /\ outcome' = "done" /\ UNCHANGED attempt
       ELSE transfer' = "attempt" /\ attempt' = 0 /\ UNCHANGED outcome
    /\ UNCHANGED <<known, cancel>>

NotPlaced ==
    /\ transfer = "place" /\ End("failed") /\ UNCHANGED <<known, part, cancel>>

\* The caller has the outcome.
CollectDownload ==
    /\ transfer = "ended" /\ transfer' = "off" /\ queue' = <<>> /\ outcome' = "none"
    /\ cancel' = FALSE /\ attempt' = 0 /\ known' = FALSE /\ part' = "nothing"

Transferring == Attempt \/ Chunk \/ EndOfStream \/ NotPlaced

\* "Each file is written as <name>.part and only renamed into place once it is
\* complete": what is about to take the real name is the whole file, or all
\* that a server sent which named no length.
RenamesWhole == transfer = "place" /\ known => part = "all"
=============================================================================
