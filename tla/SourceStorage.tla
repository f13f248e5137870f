---------------------------- MODULE SourceStorage ----------------------------
(***************************************************************************)
(* The source files of one user's statements: the object store, the        *)
(* statement rows, the uploaded_documents registry that names each file's  *)
(* object, and the activities that change them without a common            *)
(* transaction: upload and delete requests (routers/statements.py), the    *)
(* parse that pins a statement, the removal of the account                 *)
(* (identity/), and the sweep of orphaned objects                          *)
(* (runtime/extension/storage_sweep.py).                                   *)
(*                                                                         *)
(* An upload has its own statement id, hence its own object key: uploads,  *)
(* statements and objects are all named by elements of Uploads.            *)
(***************************************************************************)
EXTENDS Naturals, FiniteSets

CONSTANTS
    Uploads,        \* upload requests
    Files,          \* file contents (file_hash)
    Content,        \* the file each upload carries
    NoUpload,       \* not an upload
    MaxFaults,      \* bound: storage or database answers that are lost
    MaxCrashes      \* bound: crashes of the API process

ASSUME StorageAssumption ==
    /\ Content \in [Uploads -> Files]
    /\ NoUpload \notin Uploads
    /\ MaxFaults \in Nat
    /\ MaxCrashes \in Nat

VARIABLES
    object,     \* the object under each upload's key; "old": past the grace period
    req,        \* where each upload request stands, or how it ended
    row,        \* statements on record
    parsed,     \* statements with a persisted extraction result
    document,   \* the upload whose key each file's registry entry holds
    del,        \* where the last delete request on each statement stands
    sweep,      \* the pass of the sweep
    user,       \* the account exists
    faults, crashes

vars == <<object, req, row, parsed, document, del, sweep, user, faults, crashes>>

InFlight == {"checked", "stored", "cleanup", "unsure"}
Ended == {"accepted", "refused", "doubtful"}
NoPass == [phase |-> "idle", keys |-> {}]

TypeOK ==
    /\ object \in [Uploads -> {"absent", "fresh", "old"}]
    /\ req \in [Uploads -> {"new"} \cup InFlight \cup Ended]
    /\ row \subseteq Uploads
    /\ parsed \subseteq row
    /\ document \in [Files -> Uploads \cup {NoUpload}]
    /\ del \in [Uploads -> {"none", "object", "over"}]
    /\ sweep \in [phase : {"idle", "listed", "delete"}, keys : SUBSET Uploads]
    /\ user \in BOOLEAN
    /\ faults \in 0..MaxFaults
    /\ crashes \in 0..MaxCrashes

Init ==
    /\ object = [u \in Uploads |-> "absent"]
    /\ req = [u \in Uploads |-> "new"]
    /\ row = {}
    /\ parsed = {}
    /\ document = [f \in Files |-> NoUpload]
    /\ del = [u \in Uploads |-> "none"]
    /\ sweep = NoPass
    /\ user = TRUE
    /\ faults = 0
    /\ crashes = 0

\* A statement of the same file is on record (UNIQUE user_id, file_hash).
Duplicate(u) == \E v \in row : Content[v] = Content[u]

\* Some registry entry names the object of u (get_known_storage_paths).
Known(u) == \E f \in Files : document[f] = u

\* The object a statement's file operations read (_resolve_uploaded_document).
Source(u) == document[Content[u]]

Fault == faults < MaxFaults /\ faults' = faults + 1

-----------------------------------------------------------------------------
(* POST /upload *)

\* The duplicate check, unlocked and long before the insert.
UploadCheck(u) ==
    /\ req[u] = "new"
    /\ user
    /\ req' = [req EXCEPT ![u] = IF Duplicate(u) THEN "refused" ELSE "checked"]
    /\ UNCHANGED <<object, row, parsed, document, del, sweep, user, faults, crashes>>

UploadPut(u) ==
    /\ req[u] = "checked"
    /\ object' = [object EXCEPT ![u] = "fresh"]
    /\ req' = [req EXCEPT ![u] = "stored"]
    /\ UNCHANGED <<row, parsed, document, del, sweep, user, faults, crashes>>

\* put_object raises: 503 and no clean-up, whether or not the object was stored.
UploadPutFails(u) ==
    /\ req[u] = "checked"
    /\ Fault
    /\ \E o \in {"absent", "fresh"} : object' = [object EXCEPT ![u] = o]
    /\ req' = [req EXCEPT ![u] = "refused"]
    /\ UNCHANGED <<row, parsed, document, del, sweep, user, crashes>>

\* register_statement_source: an entry of the same file is reused as it is.
Registered(u) ==
    IF Source(u) = NoUpload THEN [document EXCEPT ![Content[u]] = u] ELSE document

\* The transaction that inserts the statement and registers its source.
UploadCommit(u) ==
    /\ req[u] = "stored"
    /\ user
    /\ ~Duplicate(u)
    /\ row' = row \cup {u}
    /\ document' = Registered(u)
    /\ \/ req' = [req EXCEPT ![u] = "accepted"] /\ UNCHANGED faults
       \/ req' = [req EXCEPT ![u] = "unsure"] /\ Fault      \* commit or refresh raises
    /\ UNCHANGED <<object, parsed, del, sweep, user, crashes>>

\* The constraints, or an error of the database, refuse the insert.
UploadAbort(u) ==
    /\ req[u] = "stored"
    /\ \/ (Duplicate(u) \/ ~user) /\ UNCHANGED faults
       \/ Fault
    /\ req' = [req EXCEPT ![u] = "cleanup"]
    /\ UNCHANGED <<object, row, parsed, document, del, sweep, user, crashes>>

\* The object that a failed request removes: its own key.
ByRegistry_Mutant(u) == IF Source(u) = NoUpload THEN u ELSE Source(u)
CleanupKey(u) == u

UploadCleanup(u) ==
    /\ req[u] \in {"cleanup", "unsure"}
    /\ \/ object' = [object EXCEPT ![CleanupKey(u)] = "absent"] /\ UNCHANGED faults
       \/ UNCHANGED object /\ Fault
    /\ req' = [req EXCEPT ![u] = IF @ = "unsure" THEN "doubtful" ELSE "refused"]
    /\ UNCHANGED <<row, parsed, document, del, sweep, user, crashes>>

\* A parse persists its extraction result, which is append-only and RESTRICTs
\* the deletion of its statement.
Parse(u) ==
    /\ u \in row
    /\ parsed' = parsed \cup {u}
    /\ UNCHANGED <<object, req, row, document, del, sweep, user, faults, crashes>>

-----------------------------------------------------------------------------
(* DELETE /{statement_id}: the object, then the row *)

DeleteObject(u) ==
    /\ u \in row
    /\ del[u] # "object"
    /\ \/ object' = [object EXCEPT ![Source(u)] = "absent"] /\ UNCHANGED faults
       \/ UNCHANGED object /\ Fault
    /\ del' = [del EXCEPT ![u] = "object"]
    /\ UNCHANGED <<req, row, parsed, document, sweep, user, crashes>>

NoRestrict_Mutant(u) == TRUE
Deletable(u) == u \notin parsed

\* The row goes, its registry entry does not; or the database refuses.
DeleteRow(u) ==
    /\ del[u] = "object"
    /\ row' = IF Deletable(u) THEN row \ {u} ELSE row
    /\ del' = [del EXCEPT ![u] = "over"]
    /\ UNCHANGED <<object, req, parsed, document, sweep, user, faults, crashes>>

\* Account deletion or purge: every row the user owns, and no object.  The
\* append-only extraction results block it.
RemoveUser ==
    /\ user
    /\ parsed = {}
    /\ user' = FALSE
    /\ row' = {}
    /\ document' = [f \in Files |-> NoUpload]
    /\ UNCHANGED <<object, req, parsed, del, sweep, faults, crashes>>

-----------------------------------------------------------------------------
(* The sweep *)

\* The clock.  An upload request is over long before the grace period is, so
\* the object of a request in flight is never old.
Age(u) ==
    /\ object[u] = "fresh"
    /\ req[u] \notin InFlight
    /\ object' = [object EXCEPT ![u] = "old"]
    /\ UNCHANGED <<req, row, parsed, document, del, sweep, user, faults, crashes>>

NoGrace_Mutant == {u \in Uploads : object[u] # "absent"}
Candidates == {u \in Uploads : object[u] = "old"}

SweepList ==
    /\ sweep.phase = "idle"
    /\ Candidates # {}
    /\ sweep' = [phase |-> "listed", keys |-> Candidates]
    /\ UNCHANGED <<object, req, row, parsed, document, del, user, faults, crashes>>

\* Of the listed keys, those no registry entry names.
ByFile_Mutant(keys) == {u \in keys : Source(u) = NoUpload}
Orphans(keys) == {u \in keys : ~Known(u)}

SweepKnown ==
    /\ sweep.phase = "listed"
    /\ sweep' = IF Orphans(sweep.keys) = {} THEN NoPass
                ELSE [phase |-> "delete", keys |-> Orphans(sweep.keys)]
    /\ UNCHANGED <<object, req, row, parsed, document, del, user, faults, crashes>>

\* One key after the other; a storage error skips the key.
SweepDelete ==
    /\ sweep.phase = "delete"
    /\ \E u \in sweep.keys :
        /\ \/ object' = [object EXCEPT ![u] = "absent"] /\ UNCHANGED faults
           \/ UNCHANGED object /\ Fault
        /\ sweep' = IF sweep.keys = {u} THEN NoPass ELSE [sweep EXCEPT !.keys = @ \ {u}]
    /\ UNCHANGED <<req, row, parsed, document, del, user, crashes>>

\* The API process dies, with its requests and its sweep.
Crash ==
    /\ crashes < MaxCrashes
    /\ crashes' = crashes + 1
    /\ req' = [u \in Uploads |-> CASE req[u] = "unsure" -> "doubtful"
                                   [] req[u] \in InFlight \ {"unsure"} -> "refused"
                                   [] OTHER -> req[u]]
    /\ del' = [u \in Uploads |-> IF del[u] = "object" THEN "over" ELSE del[u]]
    /\ sweep' = NoPass
    /\ UNCHANGED <<object, row, parsed, document, user, faults>>

SweepStep == SweepList \/ SweepKnown \/ SweepDelete

Next ==
    \/ \E u \in Uploads :
        \/ UploadCheck(u) \/ UploadPut(u) \/ UploadPutFails(u) \/ UploadCommit(u)
        \/ UploadAbort(u) \/ UploadCleanup(u)
        \/ Parse(u) \/ DeleteObject(u) \/ DeleteRow(u) \/ Age(u)
    \/ RemoveUser \/ SweepStep \/ Crash

Spec == Init /\ [][Next]_vars

\* Time passes and run_storage_sweep survives every exception.
FairSpec == Spec /\ WF_vars(SweepStep) /\ \A u \in Uploads : WF_vars(Age(u))

-----------------------------------------------------------------------------
(* Properties *)

\* Nothing the sweep is about to delete is the source of a statement, although
\* it listed the objects and read the registry in two steps and deletes later:
\* an upload that commits in between is younger than the grace period.
CondemnedIsUnknown ==
    sweep.phase = "delete" => \A u \in sweep.keys : ~Known(u)

\* A statement that was accepted under its own registry entry, and that nobody
\* asked to delete, has its object: neither the sweep, nor the clean-up of a
\* concurrent upload of the same file, nor the removal of another statement
\* takes it.
OwnSourceKept ==
    \A u \in row :
        req[u] = "accepted" /\ del[u] = "none" /\ Source(u) = u => object[u] # "absent"

\* An object that no registry entry names, left by a crash, a lost answer, a
\* failed clean-up or the removal of the account, is deleted in the end.
OrphansSwept ==
    \A u \in Uploads :
        (object[u] # "absent" /\ req[u] \in Ended /\ ~Known(u)) ~> object[u] = "absent"
=============================================================================
