-------------------------- MODULE SourceStorageProofs --------------------------
(***************************************************************************)
(* Proofs about SourceStorage for any number of uploads and files, and any *)
(* number of lost answers and crashes.                                     *)
(***************************************************************************)
EXTENDS SourceStorage, TLAPS

\* An upload that has not stored anything has no object, and one that is about
\* to commit has one.
ObjectFollowsRequest ==
    \A u \in Uploads :
        /\ req[u] \in {"new", "checked"} => object[u] = "absent"
        /\ req[u] = "stored" => object[u] # "absent"

\* Only a request that is over has an object past the grace period.
OldIsOver == \A u \in Uploads : object[u] = "old" => req[u] \in Ended

\* So the sweep lists objects of such requests only.
ListedIsOver == \A u \in sweep.keys : req[u] \in Ended

\* One statement on record per file.
OneRowPerFile == \A u, v \in row : Content[u] = Content[v] => u = v

\* A registry entry is that of its file, made by a request that committed.
RegistryIsSound ==
    \A f \in Files :
        document[f] # NoUpload =>
            /\ Content[document[f]] = f
            /\ req[document[f]] \in {"accepted", "unsure", "doubtful"}

IInv ==
    /\ TypeOK
    /\ ObjectFollowsRequest
    /\ OldIsOver
    /\ ListedIsOver
    /\ OneRowPerFile
    /\ RegistryIsSound
    /\ CondemnedIsUnknown
    /\ OwnSourceKept
-----------------------------------------------------------------------------
USE StorageAssumption

LEMMA InitInv == Init => IInv
  BY DEF Init, IInv, TypeOK, ObjectFollowsRequest, OldIsOver, ListedIsOver, OneRowPerFile,
         RegistryIsSound, CondemnedIsUnknown, OwnSourceKept, NoPass, InFlight, Ended

\* A step of one upload that neither commits nor changes anything but its
\* request, its own object and the faults.
LEMMA RequestStep ==
    ASSUME IInv, NEW u \in Uploads,
           req' \in [Uploads -> {"new"} \cup InFlight \cup Ended],
           object' \in [Uploads -> {"absent", "fresh", "old"}],
           \A v \in Uploads : v # u => object'[v] = object[v] /\ req'[v] = req[v],
           object'[u] = object[u] \/ object'[u] \in {"absent", "fresh"},
           req[u] \in {"new"} \cup InFlight,
           req[u] = "unsure" <=> req'[u] = "doubtful",
           req'[u] \notin {"new", "accepted", "unsure"},
           req'[u] = "checked" => object'[u] = object[u] /\ req[u] = "new",
           req'[u] = "stored" => object'[u] = "fresh",
           UNCHANGED <<row, parsed, document, del, sweep, user, crashes>>,
           faults' \in 0..MaxFaults
    PROVE  IInv'
<1>1. object \in [Uploads -> {"absent", "fresh", "old"}]
      /\ req \in [Uploads -> {"new"} \cup InFlight \cup Ended]
    BY DEF IInv, TypeOK
<1>2. \A v \in Uploads : v # u => object'[v] = object[v] /\ req'[v] = req[v]
    OBVIOUS
<1>3. object'[u] = object[u] \/ object'[u] \in {"absent", "fresh"}
    OBVIOUS
<1>4. TypeOK'
    BY DEF IInv, TypeOK
<1>5. ObjectFollowsRequest'
    BY <1>1, <1>2, <1>3 DEF IInv, ObjectFollowsRequest, InFlight, Ended
<1>6. OldIsOver'
    BY <1>1, <1>2, <1>3 DEF IInv, OldIsOver, InFlight, Ended
<1>7. u \notin sweep.keys
    BY DEF IInv, ListedIsOver, InFlight, Ended
<1>8. ListedIsOver'
    BY <1>2, <1>7 DEF IInv, TypeOK, ListedIsOver
<1>9. OneRowPerFile' /\ CondemnedIsUnknown'
    BY DEF IInv, OneRowPerFile, CondemnedIsUnknown, Known
<1>10. RegistryIsSound'
    BY <1>2, <1>3 DEF IInv, TypeOK, RegistryIsSound, InFlight, Ended
<1>11. OwnSourceKept'
    BY <1>2, <1>3 DEF IInv, TypeOK, OwnSourceKept, Source, InFlight, Ended
<1> QED BY <1>4, <1>5, <1>6, <1>8, <1>9, <1>10, <1>11 DEF IInv

\* A check, a put, an aborted insert or a clean-up.
LEMMA UploadStep ==
    ASSUME IInv, NEW u \in Uploads,
           UploadCheck(u) \/ UploadPut(u) \/ UploadPutFails(u) \/ UploadAbort(u)
               \/ UploadCleanup(u)
    PROVE  IInv'
<1> USE DEF InFlight, Ended
<1>1. faults' \in 0..MaxFaults
  <2>1. faults' = faults \/ (faults < MaxFaults /\ faults' = faults + 1)
      BY DEF UploadCheck, UploadPut, UploadPutFails, UploadAbort, UploadCleanup, Fault
  <2> QED BY <2>1 DEF IInv, TypeOK
<1>0. object \in [Uploads -> {"absent", "fresh", "old"}]
      /\ req \in [Uploads -> {"new"} \cup InFlight \cup Ended]
    BY DEF IInv, TypeOK
<1>2. CASE UploadCheck(u)
  <2>1. PICK q \in {"refused", "checked"} : req' = [req EXCEPT ![u] = q]
      BY <1>2 DEF UploadCheck
  <2>2. object' = object /\ req[u] = "new"
        /\ UNCHANGED <<row, parsed, document, del, sweep, user, crashes>>
      BY <1>2 DEF UploadCheck
  <2> QED BY <1>0, <1>1, <2>1, <2>2, RequestStep
<1>3. CASE UploadPut(u)
    BY <1>0, <1>1, <1>3, RequestStep DEF UploadPut
<1>4. CASE UploadPutFails(u)
  <2>1. PICK o \in {"absent", "fresh"} : object' = [object EXCEPT ![u] = o]
      BY <1>4 DEF UploadPutFails
  <2>2. req' = [req EXCEPT ![u] = "refused"] /\ req[u] = "checked"
        /\ UNCHANGED <<row, parsed, document, del, sweep, user, crashes>>
      BY <1>4 DEF UploadPutFails
  <2> QED BY <1>0, <1>1, <2>1, <2>2, RequestStep
<1>5. CASE UploadAbort(u)
    BY <1>0, <1>1, <1>5, RequestStep DEF UploadAbort
<1>6. CASE UploadCleanup(u)
  <2>1. PICK q \in {"doubtful", "refused"} :
           req' = [req EXCEPT ![u] = q] /\ (q = "doubtful" <=> req[u] = "unsure")
      BY <1>6 DEF UploadCleanup
  <2>2. /\ object' = [object EXCEPT ![u] = "absent"] \/ object' = object
        /\ req[u] \in {"cleanup", "unsure"}
        /\ UNCHANGED <<row, parsed, document, del, sweep, user, crashes>>
      BY <1>6 DEF UploadCleanup, CleanupKey
  <2>3. req' \in [Uploads -> {"new"} \cup InFlight \cup Ended] /\ req'[u] = q
        /\ \A v \in Uploads : v # u => req'[v] = req[v]
      BY <1>0, <2>1
  <2>4. object' \in [Uploads -> {"absent", "fresh", "old"}]
        /\ (object'[u] = object[u] \/ object'[u] \in {"absent", "fresh"})
        /\ \A v \in Uploads : v # u => object'[v] = object[v]
      BY <1>0, <2>2
  <2> QED BY <1>1, <2>1, <2>2, <2>3, <2>4, RequestStep
<1> QED BY <1>2, <1>3, <1>4, <1>5, <1>6

\* The commit: its object is there, its file has no other row, and the sweep
\* has not listed its key.
LEMMA CommitStep ==
    ASSUME IInv, NEW u \in Uploads, UploadCommit(u)
    PROVE  IInv'
<1> USE DEF InFlight, Ended
<1>1. /\ req[u] = "stored" /\ ~Duplicate(u)
      /\ row' = row \cup {u} /\ document' = Registered(u)
      /\ UNCHANGED <<object, parsed, del, sweep, user, crashes>>
    BY DEF UploadCommit
<1>2. PICK q \in {"accepted", "unsure"} : req' = [req EXCEPT ![u] = q]
    BY DEF UploadCommit
<1>3. faults' \in 0..MaxFaults
  <2>1. faults' = faults \/ (faults < MaxFaults /\ faults' = faults + 1)
      BY DEF UploadCommit, Fault
  <2> QED BY <2>1 DEF IInv, TypeOK
<1>4. req \in [Uploads -> {"new"} \cup InFlight \cup Ended]
      /\ document \in [Files -> Uploads \cup {NoUpload}]
      /\ Content[u] \in Files /\ object \in [Uploads -> {"absent", "fresh", "old"}]
    BY DEF IInv, TypeOK
<1>5. \A f \in Files :
         document'[f] = IF f = Content[u] /\ document[f] = NoUpload THEN u ELSE document[f]
    BY <1>1, <1>4 DEF Registered, Source
<1>6. document' \in [Files -> Uploads \cup {NoUpload}]
    BY <1>1, <1>4 DEF Registered, Source
<1>7. \A v \in Uploads : req'[v] = IF v = u THEN q ELSE req[v]
    BY <1>2, <1>4
<1>8. TypeOK'
  <2>1. req' \in [Uploads -> {"new"} \cup InFlight \cup Ended]
      BY <1>2, <1>4
  <2> QED BY <1>1, <1>3, <1>6, <2>1 DEF IInv, TypeOK
<1>9. object[u] \in {"fresh", "old"} /\ object[u] # "old"
    BY <1>1, <1>4 DEF IInv, ObjectFollowsRequest, OldIsOver
<1>10. ObjectFollowsRequest' /\ OldIsOver'
    BY <1>1, <1>7, <1>9 DEF IInv, ObjectFollowsRequest, OldIsOver
<1>11. u \notin sweep.keys
    BY <1>1 DEF IInv, ListedIsOver
<1>12. ListedIsOver'
    BY <1>1, <1>7, <1>11 DEF IInv, TypeOK, ListedIsOver
<1>13. OneRowPerFile'
    BY <1>1 DEF IInv, OneRowPerFile, Duplicate
<1>14. RegistryIsSound'
  <2> SUFFICES ASSUME NEW f \in Files, document'[f] # NoUpload
               PROVE  /\ Content[document'[f]] = f
                      /\ req'[document'[f]] \in {"accepted", "unsure", "doubtful"}
      BY DEF RegistryIsSound
  <2>1. CASE document'[f] = document[f]
      BY <1>4, <1>7, <2>1 DEF IInv, RegistryIsSound
  <2>2. CASE document'[f] = u /\ f = Content[u]
      BY <1>7, <2>2
  <2> QED BY <1>5, <2>1, <2>2
<1>15. CondemnedIsUnknown'
    BY <1>1, <1>5, <1>11 DEF IInv, CondemnedIsUnknown, Known
<1>16. OwnSourceKept'
  <2> SUFFICES ASSUME NEW v \in row', req'[v] = "accepted", del[v] = "none",
                      document'[Content[v]] = v
               PROVE  object[v] # "absent"
      BY <1>1 DEF OwnSourceKept, Source
  <2>1. CASE v = u
      BY <1>9, <2>1
  <2>2. CASE v # u
    <3>1. v \in row /\ v \in Uploads /\ Content[v] \in Files
        BY <1>1, <2>2 DEF IInv, TypeOK
    <3>2. req[v] = "accepted" /\ document[Content[v]] = v
        BY <1>5, <1>7, <2>2, <3>1
    <3> QED BY <3>1, <3>2 DEF IInv, OwnSourceKept, Source
  <2> QED BY <2>1, <2>2
<1> QED BY <1>8, <1>10, <1>12, <1>13, <1>14, <1>15, <1>16 DEF IInv

LEMMA ParseStep ==
    ASSUME IInv, NEW u \in Uploads, Parse(u)
    PROVE  IInv'
<1>1. TypeOK'
    BY DEF Parse, IInv, TypeOK
<1> QED BY <1>1 DEF Parse, IInv, ObjectFollowsRequest, OldIsOver, ListedIsOver, OneRowPerFile,
              RegistryIsSound, CondemnedIsUnknown, Known, OwnSourceKept, Source

\* A step that takes objects away, moves deletes and the sweep on, and leaves
\* requests, rows and the registry alone.
LEMMA TakeStep ==
    ASSUME IInv,
           UNCHANGED <<req, row, parsed, document, user, crashes>>,
           faults' \in 0..MaxFaults,
           object' \in [Uploads -> {"absent", "fresh", "old"}],
           \A u \in Uploads :
               /\ object'[u] \in {object[u], "absent"}
               /\ object'[u] # object[u] => req[u] \in {"accepted", "unsure", "doubtful", "refused"},
           sweep' \in [phase : {"idle", "listed", "delete"}, keys : SUBSET Uploads],
           ListedIsOver', CondemnedIsUnknown', OwnSourceKept',
           del' \in [Uploads -> {"none", "object", "over"}]
    PROVE  IInv'
<1>1. TypeOK'
    BY DEF IInv, TypeOK
<1>2. ObjectFollowsRequest'
    BY DEF IInv, ObjectFollowsRequest
<1>3. OldIsOver' /\ OneRowPerFile' /\ RegistryIsSound'
    BY DEF IInv, OldIsOver, OneRowPerFile, RegistryIsSound
<1> QED BY <1>1, <1>2, <1>3 DEF IInv

\* The object that a delete removes is that of its own statement, or of none.
LEMMA DeleteObjectStep ==
    ASSUME IInv, NEW u \in Uploads, DeleteObject(u)
    PROVE  IInv'
<1>1. /\ u \in row /\ del' = [del EXCEPT ![u] = "object"]
      /\ UNCHANGED <<req, row, parsed, document, sweep, user, crashes>>
      /\ object' = [object EXCEPT ![Source(u)] = "absent"] \/ object' = object
    BY DEF DeleteObject
<1>2. faults' \in 0..MaxFaults
  <2>1. faults' = faults \/ (faults < MaxFaults /\ faults' = faults + 1)
      BY DEF DeleteObject, Fault
  <2> QED BY <2>1 DEF IInv, TypeOK
<1>3. /\ object \in [Uploads -> {"absent", "fresh", "old"}]
      /\ del \in [Uploads -> {"none", "object", "over"}]
      /\ Content[u] \in Files /\ Source(u) \in Uploads \cup {NoUpload}
    BY DEF IInv, TypeOK, Source
<1>4. \A v \in Uploads : object'[v] = object[v] \/ (v = Source(u) /\ object'[v] = "absent")
    BY <1>1, <1>3
<1>5. object' \in [Uploads -> {"absent", "fresh", "old"}]
    BY <1>1, <1>3
<1>6. del' \in [Uploads -> {"none", "object", "over"}]
    BY <1>1, <1>3
<1>7. \A v \in Uploads : object'[v] # object[v] => req[v] \in {"accepted", "unsure", "doubtful"}
    BY <1>3, <1>4 DEF IInv, RegistryIsSound, Source
<1>8. ListedIsOver' /\ CondemnedIsUnknown'
    BY <1>1 DEF IInv, ListedIsOver, CondemnedIsUnknown, Known
<1>9. OwnSourceKept'
  <2> SUFFICES ASSUME NEW v \in row, req[v] = "accepted", del'[v] = "none", Source(v) = v
               PROVE  object'[v] # "absent"
      BY <1>1 DEF OwnSourceKept, Source
  <2>1. v # u /\ v \in Uploads /\ del[v] = "none"
      BY <1>1, <1>3 DEF IInv, TypeOK
  <2>2. object[v] # "absent"
      BY <2>1 DEF IInv, OwnSourceKept
  <2>3. v # Source(u)
    <3>1. SUFFICES ASSUME v = Source(u) PROVE FALSE
        OBVIOUS
    <3>2. Content[v] = Content[u]
        BY <1>3, <2>1, <3>1 DEF IInv, RegistryIsSound, Source
    <3> QED BY <1>1, <2>1, <3>2 DEF IInv, OneRowPerFile
  <2> QED BY <1>4, <2>1, <2>2, <2>3
<1> QED BY <1>1, <1>2, <1>4, <1>5, <1>6, <1>7, <1>8, <1>9, TakeStep DEF IInv, TypeOK

LEMMA DeleteRowStep ==
    ASSUME IInv, NEW u \in Uploads, DeleteRow(u)
    PROVE  IInv'
<1>1. /\ row' \subseteq row /\ parsed \subseteq row'
      /\ del' = [del EXCEPT ![u] = "over"]
      /\ UNCHANGED <<object, req, parsed, document, sweep, user, faults, crashes>>
    BY DEF DeleteRow, Deletable, IInv, TypeOK
<1>2. TypeOK'
    BY <1>1 DEF IInv, TypeOK
<1>3. OwnSourceKept'
    BY <1>1 DEF IInv, TypeOK, OwnSourceKept, Source
<1>4. /\ ObjectFollowsRequest' /\ OldIsOver' /\ ListedIsOver' /\ OneRowPerFile'
      /\ RegistryIsSound' /\ CondemnedIsUnknown'
    BY <1>1 DEF IInv, ObjectFollowsRequest, OldIsOver, ListedIsOver, OneRowPerFile,
                RegistryIsSound, CondemnedIsUnknown, Known
<1> QED BY <1>2, <1>3, <1>4 DEF IInv

LEMMA RemoveUserStep ==
    ASSUME IInv, RemoveUser
    PROVE  IInv'
<1>1. /\ row' = {} /\ parsed = {} /\ document' = [f \in Files |-> NoUpload] /\ user' = FALSE
      /\ UNCHANGED <<object, req, parsed, del, sweep, faults, crashes>>
    BY DEF RemoveUser
<1>2. TypeOK'
    BY <1>1 DEF IInv, TypeOK
<1>3. \A f \in Files : document'[f] = NoUpload
    BY <1>1
<1>4. RegistryIsSound'
    BY <1>3 DEF RegistryIsSound
<1>5. CondemnedIsUnknown'
    BY <1>1, <1>3 DEF IInv, TypeOK, CondemnedIsUnknown, Known
<1>6. ObjectFollowsRequest' /\ OldIsOver' /\ ListedIsOver'
    BY <1>1 DEF IInv, ObjectFollowsRequest, OldIsOver, ListedIsOver
<1>7. OneRowPerFile' /\ OwnSourceKept'
    BY <1>1 DEF OneRowPerFile, OwnSourceKept
<1> QED BY <1>2, <1>4, <1>5, <1>6, <1>7 DEF IInv
-----------------------------------------------------------------------------
(* The clock, the sweep, a crash. *)

LEMMA AgeStep ==
    ASSUME IInv, NEW u \in Uploads, Age(u)
    PROVE  IInv'
<1>1. /\ object[u] = "fresh" /\ req[u] \notin InFlight
      /\ object' = [object EXCEPT ![u] = "old"]
      /\ UNCHANGED <<req, row, parsed, document, del, sweep, user, faults, crashes>>
    BY DEF Age
<1>2. object \in [Uploads -> {"absent", "fresh", "old"}]
      /\ req \in [Uploads -> {"new"} \cup InFlight \cup Ended]
    BY DEF IInv, TypeOK
<1>3. object' \in [Uploads -> {"absent", "fresh", "old"}]
      /\ \A v \in Uploads : object'[v] = IF v = u THEN "old" ELSE object[v]
    BY <1>1, <1>2
<1>4. req[u] \in Ended
    BY <1>1, <1>2 DEF IInv, ObjectFollowsRequest
<1>5. TypeOK'
    BY <1>1, <1>3 DEF IInv, TypeOK
<1>6. ObjectFollowsRequest' /\ OldIsOver'
    BY <1>1, <1>3, <1>4 DEF IInv, ObjectFollowsRequest, OldIsOver, Ended
<1>7. ListedIsOver' /\ OneRowPerFile' /\ RegistryIsSound' /\ CondemnedIsUnknown'
    BY <1>1 DEF IInv, ListedIsOver, OneRowPerFile, RegistryIsSound, CondemnedIsUnknown, Known
<1>8. OwnSourceKept'
    BY <1>1, <1>3 DEF IInv, TypeOK, OwnSourceKept, Source
<1> QED BY <1>5, <1>6, <1>7, <1>8 DEF IInv

\* The pass takes only keys whose objects no registry entry names.
LEMMA SweepPass ==
    ASSUME IInv, SweepStep
    PROVE  IInv'
<1>1. /\ object \in [Uploads -> {"absent", "fresh", "old"}]
      /\ sweep \in [phase : {"idle", "listed", "delete"}, keys : SUBSET Uploads]
      /\ del \in [Uploads -> {"none", "object", "over"}] /\ faults \in 0..MaxFaults
    BY DEF IInv, TypeOK
<1>2. NoPass \in [phase : {"idle", "listed", "delete"}, keys : SUBSET Uploads]
      /\ NoPass.keys = {} /\ NoPass.phase = "idle"
    BY DEF NoPass
<1>3. CASE SweepList
  <2>1. /\ sweep' = [phase |-> "listed", keys |-> Candidates]
        /\ UNCHANGED <<object, req, row, parsed, document, del, user, faults, crashes>>
      BY <1>3 DEF SweepList
  <2>2. ListedIsOver' /\ CondemnedIsUnknown'
      BY <2>1 DEF Candidates, IInv, OldIsOver, ListedIsOver, CondemnedIsUnknown
  <2>3. sweep' \in [phase : {"idle", "listed", "delete"}, keys : SUBSET Uploads]
      BY <2>1 DEF Candidates
  <2>4. OwnSourceKept'
      BY <2>1 DEF IInv, OwnSourceKept, Source
  <2> QED BY <1>1, <2>1, <2>2, <2>3, <2>4, TakeStep
<1>4. CASE SweepKnown
  <2>1. /\ sweep' = NoPass \/ sweep' = [phase |-> "delete", keys |-> Orphans(sweep.keys)]
        /\ UNCHANGED <<object, req, row, parsed, document, del, user, faults, crashes>>
      BY <1>4 DEF SweepKnown
  <2>2. ListedIsOver' /\ CondemnedIsUnknown'
      BY <1>2, <2>1 DEF Orphans, Known, IInv, ListedIsOver, CondemnedIsUnknown
  <2>3. sweep' \in [phase : {"idle", "listed", "delete"}, keys : SUBSET Uploads]
      BY <1>1, <1>2, <2>1 DEF Orphans
  <2>4. OwnSourceKept'
      BY <2>1 DEF IInv, OwnSourceKept, Source
  <2> QED BY <1>1, <2>1, <2>2, <2>3, <2>4, TakeStep
<1>5. CASE SweepDelete
  <2>1. PICK u \in sweep.keys :
           /\ object' = [object EXCEPT ![u] = "absent"] \/ object' = object
           /\ sweep' = IF sweep.keys = {u} THEN NoPass ELSE [sweep EXCEPT !.keys = @ \ {u}]
      BY <1>5 DEF SweepDelete
  <2>2. /\ sweep.phase = "delete"
        /\ UNCHANGED <<req, row, parsed, document, del, user, crashes>>
        /\ faults' = faults \/ (faults < MaxFaults /\ faults' = faults + 1)
      BY <1>5 DEF SweepDelete, Fault
  <2>3. faults' \in 0..MaxFaults
      BY <1>1, <2>2
  <2>4. u \in Uploads /\ req[u] \in Ended /\ ~Known(u)
      BY <1>1, <2>2 DEF IInv, ListedIsOver, CondemnedIsUnknown
  <2>5. object' \in [Uploads -> {"absent", "fresh", "old"}]
        /\ \A v \in Uploads : object'[v] = object[v] \/ (v = u /\ object'[v] = "absent")
      BY <1>1, <2>1
  <2>6. sweep'.keys \subseteq sweep.keys
        /\ sweep' \in [phase : {"idle", "listed", "delete"}, keys : SUBSET Uploads]
      BY <1>1, <1>2, <2>1
  <2>7. ListedIsOver' /\ CondemnedIsUnknown'
      BY <2>2, <2>6 DEF Known, IInv, ListedIsOver, CondemnedIsUnknown
  <2>8. OwnSourceKept'
    <3>1. \A v \in row : Source(v) = v => v # u
        BY <2>4 DEF Known, Source, IInv, TypeOK
    <3> QED BY <2>2, <2>5, <3>1 DEF IInv, TypeOK, OwnSourceKept, Source
  <2> QED BY <1>1, <2>2, <2>3, <2>4, <2>5, <2>6, <2>7, <2>8, TakeStep DEF Ended
<1> QED BY <1>3, <1>4, <1>5 DEF SweepStep

LEMMA CrashStep ==
    ASSUME IInv, Crash
    PROVE  IInv'
<1> USE DEF InFlight, Ended
<1>1. /\ UNCHANGED <<object, row, parsed, document, user, faults>>
      /\ sweep' = NoPass /\ crashes' \in 0..MaxCrashes
    BY DEF Crash, IInv, TypeOK
<1>2. req' = [u \in Uploads |-> CASE req[u] = "unsure" -> "doubtful"
                                  [] req[u] \in InFlight \ {"unsure"} -> "refused"
                                  [] OTHER -> req[u]]
      /\ del' = [u \in Uploads |-> IF del[u] = "object" THEN "over" ELSE del[u]]
    BY DEF Crash
<1>3. req \in [Uploads -> {"new"} \cup InFlight \cup Ended]
      /\ del \in [Uploads -> {"none", "object", "over"}]
    BY DEF IInv, TypeOK
<1>4. \A u \in Uploads :
         /\ req[u] = "unsure" => req'[u] = "doubtful"
         /\ req[u] \in {"checked", "stored", "cleanup"} => req'[u] = "refused"
         /\ req[u] \in {"new"} \cup Ended => req'[u] = req[u]
    BY <1>2
<1>5. /\ req' \in [Uploads -> {"new"} \cup InFlight \cup Ended]
      /\ del' \in [Uploads -> {"none", "object", "over"}]
  <2>1. DOMAIN req' = Uploads /\ req' = [u \in Uploads |-> req'[u]]
      BY <1>2
  <2>2. \A u \in Uploads : req'[u] \in {"new"} \cup InFlight \cup Ended
      BY <1>3, <1>4
  <2>3. req' \in [Uploads -> {"new"} \cup InFlight \cup Ended]
      BY <2>1, <2>2
  <2>4. del' \in [Uploads -> {"none", "object", "over"}]
      BY <1>2, <1>3
  <2> QED BY <2>3, <2>4
<1>6. TypeOK'
    BY <1>1, <1>5 DEF IInv, TypeOK, NoPass
<1>7. ObjectFollowsRequest' /\ OldIsOver'
    BY <1>1, <1>3, <1>4 DEF IInv, ObjectFollowsRequest, OldIsOver
<1>8. ListedIsOver' /\ CondemnedIsUnknown'
    BY <1>1 DEF NoPass, ListedIsOver, CondemnedIsUnknown
<1>9. OneRowPerFile'
    BY <1>1 DEF IInv, OneRowPerFile
<1>10. RegistryIsSound'
    BY <1>1, <1>3, <1>4 DEF IInv, TypeOK, RegistryIsSound
<1>11. OwnSourceKept'
    BY <1>1, <1>2, <1>3, <1>4 DEF IInv, TypeOK, OwnSourceKept, Source
<1> QED BY <1>6, <1>7, <1>8, <1>9, <1>10, <1>11 DEF IInv
-----------------------------------------------------------------------------
LEMMA NextInv == IInv /\ [Next]_vars => IInv'
<1> SUFFICES ASSUME IInv, [Next]_vars PROVE IInv'
    OBVIOUS
<1>1. ASSUME NEW u \in Uploads,
             UploadCheck(u) \/ UploadPut(u) \/ UploadPutFails(u) \/ UploadAbort(u)
                 \/ UploadCleanup(u)
      PROVE  IInv'
    BY <1>1, UploadStep
<1>2. ASSUME NEW u \in Uploads, UploadCommit(u) PROVE IInv'
    BY <1>2, CommitStep
<1>3. ASSUME NEW u \in Uploads, Parse(u) PROVE IInv'
    BY <1>3, ParseStep
<1>4. ASSUME NEW u \in Uploads, DeleteObject(u) PROVE IInv'
    BY <1>4, DeleteObjectStep
<1>5. ASSUME NEW u \in Uploads, DeleteRow(u) PROVE IInv'
    BY <1>5, DeleteRowStep
<1>6. ASSUME NEW u \in Uploads, Age(u) PROVE IInv'
    BY <1>6, AgeStep
<1>7. CASE RemoveUser
    BY <1>7, RemoveUserStep
<1>8. CASE SweepStep
    BY <1>8, SweepPass
<1>9. CASE Crash
    BY <1>9, CrashStep
<1>10. CASE UNCHANGED vars
    BY <1>10 DEF vars, IInv, TypeOK, ObjectFollowsRequest, OldIsOver, ListedIsOver,
                 OneRowPerFile, RegistryIsSound, CondemnedIsUnknown, Known, OwnSourceKept, Source
<1> QED BY <1>1, <1>2, <1>3, <1>4, <1>5, <1>6, <1>7, <1>8, <1>9, <1>10 DEF Next

\* The inductive invariant holds in every reachable state.
THEOREM Invariant == Spec => []IInv
<1>1. Init => IInv
    BY InitInv
<1>2. IInv /\ [Next]_vars => IInv'
    BY NextInv
<1> QED BY <1>1, <1>2, PTL DEF Spec

\* Type correctness, for any uploads, files, faults and crashes.
THEOREM TypeCorrect == Spec => []TypeOK
<1>1. IInv => TypeOK
    BY DEF IInv
<1> QED BY <1>1, Invariant, PTL

\* The sweep never condemns an object that the registry names, however its
\* three steps interleave with uploads, deletes and crashes
\* (runtime/extension/storage_sweep.py).
THEOREM SweepSparesKnown == Spec => []CondemnedIsUnknown
<1>1. IInv => CondemnedIsUnknown
    BY DEF IInv
<1> QED BY <1>1, Invariant, PTL

\* A statement under its own registry entry keeps its object until somebody
\* deletes it (routers/statements.py).
THEOREM SourceKept == Spec => []OwnSourceKept
<1>1. IInv => OwnSourceKept
    BY DEF IInv
<1> QED BY <1>1, Invariant, PTL
=============================================================================
