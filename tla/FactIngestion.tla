---------------------------- MODULE FactIngestion ----------------------------
(***************************************************************************)
(* Ingestions of documents that share facts, statement by statement.       *)
(* StatementLifecycle commits an ingestion in one step; here the           *)
(* transactions of different documents interleave between the SELECT of a  *)
(* row of atomic_transactions and the UPDATE, DELETE or INSERT that        *)
(* follows (extraction/extension/deduplication.py).  Isolation is READ     *)
(* COMMITTED; a write waits for the transaction that has changed the row   *)
(* and then applies to what that one left.                                 *)
(***************************************************************************)
EXTENDS Naturals

CONSTANTS
    Docs,       \* uploaded documents, each parsed by one job at a time
    Rows,       \* dedup hashes
    Source,     \* the rows that every parse of a document yields
    MaxId       \* bound: rows inserted under one dedup hash

VARIABLES
    row,        \* the committed row of each dedup hash: its id and source_documents
    lastId,     \* the last id given under each dedup hash
    ingested,   \* documents with a committed ingestion
    tx          \* the ingestion transaction of each document

vars == <<row, lastId, ingested, tx>>

NoRow == [id |-> 0, docs |-> {}]

Idle ==
    [open   |-> FALSE,
     detach |-> {},                         \* rows read, to be detached
     read   |-> {},                         \* the row read, to be upserted
     upsert |-> {},                         \* rows still to read and upsert
     copy   |-> [r \in Rows |-> NoRow],     \* what the session has read
     wrote  |-> {},                         \* rows changed: it holds their locks
     new    |-> [r \in Rows |-> NoRow]]     \* and what it made of them

Init ==
    /\ row = [r \in Rows |-> NoRow]
    /\ lastId = [r \in Rows |-> 0]
    /\ ingested = {}
    /\ tx = [d \in Docs |-> Idle]

\* Row r as d's transaction finds it.
Now(d, r) == IF r \in tx[d].wrote THEN tx[d].new[r] ELSE row[r]

Unlocked(d, r) == \A u \in Docs \ {d} : r \notin tx[u].wrote

\* t after it changed r to value.
Changed(t, r, value) == [t EXCEPT !.wrote = @ \cup {r}, !.new[r] = value]

-----------------------------------------------------------------------------
\* The SELECT of the rows that name the document.
Begin(d) ==
    LET mine == {r \in Rows : d \in row[r].docs}
    IN  /\ ~tx[d].open
        /\ tx' = [tx EXCEPT ![d] = [Idle EXCEPT !.open = TRUE,
                                                !.detach = mine,
                                                !.upsert = Source[d],
                                                !.copy = [r \in Rows |->
                                                    IF r \in mine THEN row[r] ELSE NoRow]]]
        /\ UNCHANGED <<row, lastId, ingested>>

\* By the copy: a row with other sources is updated, and must still exist; a row
\* without is deleted by its id, whatever its sources have become.
Detach(d, r) ==
    LET rest == tx[d].copy[r].docs \ {d}
        found == Now(d, r).id = tx[d].copy[r].id
        done == [tx[d] EXCEPT !.detach = @ \ {r}]
    IN  /\ r \in tx[d].detach
        /\ Unlocked(d, r)
        /\ \/ /\ rest # {}
              /\ found
              /\ tx' = [tx EXCEPT ![d] = Changed(done, r, [Now(d, r) EXCEPT !.docs = rest])]
           \/ /\ rest = {}
              /\ tx' = [tx EXCEPT ![d] = IF found THEN Changed(done, r, NoRow) ELSE done]
        /\ UNCHANGED <<row, lastId, ingested>>

\* The SELECT of one dedup hash.
Read(d, r) ==
    /\ tx[d].open
    /\ tx[d].detach = {}
    /\ tx[d].read = {}
    /\ r \in tx[d].upsert
    /\ tx' = [tx EXCEPT ![d].read = {r}, ![d].copy[r] = Now(d, r)]
    /\ UNCHANGED <<row, lastId, ingested>>

\* A row that was not there is inserted, unless another ingestion has inserted it; one
\* that was gets the document added to the sources it had when it was read.
Upsert(d, r) ==
    LET copy == tx[d].copy[r]
        done == [tx[d] EXCEPT !.read = {}, !.upsert = @ \ {r}]
    IN  /\ r \in tx[d].read
        /\ \/ /\ copy = NoRow
              /\ Unlocked(d, r)
              /\ Now(d, r) = NoRow
              /\ lastId[r] < MaxId
              /\ lastId' = [lastId EXCEPT ![r] = @ + 1]
              /\ tx' = [tx EXCEPT ![d] = Changed(done, r, [id |-> lastId'[r], docs |-> {d}])]
           \/ /\ copy # NoRow
              /\ d \notin copy.docs
              /\ Unlocked(d, r)
              /\ Now(d, r).id = copy.id
              /\ tx' = [tx EXCEPT ![d] = Changed(done, r, [copy EXCEPT !.docs = @ \cup {d}])]
              /\ UNCHANGED lastId
           \/ /\ d \in copy.docs
              /\ tx' = [tx EXCEPT ![d] = done]
              /\ UNCHANGED lastId
        /\ UNCHANGED <<row, ingested>>

Commit(d) ==
    /\ tx[d].open
    /\ tx[d].detach = {}
    /\ tx[d].upsert = {}
    /\ row' = [r \in Rows |-> Now(d, r)]
    /\ ingested' = ingested \cup {d}
    /\ tx' = [tx EXCEPT ![d] = Idle]
    /\ UNCHANGED lastId

\* A row that is gone or was inserted by another, any other error, a crash.
Abort(d) ==
    /\ tx[d].open
    /\ tx' = [tx EXCEPT ![d] = Idle]
    /\ UNCHANGED <<row, lastId, ingested>>

Next ==
    \E d \in Docs :
        \/ Begin(d) \/ Commit(d) \/ Abort(d)
        \/ \E r \in Rows : Detach(d, r) \/ Read(d, r) \/ Upsert(d, r)

Spec == Init /\ [][Next]_vars

-----------------------------------------------------------------------------
(* _detach_document_from_atomic_transactions: a re-parse deletes the rows  *)
(* "sourced solely from this document", and "transactions also sourced     *)
(* from other documents keep the row but drop this document".  So: what a  *)
(* document was ingested with stays in the ledger's sources under its name,*)
(* whatever the ingestions of others do.                                   *)
ClaimsKept ==
    \A d \in ingested : \A r \in Source[d] : d \in row[r].docs

=============================================================================
