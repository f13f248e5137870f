-------------------------------- MODULE Outbox --------------------------------
(***************************************************************************)
(* The transactional outbox (platform/extension/sql.py, relay.py), the     *)
(* background task that drains it (main.py) and its one subscriber, the    *)
(* price ingestion of pricing/extension/ingest.py.                         *)
(*                                                                         *)
(* A producer inserts an event in its own transaction; a row gets its id   *)
(* at the insert and becomes visible at the commit, so ids do not appear   *)
(* in order.  A relay pass reads a batch of committed pending rows, calls  *)
(* the handler for each (a transaction of its own), marks the row inside   *)
(* the batch's transaction, and commits the batch.  Any error, or a crash, *)
(* loses the marks and none of what the handler committed.  Two relays run *)
(* during a rolling restart.                                               *)
(***************************************************************************)
EXTENDS Naturals, FiniteSets

CONSTANTS
    Events,         \* events that producers may emit, one transaction each
    Observation,    \* the natural key an event carries (observation_id)
    Kind,           \* what the subscriber makes of an event, see Kinds
    Relays,         \* processes that run the relay task
    BatchSize,      \* rows per pass
    MaxCrashes      \* bound: passes that die between two steps

\* "price": a well-formed statement price.  "skipped": another source, or a
\* payload the handler rejects and logs.  "poison": well-formed, but the
\* database refuses its row (a value that rounds to zero, an overlong key).
Kinds == {"price", "skipped", "poison"}

ASSUME OutboxAssumption ==
    /\ Kind \in [Events -> Kinds]
    /\ BatchSize \in Nat \ {0}
    /\ MaxCrashes \in Nat

VARIABLES
    row,        \* status of the outbox row of each event
    id,         \* the id it was given at its insert (0: none)
    copies,     \* pricing's rows made from each event
    relay,      \* the pass each relay is in
    crashes     \* passes that have died

vars == <<row, id, copies, relay, crashes>>

Idle == [phase |-> "idle", batch |-> {}, marked |-> {}]

Passes ==
    [phase : {"idle", "check", "insert", "mark", "commit"},
     batch : SUBSET Events, marked : SUBSET Events]

\* What the local variables of run_once can be in each phase.
PassShape(p) ==
    /\ p.phase = "idle" => p.batch = {} /\ p.marked = {}
    /\ p.phase \in {"check", "insert", "mark"} => p.batch # {}
    /\ p.phase = "commit" => p.batch = {} /\ p.marked # {}
    /\ p.batch \cap p.marked = {}

TypeOK ==
    /\ row \in [Events -> {"none", "open", "aborted", "pending", "published"}]
    /\ id \in [Events -> Nat]
    /\ copies \in [Events -> Nat]
    /\ relay \in [Relays -> Passes]
    /\ \A r \in Relays : PassShape(relay[r])
    /\ crashes \in 0..MaxCrashes

Init ==
    /\ row = [e \in Events |-> "none"]
    /\ id = [e \in Events |-> 0]
    /\ copies = [e \in Events |-> 0]
    /\ relay = [r \in Relays |-> Idle]
    /\ crashes = 0

Cursor_Mutant ==
    {e \in Events : row[e] = "pending"
                    /\ \A d \in Events : row[d] = "published" => id[d] < id[e]}
Pending == {e \in Events : row[e] = "pending"}

\* The observation of e already has a row in pricing's store.
Copied(e) == \E d \in Events : Observation[d] = Observation[e] /\ copies[d] > 0

\* The UNIQUE constraint and the column checks of the store.
NoUnique_Mutant(e) == Kind[e] = "poison"
Refused(e) == Kind[e] = "poison" \/ Copied(e)

-----------------------------------------------------------------------------
(* Producers *)

Enqueue(e) ==
    /\ row[e] = "none"
    /\ row' = [row EXCEPT ![e] = "open"]
    /\ id' = [id EXCEPT ![e] = Cardinality({d \in Events : id[d] # 0}) + 1]
    /\ UNCHANGED <<copies, relay, crashes>>

ProducerCommit(e) ==
    /\ row[e] = "open"
    /\ row' = [row EXCEPT ![e] = "pending"]
    /\ UNCHANGED <<id, copies, relay, crashes>>

ProducerAbort(e) ==
    /\ row[e] = "open"
    /\ row' = [row EXCEPT ![e] = "aborted"]
    /\ UNCHANGED <<id, copies, relay, crashes>>

-----------------------------------------------------------------------------
(* One relay pass *)

\* The BatchSize committed pending rows of smallest id.
OldestPending ==
    {e \in Pending : Cardinality({d \in Pending : id[d] < id[e]}) < BatchSize}

\* The row of a batch that is next in id order.
NextRow(batch) == CHOOSE e \in batch : \A d \in batch : id[e] <= id[d]

Fetch(r) ==
    /\ relay[r].phase = "idle"
    /\ Pending # {}
    /\ relay' = [relay EXCEPT ![r] = [Idle EXCEPT !.phase = "check",
                                                  !.batch = OldestPending]]
    /\ UNCHANGED <<row, id, copies, crashes>>

RetriesRaise_Mutant(r) ==
    LET e == NextRow(relay[r].batch) IN
    /\ relay[r].phase = "check"
    /\ relay' = [relay EXCEPT ![r].phase =
                    IF Kind[e] = "skipped" THEN "mark" ELSE "insert"]
    /\ UNCHANGED <<row, id, copies, crashes>>

\* The handler parses the payload and looks for an earlier copy.
Check(r) ==
    LET e == NextRow(relay[r].batch) IN
    /\ relay[r].phase = "check"
    /\ relay' = [relay EXCEPT ![r].phase =
                    IF Kind[e] = "skipped" \/ Copied(e) THEN "mark" ELSE "insert"]
    /\ UNCHANGED <<row, id, copies, crashes>>

\* The handler's insert and commit.
Insert(r) ==
    LET e == NextRow(relay[r].batch) IN
    /\ relay[r].phase = "insert"
    /\ ~Refused(e)
    /\ copies' = [copies EXCEPT ![e] = @ + 1]
    /\ relay' = [relay EXCEPT ![r].phase = "mark"]
    /\ UNCHANGED <<row, id, crashes>>

CommitsOnFailure_Mutant(r) ==
    /\ relay[r].phase = "insert"
    /\ Refused(NextRow(relay[r].batch))
    /\ row' = [e \in Events |-> IF e \in relay[r].batch THEN "published" ELSE row[e]]
    /\ relay' = [relay EXCEPT ![r] = Idle]
    /\ UNCHANGED <<id, copies, crashes>>

\* The insert raises: the pass rolls its batch back and ends.
InsertFails(r) ==
    /\ relay[r].phase = "insert"
    /\ Refused(NextRow(relay[r].batch))
    /\ relay' = [relay EXCEPT ![r] = Idle]
    /\ UNCHANGED <<row, id, copies, crashes>>

CommitsEachRow_Mutant(r) ==
    LET e == NextRow(relay[r].batch) IN
    /\ relay[r].phase = "mark"
    /\ \A q \in Relays \ {r} : e \notin relay[q].marked
    /\ relay' = [relay EXCEPT
                    ![r] = [phase |-> "commit", batch |-> @.batch \ {e}, marked |-> {e}]]
    /\ UNCHANGED <<row, id, copies, crashes>>

\* The flushed UPDATE: waits for the row lock of the other relay's batch.
Mark(r) ==
    LET e == NextRow(relay[r].batch)
        rest == relay[r].batch \ {e} IN
    /\ relay[r].phase = "mark"
    /\ \A q \in Relays \ {r} : e \notin relay[q].marked
    /\ relay' = [relay EXCEPT
                    ![r] = [phase |-> IF rest = {} THEN "commit" ELSE "check",
                            batch |-> rest, marked |-> @.marked \cup {e}]]
    /\ UNCHANGED <<row, id, copies, crashes>>

CommitBatch(r) ==
    /\ relay[r].phase = "commit"
    /\ row' = [e \in Events |-> IF e \in relay[r].marked THEN "published" ELSE row[e]]
    /\ relay' = [relay EXCEPT ![r] = Idle]
    /\ UNCHANGED <<id, copies, crashes>>

\* The process dies; the pass's transaction is rolled back.
Crash(r) ==
    /\ relay[r].phase # "idle"
    /\ crashes < MaxCrashes
    /\ crashes' = crashes + 1
    /\ relay' = [relay EXCEPT ![r] = Idle]
    /\ UNCHANGED <<row, id, copies>>

Pass(r) ==
    Fetch(r) \/ Check(r) \/ Insert(r) \/ InsertFails(r) \/ Mark(r) \/ CommitBatch(r)

Next ==
    \/ \E e \in Events : Enqueue(e) \/ ProducerCommit(e) \/ ProducerAbort(e)
    \/ \E r \in Relays : Pass(r) \/ Crash(r)

Spec == Init /\ [][Next]_vars

\* run_outbox_relay polls every second and survives a failed pass; nothing is
\* assumed of producers or of crashes.
FairSpec == Spec /\ \A r \in Relays : WF_vars(Pass(r))

-----------------------------------------------------------------------------
(* Properties *)

\* No price is marked delivered without a copy of its observation in pricing's
\* store, whatever relays crash, fail or overlap: mark_published comes after
\* the handler and a failed batch rolls back all its marks (relay.py).
PublishedIsIngested ==
    \A e \in Events : row[e] = "published" /\ Kind[e] = "price" => Copied(e)

\* The abstract promise: one copy per observation, only of committed facts,
\* never removed, although delivery is at-least-once and two relays may race
\* the handler's check (ingest.py).
I == INSTANCE Ingestion WITH facts <- {e \in Events : row[e] \in {"pending", "published"}}
IngestionSpec == I!Spec

\* A poison row stands before e in the queue.
BehindPoison(e) == \E p \in Pending : Kind[p] = "poison" /\ id[p] < id[e]

\* Every committed price is copied in the end, even one that was inserted early
\* and committed late, unless a poison row before it stops every pass.
EveryPriceIngested ==
    \A e \in Events :
        row[e] = "pending" /\ Kind[e] = "price" ~> Copied(e) \/ BehindPoison(e)

\* The queue drains: a committed row is published in the end, redelivered or
\* not, as long as no poison row is pending.
QueueDrains ==
    \A e \in Events :
        row[e] = "pending" ~> row[e] = "published" \/ \E p \in Pending : Kind[p] = "poison"

=============================================================================
