------------------------- MODULE StatementLifecycle -------------------------
(***************************************************************************)
(* The life of an uploaded statement: the row the API shows                *)
(* (statement_summaries), the background jobs that parse its file, the     *)
(* Layer-2 facts a parse leaves (atomic_transactions), and the journal     *)
(* entries that approval posts for those facts.                            *)
(*                                                                         *)
(* One action is one database transaction or one externally visible step   *)
(* between two transactions.  Steps of different requests, jobs and of the *)
(* parsing supervisor interleave freely.  What a file says and what the    *)
(* model extracts from it are nondeterministic: a parse ends in one of the *)
(* Conclusions with one of the Results, and finds some subset of the rows  *)
(* its file contains.                                                      *)
(***************************************************************************)
EXTENDS Naturals, FiniteSets

CONSTANTS
    Statements,    \* uploaded files; a statement and its document share (user_id, file_hash)
    Rows,          \* dedup hashes: the user's distinct source rows
    Source,        \* Source[s]: the rows the file of s contains
    Conflicts,     \* sets of rows that look like duplicates or a transfer pair
    Transfers,     \* facts an accepted transfer match covers by the time they are posted
    Results,       \* content digests of what extractions of the files say
    Incomplete,    \* those that miss required facts
    Reviewable,    \* of these, the ledgers whose missing facts a reviewer can supply
    Uncompared,    \* complete results that name no single currency balance
    Columns,       \* a statement's currency, period and balances
    Values,        \* what such a column holds
    NoValue,       \* NULL
    Facts,         \* Facts[d]: the columns as result d states them
    Envelope,      \* Envelope[d]: the columns as the reviewer of d confirms them
    Conclusions,   \* verdict and score of the extractions that do not fail
    Jobs,          \* concurrent parse jobs (a bound)
    MaxId,         \* Layer-2 row ids per source row (a bound)
    MaxRetries,    \* flow retries of a durable job
    MaxVoids,      \* entries users void (a bound)
    MaxRequests,   \* requests that have read a statement and not yet written it (a bound)
    Prefect,       \* prefect_api_url is set: parses are submitted as durable runs
    NoStatement    \* the statement of an idle job slot

ASSUME SourceAssumption ==
    /\ Source \in [Statements -> SUBSET Rows]
    /\ Conflicts \subseteq SUBSET Rows
    /\ Transfers \subseteq Rows \X (1..MaxId)
ASSUME ResultAssumption ==
    /\ "none" \notin Results
    /\ Incomplete \subseteq Results
    /\ Reviewable \subseteq Incomplete
    /\ Uncompared \subseteq Results \ Incomplete
    /\ Columns # {}
    /\ NoValue \in Values
    /\ Facts \in [Results -> [Columns -> Values]]
    /\ Envelope \in [Reviewable -> [Columns -> Values \ {NoValue}]]
\* route_by_threshold, the review-only cases, and the blocking gate.  A parsed
\* statement may pass too: one without an account, or a brokerage one.
ASSUME ConclusionAssumption ==
    Conclusions \subseteq {<<"approved", "high">>, <<"parsed", "high">>, <<"parsed", "low">>,
                          <<"uploaded", "low">>, <<"quarantined", "low">>}
ASSUME BoundAssumption ==
    /\ MaxId \in Nat
    /\ MaxRetries \in Nat
    /\ MaxVoids \in Nat
    /\ MaxRequests \in Nat
    /\ Prefect \in BOOLEAN
    /\ NoStatement \notin Statements

VARIABLES
    stmt,     \* statement_summaries, with the state of the stored object
    fact,     \* atomic_transactions by dedup hash
    posted,   \* live anchored journal entries, by command target
    voided,   \* voided anchored journal entries, by command target
    job,      \* parse jobs: in-process tasks and durable flow runs
    stale,    \* rows the supervisor has read and not yet reset
    loaded,   \* what a retry request has read: the row was parsing, or settled
    approval  \* what an approval request has read

vars == <<stmt, fact, posted, voided, job, stale, loaded, approval>>

-----------------------------------------------------------------------------
Status == {"parsing", "parsed", "approved", "rejected", "uploaded"}
Stage1 == {"null", "pending_review", "approved", "rejected"}

Verdicts == {"approved", "parsed", "uploaded", "quarantined"}
\* NULL, or whether they pass is_high_confidence_auto_approve_candidate.
Scores == {"none", "low", "high"}

\* The conflicts are unanswered, answered, or answered before a retry was asked for.
Answers == {"no", "given", "reopened"}

Ids == 1..MaxId
\* A statement entry's command target, "statement-transaction:{txn.id}": the
\* Layer-2 row is identified by its dedup hash and the id it was inserted under.
Targets == Rows \X Ids

(* The code cannot tell the last two Answers apart: the properties do. *)
StatementRow ==
    [ status   : Status \cup {"absent", "deleted"},
      stage1   : Stage1,
      result   : {"none"} \cup Results,  \* current_extraction_result_id, extraction_metadata
      reviewed : SUBSET Reviewable,      \* results some reviewed envelope pins
      columns  : [Columns -> Values],
      score    : Scores,      \* balance_validated and confidence_score
      manual   : BOOLEAN,     \* manual_opening_balance is set
      resolved : Answers,     \* stage1_conflicts_resolved_at
      object   : BOOLEAN,     \* the uploaded file is still in the object store
      aged     : BOOLEAN ]    \* updated_at is older than PARSING_STALE_THRESHOLD

(* A job's copy of the row is what session.get loaded when it started. *)
JobRow ==
    [ phase   : {"idle", "queued", "running"},
      on      : Statements \cup {NoStatement},
      durable : BOOLEAN,
      tries   : 0..MaxRetries,
      status  : Status,
      unset   : BOOLEAN,      \* its stage1_status was NULL
      result  : {"none"} \cup Results,
      columns : [Columns -> Values],
      score   : Scores ]

(* A request's copy: was it approved, reviewed, and its conflicts answered? *)
ApprovalRow == [open : BOOLEAN, approved : BOOLEAN, reviewed : BOOLEAN, answered : BOOLEAN]

FactRow == [id : 0..MaxId, docs : SUBSET Statements]

NoColumns == [c \in Columns |-> NoValue]

Absent ==
    [ status |-> "absent", stage1 |-> "null", result |-> "none", reviewed |-> {},
      columns |-> NoColumns, score |-> "none", manual |-> FALSE, resolved |-> "no",
      object |-> FALSE, aged |-> FALSE ]

IdleJob ==
    [ phase |-> "idle", on |-> NoStatement, durable |-> FALSE, tries |-> 0,
      status |-> "parsing", unset |-> TRUE, result |-> "none", columns |-> NoColumns,
      score |-> "none" ]

NoApproval == [open |-> FALSE, approved |-> FALSE, reviewed |-> FALSE, answered |-> FALSE]

TypeOK ==
    /\ stmt \in [Statements -> StatementRow]
    /\ fact \in [Rows -> FactRow]
    /\ posted \subseteq Targets
    /\ voided \subseteq Targets
    /\ job \in [Jobs -> JobRow]
    /\ \A j \in Jobs : job[j].phase = "idle" \/ job[j].on \in Statements
    /\ stale \subseteq Statements
    /\ loaded \in [Statements -> {"none", "parsing", "settled"}]
    /\ approval \in [Statements -> ApprovalRow]

Init ==
    /\ stmt = [s \in Statements |-> Absent]
    /\ fact = [r \in Rows |-> [id |-> 0, docs |-> {}]]
    /\ posted = {}
    /\ voided = {}
    /\ job = [j \in Jobs |-> IdleJob]
    /\ stale = {}
    /\ loaded = [s \in Statements |-> "none"]
    /\ approval = [s \in Statements |-> NoApproval]

-----------------------------------------------------------------------------
(* Reading the tables *)

Exists(s) == stmt[s].status \in Status

Requests == {s \in Statements : loaded[s] # "none"} \X {"retry"}
            \cup {s \in Statements : approval[s].open} \X {"approve"}

\* resolve_statement_transactions, as the targets their entries would have.
FactsIn(f, s) == {t \in Targets : s \in f[t[1]].docs /\ t[2] = f[t[1]].id}
FactsOf(s) == FactsIn(fact, s)

Conflicted(f, s) == \E c \in Conflicts : \A r \in c : s \in f[r].docs

(* require_current_statement_envelope_trust: the columns are those of the current
   complete result, or those of the envelope that pins the current incomplete one. *)
Trusted(row) ==
    \/ row.result \in {"none"} \cup Uncompared
    \/ row.result \in Results \ Incomplete /\ row.columns = Facts[row.result]
    \/ row.result \in row.reviewed /\ row.columns = Envelope[row.result] /\ ~row.manual

\* _raise_if_approved_envelope_incomplete, and the check constraint
\* ck_statement_summaries_approved_complete.
Filled(row) == \A c \in Columns : row.columns[c] # NoValue

\* What approve_statement demands of the row, and of its conflicts.  Whether the
\* balance chain holds is left open.
NoTrust_Mutant(row) == Filled(row)
Sound(row) == Trusted(row) /\ Filled(row)

Answered(f, s, answered) == Conflicted(f, s) => answered

Approvable(row, f, s) == Sound(row) /\ Answered(f, s, row.resolved # "no")

-----------------------------------------------------------------------------
(* Posting: one anchored entry per fact, all of them or none *)

ToPost(f, s) == FactsIn(f, s) \ posted

\* The application loop of auto_create_posted_entries_for_statement.  A fact under
\* an accepted transfer is ALREADY_COVERED; a target whose entry was voided gets
\* that entry back, still VOID.
RepostVoided_Mutant(f, s) == ToPost(f, s) \ Transfers
StopAfterOne_Mutant(f, s) ==
    IF ToPost(f, s) = {} THEN {} ELSE {CHOOSE t \in ToPost(f, s) : TRUE} \ (Transfers \cup voided)
NewEntries(f, s) == ToPost(f, s) \ (Transfers \cup voided)

\* Every UPDATE of the row moves updated_at.
Stamp(row) == [row EXCEPT !.aged = FALSE]

Approved(row) == Stamp([row EXCEPT !.status = "approved", !.stage1 = "approved"])
ToReview(row) == Stamp([row EXCEPT !.status = "parsed", !.stage1 = "pending_review"])

-----------------------------------------------------------------------------
(* Dispatching a parse *)

(* submit_parse_pipeline, called after the row was committed: nothing runs when
   the process dies or the object cannot be read in between ("lost"), else a
   Prefect run ("flow") or, without Prefect or when the submission fails, an
   in-process task ("task").  Jobs bounds how many run at once. *)
Dispatched(s, how, object) ==
    \/ how = "lost" /\ UNCHANGED job
    \/ /\ how \in {"task", "flow"}
       /\ how = "flow" => Prefect
       /\ object
       /\ \E j \in Jobs :
            /\ job[j].phase = "idle"
            /\ job' = [job EXCEPT ![j] =
                        [IdleJob EXCEPT !.phase = "queued", !.on = s, !.durable = (how = "flow")]]

Upload(s, how) ==
    /\ stmt[s].status = "absent"
    /\ stmt' = [stmt EXCEPT ![s] = [Absent EXCEPT !.status = "parsing", !.object = TRUE]]
    /\ Dispatched(s, how, TRUE)
    /\ UNCHANGED <<fact, posted, voided, stale, loaded, approval>>

\* POST /review/reject: any status is rejected, and the source is parsed again.
Rejected(row) ==
    Stamp([row EXCEPT !.status = "rejected", !.stage1 = "rejected", !.resolved = "no"])

Reject(s, how) ==
    /\ Exists(s)
    /\ stmt' = [stmt EXCEPT ![s] = Rejected(stmt[s])]
    /\ Dispatched(s, how, stmt[s].object)
    /\ UNCHANGED <<fact, posted, voided, stale, loaded, approval>>

(* POST /retry checks the status it read, may await the model catalog, and then
   writes.  The write is one UPDATE, or none when the row was read as parsing. *)
RetryCheck(s) ==
    /\ stmt[s].status \in {"parsed", "rejected", "parsing"}
    /\ loaded[s] = "none"
    /\ Cardinality(Requests) < MaxRequests
    /\ loaded' = [loaded EXCEPT ![s] = IF stmt[s].status = "parsing" THEN "parsing" ELSE "settled"]
    /\ UNCHANGED <<stmt, fact, posted, voided, job, stale, approval>>

Reopened(row, read) ==
    IF read = "parsing" THEN row
    ELSE Stamp([row EXCEPT
            !.status = "parsing",
            !.resolved = IF @ = "given" THEN "reopened" ELSE @])

RetryCommit(s, how) ==
    /\ loaded[s] # "none"
    /\ loaded' = [loaded EXCEPT ![s] = "none"]
    /\ IF Exists(s)
         THEN /\ stmt' = [stmt EXCEPT ![s] = Reopened(stmt[s], loaded[s])]
              /\ Dispatched(s, how, stmt[s].object)
         ELSE how = "lost" /\ UNCHANGED <<stmt, job>>
    /\ UNCHANGED <<fact, posted, voided, stale, approval>>

-----------------------------------------------------------------------------
(* The parse job *)

Finish(j) == job' = [job EXCEPT ![j] = IdleJob]

\* A raised RetryableStatementIngestionError: Prefect queues the run again.
OneRetryTooMany_Mutant(j) ==
    IF job[j].durable /\ job[j].tries <= MaxRetries
      THEN job' = [job EXCEPT ![j] =
                    [IdleJob EXCEPT !.phase = "queued", !.on = job[j].on, !.durable = TRUE,
                                    !.tries = job[j].tries + 1]]
      ELSE Finish(j)
Reschedule(j) ==
    IF job[j].durable /\ job[j].tries < MaxRetries
      THEN job' = [job EXCEPT ![j] =
                    [IdleJob EXCEPT !.phase = "queued", !.on = job[j].on, !.durable = TRUE,
                                    !.tries = job[j].tries + 1]]
      ELSE Finish(j)

Loaded(copy, row) ==
    [copy EXCEPT !.phase = "running", !.status = row.status, !.unset = (row.stage1 = "null"),
                 !.result = row.result, !.columns = row.columns, !.score = row.score]

\* The job loads its statement once; nothing refreshes that copy before the facts
\* have been written.  A durable run first fetches the object again.
JobStart(j) ==
    LET s == job[j].on IN
    /\ job[j].phase = "queued"
    /\ job[j].durable => stmt[s].object
    /\ IF Exists(s)
         THEN job' = [job EXCEPT ![j] = Loaded(@, stmt[s])]
         ELSE Finish(j)
    /\ UNCHANGED <<stmt, fact, posted, voided, stale, loaded, approval>>

\* Any failure after the load, or of the load itself: the transaction is undone.
JobError(j) ==
    /\ \/ job[j].phase = "running"
       \/ job[j].phase = "queued" /\ job[j].durable /\ ~stmt[job[j].on].object
    /\ Reschedule(j)
    /\ UNCHANGED <<stmt, fact, posted, voided, stale, loaded, approval>>

\* The extraction itself failed (handle_parse_failure, on a freshly read row).
JobReject(j) ==
    LET s == job[j].on IN
    /\ job[j].phase = "running"
    /\ stmt' = IF Exists(s)
                 THEN [stmt EXCEPT ![s] = Stamp([@ EXCEPT !.status = "rejected", !.score = "low"])]
                 ELSE stmt
    /\ Finish(j)
    /\ UNCHANGED <<fact, posted, voided, stale, loaded, approval>>

ResultStatus(verdict) == IF verdict = "quarantined" THEN "rejected" ELSE verdict
ResultStage1(verdict) ==
    CASE verdict = "parsed" -> "pending_review"
      [] verdict = "quarantined" -> "rejected"
      [] OTHER -> "null"

(* dual_write_layer2, the facts: detach the document, delete the rows it alone
   sources, and upsert what this parse found.  A deleted row comes back under a
   new id; a row another document sources keeps its own. *)
Reingested(s, X) ==
    [r \in Rows |->
        LET others == fact[r].docs \ {s} IN
        [ id   |-> IF r \in X /\ others = {} THEN fact[r].id + 1 ELSE fact[r].id,
          docs |-> IF r \in X THEN others \cup {s} ELSE others ]]

DetachAlways_Mutant(s, verdict, X) == Reingested(s, IF verdict = "quarantined" THEN {} ELSE X)
FactsAfter(s, verdict, X) == IF verdict = "quarantined" THEN fact ELSE Reingested(s, X)

\* A quarantined extraction hands over no transactions.
Found(s, verdict) == IF verdict = "quarantined" THEN {{}} ELSE SUBSET Source[s]

(* dual_write_layer2, the row: the ORM writes a column only when it differs from
   the copy the job loaded, and stage1_status only when that copy was NULL. *)
Written(row, j, verdict, score, digest) ==
    Stamp([row EXCEPT
        !.status = IF ResultStatus(verdict) = job[j].status THEN @ ELSE ResultStatus(verdict),
        !.stage1 = IF job[j].unset /\ ResultStage1(verdict) # "null"
                     THEN ResultStage1(verdict) ELSE @,
        !.columns = [c \in Columns |-> IF Facts[digest][c] = job[j].columns[c]
                                         THEN @[c] ELSE Facts[digest][c]],
        !.score = IF score = job[j].score THEN @ ELSE score])

\* persist_statement_extraction_result, on the refreshed row: a known digest moves
\* the pointer back to it, and an incomplete result that replaces another is projected.
Advanced(row, digest) ==
    IF digest # row.result /\ row.result # "none" /\ digest \in Incomplete
      THEN [ToReview(row) EXCEPT !.result = digest, !.columns = Facts[digest], !.manual = FALSE]
      ELSE [row EXCEPT !.result = digest]

\* route_brokerage_for_review_if_present
Brokered(row) ==
    IF row.status = "parsed" /\ row.stage1 # "approved"
      THEN [row EXCEPT !.stage1 = "pending_review"] ELSE row

(* try_auto_approve_high_confidence_statement: the row must be approved and carry a
   passing score, whoever gave it those.  A guard that raises, or a plan that asks for
   review, puts the statement in review instead. *)
Plans == {"none", "broker", "review", "post"}

HigherThreshold_Mutant(row, f, s, plan) ==
    LET candidate == row.status = "approved" /\ row.score = "high" IN
    CASE plan \in {"none", "broker"} -> TRUE
      [] plan = "review" -> candidate
      [] plan = "post"   -> candidate /\ Approvable(row, f, s)
Allowed(row, f, s, plan) ==
    LET candidate == row.status = "approved" /\ row.score = "high" IN
    CASE plan \in {"none", "broker"} -> ~candidate
      [] plan = "review" -> candidate
      [] plan = "post"   -> candidate /\ Approvable(row, f, s)

Decided(row, plan) ==
    CASE plan = "review" -> ToReview(row)
      [] plan = "post"   -> Approved(row)
      [] plan = "broker" -> Brokered(row)
      [] plan = "none"   -> row

(* Facts, row, extraction result and automatic approval commit together.  All of it
   is undone (JobError) when the refresh finds the row deleted, or finds another
   result than this parse's because its own equalled its copy's and was not written;
   and when an approved row would be left with an empty column. *)
JobFinish(j, verdict, score, digest) ==
    LET s        == job[j].on
        written  == Written(stmt[s], j, verdict, score, digest)
        advanced == Advanced(written, digest)
    IN
    /\ job[j].phase = "running"
    /\ Exists(s)
    /\ digest \in Incomplete => verdict \in {"parsed", "quarantined"} /\ score = "low"
    /\ <<verdict, score>> \in Conclusions
    /\ digest = job[j].result => stmt[s].result = digest
    /\ written.status = "approved" => Filled(written)
    /\ \E X \in Found(s, verdict) :
        LET f == FactsAfter(s, verdict, X) IN
        /\ \A r \in Rows : f[r].id <= MaxId
        /\ \E plan \in Plans :
            /\ plan = "broker" => verdict \in {"parsed", "quarantined"}
            /\ Allowed(advanced, f, s, plan)
            /\ stmt' = [stmt EXCEPT ![s] = Decided(advanced, plan)]
            /\ fact' = f
            /\ posted' = posted \cup (IF plan = "post" THEN NewEntries(f, s) ELSE {})
    /\ Finish(j)
    /\ UNCHANGED <<voided, stale, loaded, approval>>

-----------------------------------------------------------------------------
(* Review *)

(* POST /review/approve, whatever the status, loads the row to bind an account to it.
   The lock approve_statement then takes does not refresh that copy: the copy passes
   the gate, and the status columns are written where they differ from it. *)
CopyOf(row) ==
    [ open     |-> TRUE,
      approved |-> row.status = "approved",
      reviewed |-> row.stage1 = "approved",
      answered |-> row.resolved # "no" ]

ApproveRead(s) ==
    /\ Exists(s)
    /\ ~approval[s].open
    /\ Cardinality(Requests) < MaxRequests
    /\ Sound(stmt[s])
    /\ approval' = [approval EXCEPT ![s] = CopyOf(stmt[s])]
    /\ UNCHANGED <<stmt, fact, posted, voided, job, stale, loaded>>

Confirmed(row, copy) ==
    Stamp([row EXCEPT !.status = IF copy.approved THEN @ ELSE "approved",
                      !.stage1 = IF copy.reviewed THEN @ ELSE "approved"])

CanConfirm(s) ==
    /\ Exists(s)
    /\ approval[s].open
    /\ Answered(fact, s, approval[s].answered)
    /\ Confirmed(stmt[s], approval[s]).status = "approved" => Filled(stmt[s])

Close(s) == approval' = [approval EXCEPT ![s] = NoApproval]

\* The plan posts, or asks for review, or a guard raises.
ApprovePost(s) ==
    /\ CanConfirm(s)
    /\ stmt' = [stmt EXCEPT ![s] = Confirmed(stmt[s], approval[s])]
    /\ posted' = posted \cup NewEntries(fact, s)
    /\ Close(s)
    /\ UNCHANGED <<fact, voided, job, stale, loaded>>

ApproveReview(s) ==
    /\ CanConfirm(s)
    /\ ToPost(fact, s) # {}
    /\ stmt' = [stmt EXCEPT ![s] = ToReview(stmt[s])]
    /\ Close(s)
    /\ UNCHANGED <<fact, posted, voided, job, stale, loaded>>

ApproveFails(s) ==
    /\ approval[s].open
    /\ Close(s)
    /\ UNCHANGED <<stmt, fact, posted, voided, job, stale, loaded>>

\* POST /conflicts/{id}/resolve, whatever the status.  Nothing reads the answer in
\* an instance that has no Conflicts.
ResolveConflicts(s) ==
    /\ Exists(s)
    /\ Conflicts # {}
    /\ stmt' = [stmt EXCEPT ![s] = Stamp([@ EXCEPT !.resolved = "given"])]
    /\ UNCHANGED <<fact, posted, voided, job, stale, loaded, approval>>

\* An envelope that already pins the current result is returned, not projected again.
ConfirmEnvelope(s) ==
    /\ Exists(s)
    /\ stmt[s].result \in Reviewable \ stmt[s].reviewed
    /\ stmt' = [stmt EXCEPT ![s] =
            [ToReview(stmt[s]) EXCEPT !.reviewed = @ \cup {stmt[s].result},
                                      !.columns = Envelope[stmt[s].result],
                                      !.manual = FALSE]]
    /\ UNCHANGED <<fact, posted, voided, job, stale, loaded, approval>>

\* POST /review/opening-balance, whatever the status.  Only the trust of a
\* reviewed result reads it.
SetOpening(s) ==
    /\ Exists(s)
    /\ Reviewable # {}
    /\ stmt' = [stmt EXCEPT ![s] = Stamp([@ EXCEPT !.manual = TRUE])]
    /\ UNCHANGED <<fact, posted, voided, job, stale, loaded, approval>>

(* DELETE: the object goes first; the row only if no extraction result refers to
   it (FK RESTRICT from an append-only table). *)
NoRestrict_Mutant(s) == TRUE
Deletable(s) == stmt[s].result = "none"

Delete(s) ==
    /\ Exists(s)
    /\ stmt' = [stmt EXCEPT ![s] =
            IF Deletable(s) THEN [Absent EXCEPT !.status = "deleted"] ELSE [@ EXCEPT !.object = FALSE]]
    /\ UNCHANGED <<fact, posted, voided, job, stale, loaded, approval>>

\* The user voids a posted entry.
Void(t) ==
    /\ t \in posted
    /\ Cardinality(voided) < MaxVoids
    /\ posted' = posted \ {t}
    /\ voided' = voided \cup {t}
    /\ UNCHANGED <<stmt, fact, job, stale, loaded, approval>>

-----------------------------------------------------------------------------
(* The parsing supervisor, and crashes *)

Age(s) ==
    /\ stmt[s].status = "parsing"
    /\ ~stmt[s].aged
    /\ stmt' = [stmt EXCEPT ![s].aged = TRUE]
    /\ UNCHANGED <<fact, posted, voided, job, stale, loaded, approval>>

\* reset_stale_parsing_jobs reads without a lock ...
FirstParseOnly_Mutant ==
    {s \in Statements : stmt[s].status = "parsing" /\ stmt[s].aged /\ stmt[s].stage1 = "null"}
StaleParsing == {s \in Statements : stmt[s].status = "parsing" /\ stmt[s].aged}

SupervisorScan ==
    /\ stale = {}
    /\ StaleParsing # {}
    /\ stale' = StaleParsing
    /\ UNCHANGED <<stmt, fact, posted, voided, job, loaded, approval>>

\* ... and writes what it read; one row deleted meanwhile undoes the whole batch.
SupervisorReset ==
    /\ stale # {}
    /\ stmt' = IF \A s \in stale : Exists(s)
                 THEN [s \in Statements |->
                        IF s \in stale THEN Stamp([stmt[s] EXCEPT !.status = "rejected", !.score = "low"])
                                       ELSE stmt[s]]
                 ELSE stmt
    /\ stale' = {}
    /\ UNCHANGED <<fact, posted, voided, job, loaded, approval>>

\* The API process dies with its tasks, its supervisor and its requests.
Crash ==
    /\ job' = [j \in Jobs |-> IF job[j].durable THEN job[j] ELSE IdleJob]
    /\ stale' = {}
    /\ loaded' = [s \in Statements |-> "none"]
    /\ approval' = [s \in Statements |-> NoApproval]
    /\ UNCHANGED <<stmt, fact, posted, voided>>

\* A Prefect worker dies with the run it executes.
WorkerCrash(j) ==
    /\ job[j].phase = "running"
    /\ job[j].durable
    /\ Finish(j)
    /\ UNCHANGED <<stmt, fact, posted, voided, stale, loaded, approval>>

-----------------------------------------------------------------------------
Next ==
    \/ \E s \in Statements, how \in {"lost", "task", "flow"} :
            Upload(s, how) \/ Reject(s, how) \/ RetryCommit(s, how)
    \/ \E s \in Statements :
            \/ RetryCheck(s)
            \/ ApproveRead(s) \/ ApprovePost(s) \/ ApproveReview(s) \/ ApproveFails(s)
            \/ ResolveConflicts(s) \/ ConfirmEnvelope(s) \/ SetOpening(s) \/ Delete(s) \/ Age(s)
    \/ \E j \in Jobs : JobStart(j) \/ JobError(j) \/ JobReject(j) \/ WorkerCrash(j)
    \/ \E j \in Jobs, verdict \in Verdicts, score \in Scores, digest \in Results :
            JobFinish(j, verdict, score, digest)
    \/ \E t \in Targets : Void(t)
    \/ SupervisorScan \/ SupervisorReset \/ Crash

Spec == Init /\ [][Next]_vars

(* The supervisor runs every 300 s for as long as the API process does, and time
   passes.  A process that restarts for ever between the supervisor's read and its
   write is excluded.  Nothing is assumed of users, jobs or workers. *)
Fairness ==
    /\ \A s \in Statements : WF_vars(Age(s))
    /\ WF_vars(SupervisorScan)
    /\ SF_vars(SupervisorReset)

FairSpec == Spec /\ Fairness

-----------------------------------------------------------------------------
(* Safety *)

Covered(p, v, t) == t \in p \/ t \in v \/ t \in Transfers

\* In this step a parse of s commits although the row is no longer what it loaded, or
\* an approval although the row is no longer what passed its gate.
OvertakenParse(s) ==
    \E j \in Jobs, verdict \in Verdicts, score \in Scores, digest \in Results :
        /\ job[j].on = s
        /\ job[j] # Loaded(job[j], stmt[s])
        /\ JobFinish(j, verdict, score, digest)
OvertakenApproval(s) ==
    /\ approval[s] # CopyOf(stmt[s]) \/ ~Sound(stmt[s])
    /\ ApprovePost(s) \/ ApproveReview(s)
OvertakenCommit(s) == OvertakenParse(s) \/ OvertakenApproval(s)

\* Both status columns are approved, and no fact is left out of the ledger.
Settled(s) ==
    stmt[s].stage1 = "approved" /\ \A t \in FactsOf(s) : Covered(posted, voided, t)

(* An approved statement has passed Stage 1, and each of its facts is posted, was
   posted and voided, or moves under an accepted transfer: no request, job failure,
   supervisor reset, void or crash undoes that, in any order.  Only a commit that
   trusts a copy of the row which another UPDATE has overtaken (dual_write_layer2
   and approve_statement do) can leave a statement approved and unsettled. *)
SettledUnlessOvertaken ==
    [][ \A s \in Statements :
            stmt'[s].status = "approved" /\ ~Settled(s)' =>
                \/ stmt[s].status = "approved" /\ ~Settled(s)
                \/ OvertakenCommit(s)
      ]_vars

(* An approved statement stays traceable to its current source result: the gate it
   was approved through (require_current_statement_envelope_trust) would let it pass
   again.  It stops doing so only by an overtaken commit, or when a user gives it an
   opening balance (set_opening_balance asks for no particular status). *)
TrustUnlessOvertaken ==
    [][ \A s \in Statements :
            stmt'[s].status = "approved" /\ ~Trusted(stmt'[s]) =>
                \/ stmt[s].status = "approved" /\ ~Trusted(stmt[s])
                \/ stmt'[s].manual /\ ~stmt[s].manual
                \/ OvertakenCommit(s)
      ]_vars

(* An approved statement has no fact left out of the ledger. *)
ApprovedCovered ==
    \A s \in Statements : stmt[s].status = "approved" =>
        \A t \in FactsOf(s) : Covered(posted, voided, t)

(* A deleted statement leaves no facts and no entries to orphan, although jobs may
   outlive it: its row can only go before its first extraction result. *)
DeletedLeavesNothing ==
    \A s \in Statements : stmt[s].status = "deleted" => FactsOf(s) = {}

(* Entries are only ever posted as one statement's whole plan, by a step that leaves
   it approved, traceable to its source and with no conflict unanswered; an approval
   whose copy of the row was overtaken posts a whole plan too, but nothing else holds
   of the row it posts for. *)
PostsWholePlan ==
    [][ posted' \subseteq posted \/
        \E s \in Statements :
            /\ posted' \ posted \subseteq FactsIn(fact', s)
            /\ \A t \in FactsIn(fact', s) : Covered(posted', voided', t)
            /\ \/ /\ stmt'[s].status = "approved"
                  /\ Sound(stmt'[s])
                  /\ Conflicted(fact', s) => stmt'[s].resolved # "no"
               \/ OvertakenApproval(s)
      ]_vars

(* A parse of one statement never takes, adds or renumbers a fact of another, even
   a row that both files contain (_detach_document_from_atomic_transactions), as
   long as it commits in one step; FactIngestion has the steps in between. *)
FactIsolation ==
    [][ \A s, u \in Statements :
            s # u /\ FactsIn(fact', s) # FactsOf(s) => FactsIn(fact', u) = FactsOf(u)
      ]_vars

(* A step that ends with the statement rejected (a failed or quarantined parse, a
   user's rejection, the supervisor) leaves the facts of its last good parse, unless
   it is the commit of a parse whose loaded row was overtaken: that one may replace
   the facts and, having loaded the status it concludes with, leave "rejected". *)
RejectionKeepsFacts ==
    [][ \A s \in Statements :
            stmt'[s].status = "rejected" =>
                FactsIn(fact', s) = FactsOf(s) \/ OvertakenParse(s) ]_vars

(* A voided entry is final: its command target is never posted again, by a retry,
   a reparse or a second approval, and its void is never undone. *)
VoidIsFinal == [][ voided \subseteq voided' /\ posted' \cap voided = {} ]_vars

-----------------------------------------------------------------------------
(* Liveness *)

\* Users do not write to statements for ever while these are being parsed.
EditsEnd == <>[][\A s \in Statements : ~SetOpening(s) /\ ~ResolveConflicts(s)]_vars

(* No statement shows "parsing" for ever: whatever dies, the supervisor resets it.
   Each UPDATE of the row gives it another PARSING_STALE_THRESHOLD, and two requests
   write to a row that is being parsed without ending that. *)
ParsingEnds ==
    EditsEnd =>
        \A s \in Statements : stmt[s].status = "parsing" ~> stmt[s].status # "parsing"

-----------------------------------------------------------------------------
(* What the documentation says and the code does not do *)

(* common/extraction/readme.md: finalization is "idempotent by statement and
   atomic-transaction identity"; disposition_trace.py: a re-review "cannot authorize
   a second posting for one statement transaction".  So: no source row is in the
   ledger twice. *)
NoRowPostedTwice == \A t, u \in posted : t[1] = u[1] => t = u

(* reject_statement: "the next transaction set must be re-reviewed, so a prior
   conflict resolution must not carry over".  So: no step gives an approved statement
   another set of conflicting facts on an answer that was given before POST /retry
   had its source parsed again. *)
ResolutionIsCurrent ==
    [][ \A s \in Statements :
            /\ stmt'[s].status = "approved"
            /\ FactsIn(fact', s) # FactsOf(s)
            /\ Conflicted(fact, s)
            /\ Conflicted(fact', s)
            => stmt'[s].resolved # "reopened" ]_vars

=============================================================================
