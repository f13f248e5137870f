# finance_report: a TLA+ model of the backend's concurrent core

The repository is a personal-finance system: a FastAPI backend (`apps/backend`), a web frontend
(`apps/frontend`), and a specification tree (`common/`) beside the code. A user uploads bank and
brokerage statements; background jobs extract them; a human or an automatic rule approves them;
approval posts double-entry journal entries; reconciliation, reporting and portfolio views read
the result. The backend is asynchronous Python over PostgreSQL: requests, background tasks and
durable Prefect runs share nothing but the database and the object store, and interleave at every
`await`.

The core of the program is the life of a statement: several actors (users, jobs, retries, a
supervisor, crashes) change the same rows, and a wrong interleaving puts wrong numbers in a ledger.
Around it stand the ledger's entries and their reconciliation, the files in the object store, and the
outbox that carries facts from one package to another. Each is a module here.

## Inventory

| Part | State | Operations | What is hard | What makes it correct |
|---|---|---|---|---|
| Statement row (`extraction/orm/statement_summary.py`, `routers/statements.py`) | `status`, `stage1_status`, current extraction result, conflict resolution, object | upload, retry, reject, approve, confirm envelope, delete | every request may meet a running job; row locks are taken by some writers only | an approved statement was reviewed, is trusted and is fully posted |
| Parse jobs (`statement_parsing.py`, `statement_pipeline.py`, `statement_flow.py`) | in-process tasks, Prefect runs and their retries | start, fail and retry, fail for good, finish | the job's copy of the row is minutes old when it writes; tasks die with the process | a failed parse changes nothing of the last good one |
| Supervisor (`statement_parsing_supervisor.py`) | the batch it has read | scan, reset | unlocked read and write, one batch transaction | no statement is parsing for ever |
| Layer-2 facts (`deduplication.py`, `orm/layer2.py`) | rows by dedup hash, the documents that source them | detach, delete, upsert | rows shared by documents; row ids change on re-parse | a parse touches the facts of its own document only |
| Posting (`statement_posting.py`) | journal entries by command target | plan, post all or send to review | retries, voided entries, covered transfers | whole plan or nothing; a target at most once; voids are final |
| Reviewed envelope (`reviewed_statement_envelope.py`) | immutable results and the envelopes that pin them | persist result, confirm, gate | the pointer moves under reviews | approval only of a complete or a reviewed result |
| Ledger (`ledger/`) | entries: draft, posted, reconciled, void; reversals | anchored submit, post, void, delete | unlocked reads; idempotent targets; triggers | a command is recorded once, a void has one reversal |
| Reconciliation (`reconciliation/`) | matches: auto-accepted, pending, accepted, rejected, superseded | run matching, accept, reject, batch accept, batch reject, reviewed disposition | concurrent runs; voids and re-parses under a pending match | an accepted match is backed by its entries; no matched transaction is lost |
| Outbox (`platform/`), price ingestion (`pricing/extension/ingest.py`) | pending and published events, ingested observations | publish, fetch, deliver, mark | at-least-once, poison events, late commits | every committed fact is ingested once |
| Source authority (`audit/extension/trace_repository.py`, `disposition_trace.py`, `reviewed_disposition.py`) | trace records: decisions about a source row, each superseding the last; authorizations of its entry | decide, authorize, post; reviewed disposition; commit | rows are planned without a lock; authority is computed from ancestors that others may supersede | one current decision, one posting, one review per row; an entry keeps the authority it was posted with |
| Object storage and sweep (`runtime/`, `routers/statements.py`) | objects, rows, the registry of uploaded documents | upload, delete, sweep, account removal | three-step sweep; two stores and no common transaction | no object the registry names is swept; every orphan is |
| Identity, rate limiter, counter | users, windows, tallies | log in, delete, purge, throttle, bump | small and sequential, or one atomic statement | |
| Pricing, portfolio, reporting, workflow inbox, LLM, advisor, observability, frontend | prices, lots, snapshots | fetch, compute, render | arithmetic, text and I/O rather than interleaving | |

How they interact: upload writes the statement row and its object in one transaction and then
*calls* `submit_parse_pipeline`, outside it. A job *shares* the row, the facts and the entries with
every request. Approval *calls* posting, which *reads* the facts and the reconciliation transfers
and *writes* entries through the ledger's anchored boundary, in the caller's transaction. The
supervisor, the sweep, the market-data scheduler and the outbox relay are `asyncio` tasks of the
API process (`main.py`) and die with it. Prefect runs live in a worker process of their own.

## Modules

| Module | What it is |
|---|---|
| `StatementLifecycle` | statement rows, facts, entries, jobs, supervisor, crashes |
| `FactIngestion` | concurrent ingestions of documents that share facts, between their reads and writes |
| `JournalLedger` | journal entries, the requests that change them, the triggers |
| `Reconciliation` | matching runs and reviews, composed with `JournalLedger` (which it EXTENDS) |
| `SourceAuthority` | decisions about source rows, by postings and reviewed dispositions, and the authority of the entries they post |
| `SourceStorage` | objects, rows and registry; uploads, deletes, account removal, sweep |
| `Ingestion` | what outbox and price subscriber promise together, without relay, batch or crash |
| `Outbox` | producers, relays, subscriber; an `INSTANCE` of `Ingestion` is its property `IngestionSpec` |
| `MCStatementLifecycle`, `MCFactIngestion`, `MCReconciliation`, `MCSourceAuthority`, `MCSourceStorage`, `MCOutbox` | their instances for TLC |
| `StatementLifecycleProofs`, `StatementApprovalProofs`, `FactIngestionProofs`, `ReconciliationProofs`, `SourceAuthorityProofs`, `SourceStorageProofs`, `OutboxProofs` | theorems about them, for every value of their constants |

The ledger appears twice. `StatementLifecycle` knows a statement's entries by command target, live or
voided, which is all that posting asks. `JournalLedger` refines what an entry does in between, and
`Reconciliation` what else happens to it; its `Submit` stands for the postings of the other module.
`SourceAuthority` opens up what `StatementLifecycle` takes as one step, the decisions and entries of one
approval, and lets other transactions in between.

### How `StatementLifecycle` corresponds to the code

One action is one database transaction, or one externally visible step between two transactions.

| Variable | In the code |
|---|---|
| `stmt[s]` | a row of `statement_summaries`: `status`, `stage1_status`, `current_extraction_result_id` (as the digest it points at), the results pinned by a reviewed envelope, the currency, period and balance `columns`, `score` (for `balance_validated` and `confidence_score`: would the automatic approval take them), whether `manual_opening_balance` is set, `stage1_conflicts_resolved_at`, the stored object, and whether `updated_at` is past the supervisor's threshold |
| `fact[r]` | the row of `atomic_transactions` with dedup hash `r`: the id it was inserted under and its `source_documents`; no row when no document sources it |
| `posted`, `voided` | journal entries by command target, `statement-transaction:{txn.id}` |
| `job[j]` | a task or a Prefect run, with the copy of the row it loaded |
| `stale` | what `reset_stale_parsing_jobs` has read and not yet written |
| `loaded[s]` | what a `POST /retry` has read before it awaits the model catalogue |
| `approval[s]` | what a `POST /review/approve` has loaded before it binds the account and takes the row lock |

| Actions | In the code |
|---|---|
| `Upload`, `Reject`, `RetryCheck`, `RetryCommit`, `Delete`, `ResolveConflicts` | the endpoints of `routers/statements.py` and `routers/review.py`; uploads, rejections and retries dispatch a parse after their commit, which may be lost |
| `JobStart`, `JobError`, `JobReject`, `JobFinish` | `StatementIngestionUseCase.execute`, `_execute_statement_ingestion`, `handle_parse_failure`: the load; a retryable failure; a failed extraction; and the one transaction that writes facts (`dual_write_layer2`), row, extraction result, automatic approval, entries and the brokerage route |
| `ApproveRead` | the approve endpoint's load of the row and the trust gate on it |
| `ApprovePost`, `ApproveReview`, `ApproveFails` | `approve_statement_workflow`: the plan complete, or not, or a guard that raises |
| `ConfirmEnvelope`, `SetOpening` | `confirm_reviewed_statement_envelope`, `set_opening_balance` |
| `Void` | `void_journal_entry`, as one step |
| `Age`, `SupervisorScan`, `SupervisorReset` | time, and the two halves of the supervisor's pass |
| `Crash`, `WorkerCrash` | the API process, or a Prefect worker, dies |

Details the model keeps because properties depend on them. The ORM writes a column only when it
differs from the copy the session loaded: `Written` decides so for the status, the score and every column
of the envelope separately, `Confirmed` for the two statuses of an approval whose locking SELECT did not
refresh its copy. `stage1_status` is written by a parse only when its copy had none. The pointer to the
current result is moved afterwards, on the refreshed row (`Advanced`), so that a row may hold the columns
of one complete result and point at another; `Trusted` compares them, as the gate does. A parse whose own
result was the one its copy pointed at is refused when the refreshed row points elsewhere
(`_execute_statement_ingestion`). The database refuses an approved row only for a NULL column (`Filled`).
The automatic approval reads the row's status and score, whoever wrote them (`Allowed`). A re-inserted
fact has a new id (`Reingested`); a target whose entry was voided gets that entry back instead of a new
one (`NewEntries`); an extraction result is never deleted and its statement therefore cannot be either
(`Deletable`); and a deleted row makes the supervisor's whole batch fail.

Abstractions: what a file contains is `Source`; a parse finds any subset of it, says one of `Results` and
ends in one of `Conclusions`. A result is a digest with the columns it states (`Facts`), among them
incomplete ones for reasons that show in no column, and complete ones without a single currency's balance
(`Uncompared`), which the gate passes without a comparison. Whether two rows look like duplicates or a transfer
pair is `Conflicts`; whether an accepted transfer covers a fact is `Transfers`; the balance chain, account
resolution and the period check are part of the nondeterministic choice whether an approval posts, asks for
review or is refused. The account is not among the columns. `JobFinish` is one step from the flush of
`dual_write_layer2` to the commit: that flush has row-locked the statement unless it wrote nothing to it, and
what another request may do between the flush and the refresh in that case is left out. Conflict resolution and the
opening balance read and write in one step. There is one user: every query of the code is scoped by `user_id`.

### How `FactIngestion` corresponds to the code

`StatementLifecycle` commits an ingestion in one step, and its theorem `FactsAreIsolated` holds for
ingestions that do. `FactIngestion` takes the transactions of different documents apart: `Begin` and
`Detach` are `_detach_document_from_atomic_transactions` (one SELECT, then an UPDATE or DELETE per row,
which the autoflush of the next statement sends), `Read` and `Upsert` are `upsert_atomic_transaction`.
`row[r]` is the committed row of a dedup hash, `tx[d]` the session of an ingestion: what it has read, what it
has changed. A changed row is locked to the end of the transaction, an insert waits for another of the same
hash (the unique index), an UPDATE that finds no row and a lost insert end the transaction (`Abort`; the
handler that swallows the IntegrityError leaves a session that must be rolled back), and a DELETE that finds
no row does nothing. A document has one ingestion at a time and yields the same rows each time; the
normalized links beside `source_documents` are left out.

### How `JournalLedger` and `Reconciliation` correspond to the code

| Variable | In the code |
|---|---|
| `status`, `source`, `reversal`, `sign` | a row of `journal_entries`: its status, the identity of the decision target it records, `void_reversal_entry_id`, and whether its lines are as first entered or turned round |
| `req[q]` | a request of `routers/journal.py` between its unlocked read of an entry and its write |
| `live`, `match[m]` | transactions not deleted by a re-parse; `reconciliation_matches` with their links |
| `run[r]` | `execute_matching`: transactions read as unmatched, entries as the session holds them, decisions made |
| `review[v]` | `accept_match` (holding the row), or a match that `batch_approve_matches` or `batch_reject_matches` has selected (holding nothing) |

| Actions | In the code |
|---|---|
| `CreateDraft`, `Submit` | `submit_manual_journal_entry`, `submit_anchored_journal_entry` behind the advisory lock of `_existing_for_target` (`EntryFor`) |
| `Read`, then `Post`, `Void`, `Delete` or `Refused` | the two halves of each request; `Allowed` is `fr_guard_journal_entry_immutability`, which compares the *stored* status |
| `RunRead`, `Propose`, `RunCommit`, `RunFails` | the reads of a run, its three phases, and its single transaction: transfer entries, matches, superseded matches, reconciled entries, all or nothing |
| `AcceptRead`, `Accept`, `Reject`, `BatchRead`, `BatchAccept`, `BatchReject`, `ReviewFails` | the Stage-2 review. A batch selects pending matches without a lock; `BatchAccept` then locks one whatever became of it, because that SELECT does not refresh the loaded match, and `Accept` follows |
| `RemoveTxn` | a re-parse deletes a fact, and the foreign key its matches |

Scores are a nondeterministic choice among the entries the run has read. A transfer entry is submitted
without a source id, so its identity is its content: `Identity` is a constant, and two transfers may
share it. The matches of a batch are taken one per review, each with a commit of its own: the code commits them
together, so the model has more behaviours. A match may name a draft that was deleted after the run read it: the code
keeps its id and leaves out the link (`sync_reconciliation_match_journal_entry_links`). The model lets a run reconcile a draft that became posted since it was read; the code's
promotion of `source_type` would be refused there, so the model only has more behaviours.
`accept_match`'s branch for a match without entries is not reached by matches the code creates.

### How `SourceAuthority` corresponds to the code

| Variable | In the code |
|---|---|
| `decided[r]` | the committed dispositions of an atomic transaction in `trace_records`; a decision is the sequence of contents from the row's first decision to itself, since a record's id digests its content and the record it supersedes |
| `entries[r]` | its committed authorizations, each with the journal entry anchored to it: the decision it descends from, and whether the entry is void |
| `tx[t]` | the database transaction of a statement's approval or of a reviewed disposition: rows planned, decisions appended (it holds their advisory locks), entries created or returned |

| Actions | In the code |
|---|---|
| `Plan`, `Decide` | `auto_create_posted_entries_for_statement`: the unlocked read of covered rows, then `emit_disposition_trace_records` row by row |
| `Review` | `submit_reviewed_disposition`: the row lock, the refusals (`Refused`) and its decision |
| `Post` | `authorize_financial_command` and `submit_anchored_journal_entry`: a current authorization returns its entry, otherwise one is appended, which the database refuses when the row has any (`TargetFree`) |
| `Validate`, `Commit` | the two halves of a COMMIT: the deferred trigger `validate_trace_record_links`, then visibility. An entry can lose its authority between the two |
| `Abort`, `Void` | the rollback of a request; `void_journal_entry` |

A row's guard and disposition chains are superseded together and are one chain here; an authorization
and its entry are one record. The read of a head and the append behind the lock are one step: a stale read
can only abort, and `Abort` is always possible. Transactions see what is committed and what they wrote
(READ COMMITTED). Which verdict a row gets is free; a mode other than ENFORCE is the verdict "review".
The statement is locked, so it has one posting at a time; rows are locked by reviews only (the key locks
of the classification rows are ignored, which only adds behaviours). Legacy entries, the match check and
the account checks are early returns without a change of state and left out. `missed` is a history variable.

### How `SourceStorage` corresponds to the code

Uploads, statements and objects share names: an upload has its own statement id and key.

| Variable | In the code |
|---|---|
| `object[u]` | the object under the key of `u`; `old` once it is past the grace period |
| `req[u]` | `upload_statement` between its awaits, or how it ended (`doubtful`: committed, but the request failed) |
| `row`, `parsed` | `statement_summaries`, and those with an extraction result, which RESTRICTs their deletion |
| `document[f]` | the `file_path` in the `uploaded_documents` entry of a file |
| `del[u]`, `sweep`, `user` | a delete request between object and row; the sweep's pass; the account |

`Age` encodes one assumption: no upload request is in flight for longer than the grace period (24 h).
A delete whose storage call failed still removes the row, and the registry entry keeps the object for
ever; it is no orphan to the sweep, and none in `OrphansSwept`.

### How `Outbox` corresponds to the code

| Variable | In the code |
|---|---|
| `row[e]`, `id[e]` | the outbox row of an event: none, uncommitted, aborted, pending, published; its serial id |
| `copies[e]` | rows of `statement_price_observations` made from it |
| `relay[r]` | `run_once`: phase, rows still to do, rows marked in the open transaction |

`Check` and `Insert` are the subscriber, in a transaction of its own; `Mark` is the flushed update,
which waits for the row lock of the other relay; rows are marked in id order, so the locks cannot form
a cycle. `Kind` says what the subscriber makes of an event. The producers in the code today (counter
increments, manual valuations, overrides) emit only the kind it skips; statement prices, for which it
exists, have the contract that its tests give them and no producer yet.

## What the runs show

| Run | Question | Answer |
|---|---|---|
| `lifecycle_single` | One statement, two conflicting rows, one covered by a transfer when it returns, voids, a retry, crashes and a supervisor, interleaved without restriction: do approval, posting, voiding, rejection and deletion keep their promises? | yes, but for commits on an overtaken copy of the row |
| `lifecycle_review` | A complete, a reviewable and a hopeless result, every conclusion, a durable retry, crashes, lost dispatches, deletions and every user action: does an approved statement stay traceable to its result, and does parsing always end? | yes, the first but for overtaken commits and a manual opening balance, the second if users stop editing |
| `facts_race` | Do the facts of a document survive the ingestion of another that shares them? | no: a re-parse deletes a shared row by the sources it had read |
| `posted_twice` | Is a source row in the ledger at most once? | no: approve, reject, re-parse, approve posts it twice |
| `stale_resolution` | Does an answer given before a retry stop counting for the conflicting facts of the re-parse? | no: `POST /retry` keeps the resolution that `POST /review/reject` clears |
| `rerun_after_approval` | Are overlapping parses of one statement safe? | no: the later one replaces the facts of an approved statement, which stays approved |
| `reconciliation` | Journal requests, matching runs, reviews and a re-parse, all interleaved: is every command recorded once, and is an accepted match backed by its entries? | yes |
| `void_balance` | Do a voided entry and its reversal cancel? | no: balances drop the original and keep the reversal |
| `authority` | Two postings and two reviews of a shared row, step by step, with voids and aborts: does authority fork, is a row posted or reviewed twice, does a transaction that ran alone revoke an entry? | no |
| `authority_revoked` | Does a posted entry keep its authority? | no: a posting that read its plan before a review committed supersedes the review |
| `storage` | Uploads, deletes, account removal, lost answers and a crash around the sweep: does it take orphans, all of them, and nothing else? | yes |
| `outbox` | Late commits, two relays, a failing row and a crash: is a committed price copied once, and does the queue drain? | yes, unless a row the store refuses stands before it |

The runs that expect a violation (`posted_twice`, `stale_resolution`, `rerun_after_approval`,
`void_balance`, `authority_revoked`, `facts_race`) state what documents and comments of the repository say;
`PROJECT.json` quotes them with the trace of each.

Properties. *SettledUnlessOvertaken*: no step takes an approved statement out of Stage-1 approval or
leaves one of its facts out of the ledger, except the commit of a parse or of an approval whose copy of the row
another UPDATE has overtaken (`OvertakenCommit`, which compares the copy with the row it is written to).
*TrustUnlessOvertaken*: nor does one take away what the trust gate asks of its columns and current result, but
such a commit or a manual opening balance. *ApprovedCovered* is the plain state form of the first, which `rerun_after_approval` refutes.
*PostsWholePlan*: entries appear only as one statement's whole plan. *VoidIsFinal*: a voided target is never
posted again. *RejectionKeepsFacts*, *DeletedLeavesNothing*: what a rejection or a deletion may do to facts.
*ParsingEnds*: no statement is parsing for ever.
*ReversedOnce*: a void has the reversal it names and no other, a standing entry none.
*RecordedOnce*: one entry per command. *AcceptedIsBacked*: entries of an automatic match stay
reconciled, those of an accepted one reconciled or void. *StillMatched*: a transaction that runs pass
over keeps an active match. *OneHead*: a row has one current decision. *PostedOnce*, *ReviewedOnce*: it is
posted once and reviewed once, whatever is voided or superseded. *RevokedByOverlap*: only a transaction
that missed an entry when it planned takes the entry's authority away. *CondemnedIsUnknown*, *OwnSourceKept*, *OrphansSwept*: what the sweep and
the clean-ups spare, and what goes in the end. *PublishedIsIngested*, *IngestionSpec*,
*EveryPriceIngested*, *QueueDrains*: at-least-once delivery ends in one copy. Each has a mutant of the model, a plausible bug at one mapped
definition, that breaks it.

### Bounds

Two source rows are the least with a conflict or a partly covered plan; `MaxId` 2 lets a row be
deleted and re-inserted; one job, or two, are the least that act alone or overlap; one void
is the least that meets a second approval; two documents of one row are the least that share it. The
interleaving is not restricted in any run. `lifecycle_single` has one job, and the requests and the supervisor to overtake it; a
second job is in `rerun_after_approval`, and in the theorems. It leaves out the conclusions "uploaded" and a
parsed statement with a passing score, which `lifecycle_review` has. `lifecycle_review` has no rows, since
trust does not depend on them, and one column: a result that fills it, one with a NULL that a
reviewer supplies, and one incomplete for another reason. Two complete results that overtake each other need a
second job and are covered by the theorem only. `lifecycle_single` treats its rows alike, and `reconciliation` its
entries, matches, requests, runs and reviews, so both declare these as symmetric; both check safety only, for which that is sound.

In `reconciliation`, two entries are an entry and its reversal, or the two links of a match; two
requests, two runs and two reviews are the least that race; two matches are one and its successor. Two
transactions in one run make more than three million states and were not run to the end; the theorems
cover any number. In `authority`, two statements that share one of two rows, and two reviews of that row, are
the least with every pair of racing transactions and a plan that is posted in part before it is refused;
three decisions let a row be decided, superseded and superseded back. In `storage`, two uploads of one file and one of another are the least where one
upload's clean-up or delete meets another's object, with one lost answer and one crash. In `outbox`,
one event of each kind and batches of two let a late commit land before or behind the poison row, in
its batch or after it; two relays are a rolling restart, and a crash forces a redelivery.

Deadlock is checked in the runs of `StatementLifecycle`, where users can always reject or retry an
existing statement, and of `SourceAuthority`, where transactions wait for locks and any may abort (the
database breaks a cycle of them). In the others events, uploads and entries are finite pools that get used up, after which
the system rightly stops, so their runs say `CHECK_DEADLOCK FALSE`.

### Fairness

`FairSpec` assumes that time passes (`Age`), that the supervisor's loop runs (`SupervisorScan`,
every 300 s in `run_parsing_supervisor`, which survives exceptions), and that its write happens if it
is enabled again and again (strong fairness of `SupervisorReset`: an API process that restarts for
ever between that read and that write is excluded). Nothing is assumed of users, jobs or workers,
which may stop at any point; that is why only `ParsingEnds` is claimed, and not that a parse succeeds.
`ParsingEnds` has one more hypothesis, `EditsEnd`: setting an opening balance or resolving conflicts writes a row that
is being parsed, each write starts its threshold again, and a user who does so for ever is never reset. TLC
finds that behaviour when the hypothesis is dropped.

In `Outbox` each relay's pass is weakly fair: `run_outbox_relay` polls every second and survives a
failed pass. Producers may stall with their transactions open and passes may crash (a bounded number
of times). In `SourceStorage` time passes, and the sweep's steps are weakly fair: `run_storage_sweep`
survives every exception; its deletes may fail a bounded number of times.

## What is proved

`StatementLifecycleProofs` proves, for any sets of statements, rows, results, columns and jobs, and any
bounds, from the assumptions named in `StatementLifecycle` (`SourceAssumption`: sources are rows;
`ResultAssumption`: an envelope fills every column, and only incomplete results are reviewable;
`ConclusionAssumption`: the verdicts and scores of `route_by_threshold` and the gate; `BoundAssumption`):

- `TypeCorrect`: `[]TypeOK`. One lemma per kind of write, one case per action (`StepType`).
- `VoidsAreFinal`: every step is a `LedgerStep` (nothing, one statement's new entries, or one void),
  and `PostedOrVoided`, that no target is both, is inductive.
- `FactsAreIsolated`: only the commit of a parse writes facts (`OnlyFinishWritesFacts`), and it leaves every
  other document its rows and their ids (`OthersKept`).
- `DeletedSourcesNothing`: `DeletedLeavesNothing` is not inductive, since it says nothing of a
  statement about to be deleted. `NoResultNoFacts` is: a statement without an extraction result
  sources no fact, and only such a statement can go.

`StatementApprovalProofs` follows commits over copies. A parse and an approval write a column only when it
differs from a copy that is minutes old (`deduplication.py:676`), so everything depends on that copy. The
theorems hold of every behaviour of `Spec`; none restricts who may act when:

- `ApprovedStaysSettled` (`SettledUnlessOvertaken`). A parse on a current copy writes the status and score it
  concluded with (`CurrentCopyWrites`), so it leaves the row approved only by posting (`CurrentFinish`), and
  then both statuses are approved and every fact is covered (`PostingFinish`); an approval on a current
  copy likewise (`CurrentApproval`); every other step writes a row in one of the ways of `StepsRow` and
  leaves facts and coverage alone (`StaysSettled`).
- `ApprovedStaysTrusted` (`TrustUnlessOvertaken`). A posting passed the gate on the very row it leaves
  (`Allowed`), and of the other writes only `SetOpening` touches what `Trusted` reads of an approved row.
- `RejectedKeepsFacts` (`RejectionKeepsFacts`): a parse on a current copy leaves "rejected" only when its
  extraction was quarantined, which hands over no transactions.
- `OnlyWholePlans` (`PostsWholePlan`): the two posting steps post exactly the uncovered facts
  (`NewEntriesCover`), and what they leave is approved, sound and answered unless the approval was overtaken.

The exceptions are not idle. `rerun_after_approval` is a parse overtaken by an approval, and its statement ends approved with
facts that are not in the ledger. Three parses take away trust: one loads the row with the columns of a
complete result B, another makes complete A current, the user approves, and the first finishes with a third complete
result whose columns are B's: it writes none of them and moves the pointer, so the approved row has A's columns
and fails the gate. (With B itself it would be refused and retried, `statement_parsing.py:632`.)

`FactIngestionProofs`, for any documents and rows, given that parses yield rows (`SourcesAreRows`, a
hypothesis of each theorem). Unconditionally, however ingestions interleave: `TypeCorrect`; `RowsAreSourced`
(a row exists exactly when it has a source, and its sources yield it; inductive with the same of every value a session
has read or made, `SourcedTx`); `OneWriterPerRow`; `DeletedRowsStayDeleted` (no old copy brings a
deleted row's id back: `Gone` is stable because an update must still find the id it read, and ids are new). What does not hold unconditionally is
`ClaimsKept`, which `facts_race` refutes. `ApartIsAtomic` and `ApartKeepsClaims` name
behaviours that keep it: those in which documents that share a row are never ingested at once (`Apart`; the code
has no lock to ensure it). There each commit is the one step that `StatementLifecycle` takes for an ingestion
(`IngestedAtOnce`), which is what justifies that module's atomic commit for such behaviours. The invariant
`TxHolds` follows a transaction through its steps: rows to detach are as read, rows to upsert are detached, the row
read is unchanged, rows upserted are as the one step has them.

`ReconciliationProofs`, from `LedgerAssumption` and `ReconciliationAssumption` (commands, entries and
`None` are distinct; a transfer's command is not one a caller submits), for any number of requests,
runs, reviews, transactions per run and links per match: `TypeCorrect`, `ReversalOnce`, `CommandOnce`,
`AcceptedBacked`, `MatchedStays`. The last four invariants say nothing of what a run or a review
remembers, so the induction adds: every transition of an entry is a `Forward` step (nothing leaves
reconciled or void); an entry that does not exist records no
command, and a transfer's entry is reconciled (`SourceHolds`); linked entries exist or are gone and
cannot be deleted any more (`LinkedExist`); a review's match is the one it locked and its copy is not ahead of
the entry (`ReviewHolds`, `LockIsExclusive`); what a run has read as existing or reconciled
still is, and the match it supersedes belongs to its transaction (`RunHolds`).

`SourceAuthorityProofs`, from `AuthorityAssumption`, for any statements, rows, reviews and number of
decisions: `TypeCorrect`, `AuthorityIsLinear`, `SinglePosting`, `SingleReview`, `RevocationNeedsOverlap`.
None is inductive by itself. `IInv` adds that no decision is later than the head and that a reviewed decision
came with an entry (`RowHolds`), which is what keeps a second review out once there is one; that an open
transaction extends the head of every lineage it holds and posts only rows without an entry, and that a
planned row with a live entry was missed (`TxHolds`); that a review posts before it commits (`ReviewHolds`);
and that no two transactions hold one lineage or one target (`LocksExclude`).

`SourceStorageProofs`, from `StorageAssumption`: `TypeCorrect`, `SweepSparesKnown`, `SourceKept`. The
argument is the grace period: an old object belongs to a request that is over (`OldIsOver`), hence so
does every listed key (`ListedIsOver`), and only a request in flight can make a key known. That a
delete takes its own object needs one row per file and a registry that names files' own uploads
(`OneRowPerFile`, `RegistryIsSound`).

`OutboxProofs`, from `OutboxAssumption`: `TypeCorrect`, `DeliveredIsIngested` and `Refinement`
(`Spec => IngestionSpec`). A row is marked only after its handler is through (`MarksHandled`), and
the row a pass is at is determined because ids are serial (`IdsSerial`, `SmallestId`); a pass works
on committed rows only (`PassesVisible`), so every copy is of a fact.

Only model-checked: the liveness properties `ParsingEnds`, `EveryPriceIngested`, `QueueDrains` and
`OrphansSwept`, since liveness under fairness is beyond the prover. Every other property of a passing run is a
theorem. `FactIngestion` is checked by a run that expects a violation; its theorems are proved, and were tried with TLC on
three documents of two rows first.

## What the models show beside their properties

Sequences that the models contain and no property forbids, because the code has them; `PROJECT.json`
lists the hazards among them with their lines.

- After a user's rejection the re-parse leaves `stage1_status` rejected, since a parse writes it only when it is
  NULL, and the parsed statement is missing from the pending-review queue (`confirmation-workflow.md`: rejected,
  re-parsed, `pending_review`).
- A row whose authorization lost its ancestors can neither be posted again nor covered, so every approval of its
  statement fails or asks for review; voiding the entry does not help (`PostedOnce` is that side of it).
- Only a row's first decision is found again by its content: a later one carries the id of what it supersedes, so
  deciding the same again appends another.
- Two matching runs can leave two active matches of one transaction; `get_active_match` then raises.
- An approval whose copy of the row said approved posts the entries of a statement that was rejected in between and
  stays rejected.
- `batch_approve_matches` can accept a match that was rejected or superseded after the batch selected it.
- `batch_reject_matches` can overwrite an acceptance and leave its entries reconciled.
- A match whose entry was voided while it was pending can be accepted; posting then takes the
  transaction as covered.
- A reversal is an ordinary posted entry and can be voided itself.
- Two equal transfers of one day share one journal entry.
- After upload, delete and upload of the same file the registry still names the deleted object.
- An upload whose commit succeeded and whose answer was lost removes the object of its statement.
- One row that the store always refuses wedges the batch it heads.

## Plan

Done: `StatementLifecycle`, `JournalLedger`, `Reconciliation`, `SourceAuthority`, `SourceStorage`, `Ingestion`, `Outbox`,
their proofs, and `FactIngestion`. Left, in order:

1. The version chain of manual valuations (`pricing/extension/manual.py`) as the outbox's producer: a
   locked head, the partial unique index, and the event in one transaction.
2. Positions of brokerage statements, whose upsert has the same unlocked read as `FactIngestion`.
3. An abstract ledger, where a command target goes from unposted to posted to voided and a statement's whole
   plan is posted at once, and the proof that `StatementLifecycle` implements it.

## Not modelled

Text extraction, LLM and OCR calls; decimal arithmetic, currencies and exchange rates; pricing,
portfolio and report computations (per-request aggregation of decimals, most of the backend's lines);
the contents of trace records, and lineages other than a row's dispositions and its authorization; authentication and rate limiting; the package contracts under `common/`, which
are declarations; the frontend. Within the ledger and reconciliation: amounts, lines, accounts, scores,
anomaly and consistency checks, foreign-exchange pairs. Within the
pipeline: the balance chain and its manual override, account binding, statement-period overlap,
opening-balance entries, brokerage positions and corrections. `PROJECT.json` lists each part with its reason,
and each hazard that no property covers yet.
