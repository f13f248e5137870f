---------------------- MODULE StatementLifecycleProofs ----------------------
(***************************************************************************)
(* Theorems about StatementLifecycle, for all values of its constants.     *)
(***************************************************************************)
EXTENDS StatementLifecycle, TLAPS

-----------------------------------------------------------------------------
(* Rows stay rows *)

\* A row of empty columns is a row's columns.
LEMMA NoColumnsType == NoColumns \in [Columns -> Values]
  BY ResultAssumption DEF NoColumns

\* The row before its upload, and what a deletion leaves of it, is a row.
LEMMA AbsentType == Absent \in StatementRow
  BY NoColumnsType DEF Absent, StatementRow, Stage1, Scores, Answers

\* A free job slot is a job row.
LEMMA IdleJobType == IdleJob \in JobRow
  BY BoundAssumption, NoColumnsType DEF IdleJob, JobRow, Status, Scores

\* The writes of the review endpoints, of the retry and of the job yield rows.
LEMMA RowWriteTypes ==
    ASSUME NEW row \in StatementRow
    PROVE  /\ Stamp(row) \in StatementRow
           /\ Rejected(row) \in StatementRow
           /\ Approved(row) \in StatementRow
           /\ ToReview(row) \in StatementRow
           /\ Brokered(row) \in StatementRow
           /\ \A read : Reopened(row, read) \in StatementRow
           /\ \A copy : Confirmed(row, copy) \in StatementRow
  <1>1. \A r \in StatementRow : Stamp(r) \in StatementRow
    BY DEF Stamp, StatementRow
  <1>2. Rejected(row) \in StatementRow
    <2>1. [row EXCEPT !.status = "rejected", !.stage1 = "rejected", !.resolved = "no"] \in StatementRow
      BY DEF StatementRow, Stage1, Status, Answers
    <2>2. QED
      BY <1>1, <2>1 DEF Rejected
  <1>3. Approved(row) \in StatementRow
    <2>1. [row EXCEPT !.status = "approved", !.stage1 = "approved"] \in StatementRow
      BY DEF StatementRow, Stage1, Status
    <2>2. QED
      BY <1>1, <2>1 DEF Approved
  <1>4. ToReview(row) \in StatementRow
    <2>1. [row EXCEPT !.status = "parsed", !.stage1 = "pending_review"] \in StatementRow
      BY DEF StatementRow, Stage1, Status
    <2>2. QED
      BY <1>1, <2>1 DEF ToReview
  <1>5. Brokered(row) \in StatementRow
    BY DEF Brokered, StatementRow, Stage1
  <1>6. ASSUME NEW read PROVE Reopened(row, read) \in StatementRow
    <2>1. (IF row.resolved = "given" THEN "reopened" ELSE row.resolved) \in Answers
      BY DEF StatementRow, Answers
    <2> DEFINE answer == IF row.resolved = "given" THEN "reopened" ELSE row.resolved
    <2>2. [row EXCEPT !.status = "parsing", !.resolved = answer] \in StatementRow
      BY <2>1 DEF StatementRow, Status
    <2>3. Reopened(row, read) \in {row, Stamp([row EXCEPT !.status = "parsing", !.resolved = answer])}
      BY DEF Reopened
    <2>4. QED
      BY <1>1, <2>2, <2>3
  <1>7. ASSUME NEW copy PROVE Confirmed(row, copy) \in StatementRow
    <2> DEFINE status == IF copy.approved THEN row.status ELSE "approved"
               stage1 == IF copy.reviewed THEN row.stage1 ELSE "approved"
    <2>1. status \in Status \cup {"absent", "deleted"} /\ stage1 \in Stage1
      BY DEF StatementRow, Status, Stage1
    <2>2. Confirmed(row, copy) = Stamp([row EXCEPT !.status = status, !.stage1 = stage1])
      BY DEF Confirmed
    <2> HIDE DEF status, stage1
    <2>3. [row EXCEPT !.status = status, !.stage1 = stage1] \in StatementRow
      BY <2>1 DEF StatementRow
    <2>4. QED
      BY <1>1, <2>2, <2>3
  <1>8. QED
    BY <1>1, <1>2, <1>3, <1>4, <1>5, <1>6, <1>7

\* So do the writes of one or two columns: an answer, an opening balance, a lost
\* object, time, and the two ways a parse ends without a result.
LEMMA FlagWriteTypes ==
    ASSUME NEW row \in StatementRow
    PROVE  /\ Stamp([row EXCEPT !.resolved = "given"]) \in StatementRow
           /\ Stamp([row EXCEPT !.manual = TRUE]) \in StatementRow
           /\ [row EXCEPT !.object = FALSE] \in StatementRow
           /\ [row EXCEPT !.aged = TRUE] \in StatementRow
           /\ Stamp([row EXCEPT !.status = "rejected", !.score = "low"]) \in StatementRow
  <1>1. [row EXCEPT !.resolved = "given"] \in StatementRow
    BY DEF StatementRow, Answers
  <1>2. [row EXCEPT !.manual = TRUE] \in StatementRow
    BY DEF StatementRow
  <1>3. [row EXCEPT !.object = FALSE] \in StatementRow
    BY DEF StatementRow
  <1>4. [row EXCEPT !.aged = TRUE] \in StatementRow
    BY DEF StatementRow
  <1>5. [row EXCEPT !.status = "rejected", !.score = "low"] \in StatementRow
    BY DEF StatementRow, Status, Scores
  <1>6. QED
    BY <1>1, <1>2, <1>3, <1>4, <1>5, RowWriteTypes

\* The columns dual_write_layer2 writes keep their types, whatever the job had loaded.
LEMMA WrittenType ==
    ASSUME NEW row \in StatementRow, NEW j, NEW verdict \in Verdicts, NEW score \in Scores,
           NEW digest \in Results
    PROVE  Written(row, j, verdict, score, digest) \in StatementRow
  <1> DEFINE status == IF ResultStatus(verdict) = job[j].status THEN row.status
                                                                ELSE ResultStatus(verdict)
             stage1 == IF job[j].unset /\ ResultStage1(verdict) # "null"
                         THEN ResultStage1(verdict) ELSE row.stage1
             columns == [c \in Columns |-> IF Facts[digest][c] = job[j].columns[c]
                                             THEN row.columns[c] ELSE Facts[digest][c]]
             new == IF score = job[j].score THEN row.score ELSE score
  <1>1. /\ row.status \in Status \cup {"absent", "deleted"} /\ row.stage1 \in Stage1
        /\ row.columns \in [Columns -> Values] /\ row.score \in Scores
    BY DEF StatementRow
  <1>2. status \in Status \cup {"absent", "deleted"}
    BY <1>1 DEF ResultStatus, Status, Verdicts
  <1>3. stage1 \in Stage1
    BY <1>1 DEF ResultStage1, Stage1
  <1>4. columns \in [Columns -> Values]
    BY <1>1, ResultAssumption
  <1>5. new \in Scores
    BY <1>1
  <1>6. Written(row, j, verdict, score, digest) =
            Stamp([row EXCEPT !.status = status, !.stage1 = stage1, !.columns = columns,
                              !.score = new])
    BY DEF Written
  <1> HIDE DEF status, stage1, columns, new
  <1>7. [row EXCEPT !.status = status, !.stage1 = stage1, !.columns = columns,
                    !.score = new] \in StatementRow
    BY <1>2, <1>3, <1>4, <1>5 DEF StatementRow
  <1>8. QED
    BY <1>6, <1>7, RowWriteTypes

\* Moving the extraction-result pointer yields a row.
LEMMA AdvancedType ==
    ASSUME NEW row \in StatementRow, NEW digest \in Results
    PROVE  Advanced(row, digest) \in StatementRow
  <1>1. ToReview(row) \in StatementRow
    BY RowWriteTypes
  <1>2. Facts[digest] \in [Columns -> Values]
    BY ResultAssumption
  <1>3. ASSUME NEW r \in StatementRow
        PROVE  /\ [r EXCEPT !.result = digest] \in StatementRow
               /\ [r EXCEPT !.result = digest, !.columns = Facts[digest], !.manual = FALSE]
                    \in StatementRow
    BY <1>2 DEF StatementRow
  <1>4. QED
    BY <1>1, <1>3 DEF Advanced

\* The automatic approval and the brokerage route yield a row.
LEMMA DecidedType ==
    ASSUME NEW row \in StatementRow, NEW plan \in Plans
    PROVE  Decided(row, plan) \in StatementRow
  BY RowWriteTypes DEF Decided, Plans

\* What an approval request keeps of a row is a copy.
LEMMA CopyType ==
    ASSUME NEW row
    PROVE  CopyOf(row) \in ApprovalRow
  BY DEF CopyOf, ApprovalRow

\* Re-ingesting a document keeps ids in Nat and only adds or removes that document.
LEMMA FactsAfterType ==
    ASSUME fact \in [Rows -> FactRow], NEW s \in Statements, NEW verdict, NEW X,
           \A r \in Rows : FactsAfter(s, verdict, X)[r].id <= MaxId
    PROVE  FactsAfter(s, verdict, X) \in [Rows -> FactRow]
  <1>1. CASE verdict = "quarantined"
    BY <1>1 DEF FactsAfter
  <1>2. CASE verdict # "quarantined"
    <2>1. FactsAfter(s, verdict, X) = Reingested(s, X)
      BY <1>2 DEF FactsAfter
    <2>2. ASSUME NEW r \in Rows
          PROVE  Reingested(s, X)[r] \in FactRow
      <3>1. fact[r].id \in 0..MaxId /\ fact[r].docs \in SUBSET Statements
        BY DEF FactRow
      <3>2. /\ Reingested(s, X)[r].id \in {fact[r].id, fact[r].id + 1}
            /\ Reingested(s, X)[r].id <= MaxId
        BY <2>1, <3>1 DEF Reingested
      <3>3. Reingested(s, X)[r].id \in 0..MaxId
        BY <3>1, <3>2, BoundAssumption
      <3>4. /\ Reingested(s, X)[r] = [id |-> Reingested(s, X)[r].id, docs |-> Reingested(s, X)[r].docs]
            /\ Reingested(s, X)[r].docs \in SUBSET Statements
        BY <3>1 DEF Reingested
      <3>5. QED
        BY <3>3, <3>4 DEF FactRow
    <2>3. QED
      BY <2>1, <2>2 DEF Reingested
  <1>3. QED
    BY <1>1, <1>2

\* Approval posts command targets only.
LEMMA NewEntriesType == ASSUME NEW f, NEW s PROVE NewEntries(f, s) \subseteq Targets
  BY DEF NewEntries, ToPost, FactsIn

\* The job table's part of TypeOK.
JobTypeOK ==
    /\ job \in [Jobs -> JobRow]
    /\ \A j \in Jobs : job[j].phase = "idle" \/ job[j].on \in Statements

\* Ending a job, or queueing its run again, keeps the job table's types.
LEMMA ScheduleType ==
    ASSUME TypeOK, NEW j \in Jobs, job[j].phase # "idle", Reschedule(j) \/ Finish(j)
    PROVE  JobTypeOK'
  <1> USE DEF JobTypeOK
  <1>1. CASE Finish(j)
    BY <1>1, IdleJobType DEF Finish, TypeOK, IdleJob
  <1>2. CASE Reschedule(j) /\ job[j].durable /\ job[j].tries < MaxRetries
    <2> DEFINE again == [IdleJob EXCEPT !.phase = "queued", !.on = job[j].on,
                                        !.durable = TRUE, !.tries = job[j].tries + 1]
    <2>1. /\ job[j].on \in Statements \cup {NoStatement}
          /\ job[j].tries + 1 \in 0..MaxRetries
      BY <1>2, BoundAssumption DEF TypeOK, JobRow
    <2>2. again \in JobRow
      BY <2>1, IdleJobType DEF JobRow
    <2>3. job[j].phase = "idle" \/ job[j].on \in Statements
      BY DEF TypeOK
    <2>4. job' = [job EXCEPT ![j] = again]
      BY <1>2 DEF Reschedule
    <2>5. again.on = job[j].on
      BY DEF IdleJob
    <2>6. QED
      BY <2>2, <2>3, <2>4, <2>5 DEF TypeOK
  <1>3. CASE Reschedule(j) /\ ~(job[j].durable /\ job[j].tries < MaxRetries)
    <2>1. Finish(j)
      BY <1>3 DEF Reschedule
    <2>2. QED
      BY <1>1, <2>1
  <1>4. QED
    BY <1>1, <1>2, <1>3

\* Dispatching a parse of a statement keeps the job table's types.
LEMMA DispatchType ==
    ASSUME TypeOK, NEW s \in Statements, NEW how, NEW object, Dispatched(s, how, object)
    PROVE  JobTypeOK'
  <1> DEFINE new == [IdleJob EXCEPT !.phase = "queued", !.on = s, !.durable = (how = "flow")]
  <1>1. new \in JobRow /\ new.on = s
    BY IdleJobType DEF JobRow, IdleJob
  <1>2. \/ UNCHANGED job
        \/ \E j \in Jobs : job' = [job EXCEPT ![j] = new]
    BY DEF Dispatched
  <1>3. QED
    BY <1>1, <1>2 DEF TypeOK, JobTypeOK

(* What the commit of a parse writes.  The row, the facts and the entries depend on
   the rows it found and on the posting plan. *)
Commits(j, verdict, score, digest, X, plan) ==
    LET s        == job[j].on
        advanced == Advanced(Written(stmt[s], j, verdict, score, digest), digest)
    IN
    /\ stmt' = [stmt EXCEPT ![s] = Decided(advanced, plan)]
    /\ fact' = FactsAfter(s, verdict, X)
    /\ posted' = posted \cup (IF plan = "post" THEN NewEntries(fact', s) ELSE {})
    /\ Allowed(advanced, fact', s, plan)
    /\ fact' \in [Rows -> FactRow]

\* The commit of a parse is one of these, about a row that is there.
LEMMA FinishCommits ==
    ASSUME TypeOK, NEW j \in Jobs, NEW verdict \in Verdicts, NEW score \in Scores,
           NEW digest \in Results, JobFinish(j, verdict, score, digest)
    PROVE  /\ job[j].on \in Statements /\ stmt[job[j].on] \in StatementRow
           /\ Exists(job[j].on)
           /\ Written(stmt[job[j].on], j, verdict, score, digest) \in StatementRow
           /\ Advanced(Written(stmt[job[j].on], j, verdict, score, digest), digest) \in StatementRow
           /\ \E X \in SUBSET Rows, plan \in Plans : Commits(j, verdict, score, digest, X, plan)
  <1> DEFINE s == job[j].on
  <1>1. s \in Statements /\ stmt[s] \in StatementRow /\ Exists(s)
    BY DEF JobFinish, TypeOK
  <1>2. /\ Written(stmt[s], j, verdict, score, digest) \in StatementRow
        /\ Advanced(Written(stmt[s], j, verdict, score, digest), digest) \in StatementRow
    BY <1>1, WrittenType, AdvancedType
  <1>3. Found(s, verdict) \subseteq SUBSET Rows
    BY <1>1, SourceAssumption DEF Found
  <1>4. PICK X \in Found(s, verdict), plan \in Plans :
            LET f == FactsAfter(s, verdict, X)
                advanced == Advanced(Written(stmt[s], j, verdict, score, digest), digest)
            IN  /\ \A r \in Rows : f[r].id <= MaxId
                /\ Allowed(advanced, f, s, plan)
                /\ stmt' = [stmt EXCEPT ![s] = Decided(advanced, plan)]
                /\ fact' = f
                /\ posted' = posted \cup (IF plan = "post" THEN NewEntries(f, s) ELSE {})
    BY DEF JobFinish
  <1>5. fact' \in [Rows -> FactRow]
    BY <1>1, <1>4, FactsAfterType DEF TypeOK
  <1>6. QED
    BY <1>1, <1>2, <1>3, <1>4, <1>5 DEF Commits

-----------------------------------------------------------------------------
(* Type correctness *)

\* The commit of a parse keeps the types of all the tables it writes.
LEMMA FinishType ==
    ASSUME TypeOK, NEW j \in Jobs, NEW verdict \in Verdicts, NEW score \in Scores,
           NEW digest \in Results, JobFinish(j, verdict, score, digest)
    PROVE  TypeOK'
  <1> DEFINE s == job[j].on
             advanced == Advanced(Written(stmt[s], j, verdict, score, digest), digest)
  <1>1. PICK X \in SUBSET Rows, plan \in Plans : Commits(j, verdict, score, digest, X, plan)
    BY FinishCommits
  <1>2. s \in Statements /\ Decided(advanced, plan) \in StatementRow
    BY FinishCommits, DecidedType
  <1>3. stmt' \in [Statements -> StatementRow] /\ fact' \in [Rows -> FactRow]
    BY <1>1, <1>2 DEF Commits, TypeOK
  <1>4. posted' \subseteq Targets
    BY <1>1, NewEntriesType DEF Commits, TypeOK
  <1>5. JobTypeOK'
    BY ScheduleType DEF JobFinish
  <1>6. QED
    BY <1>3, <1>4, <1>5 DEF JobFinish, TypeOK, JobTypeOK

\* Every step keeps the types: one case per disjunct of Next.
LEMMA StepType ==
    ASSUME TypeOK, [Next]_vars
    PROVE  TypeOK'
  <1>1. ASSUME NEW s \in Statements, NEW how, Upload(s, how)
        PROVE  TypeOK'
    <2>1. [Absent EXCEPT !.status = "parsing", !.object = TRUE] \in StatementRow
      BY AbsentType DEF StatementRow, Status
    <2>2. JobTypeOK'
      BY <1>1, DispatchType DEF Upload
    <2>3. QED
      BY <1>1, <2>1, <2>2 DEF Upload, TypeOK, JobTypeOK
  <1>2. ASSUME NEW s \in Statements, NEW how, Reject(s, how)
        PROVE  TypeOK'
    <2>1. Rejected(stmt[s]) \in StatementRow
      BY RowWriteTypes DEF TypeOK
    <2>2. JobTypeOK'
      BY <1>2, DispatchType DEF Reject
    <2>3. QED
      BY <1>2, <2>1, <2>2 DEF Reject, TypeOK, JobTypeOK
  <1>3. ASSUME NEW s \in Statements, NEW how, RetryCommit(s, how)
        PROVE  TypeOK'
    <2>1. Reopened(stmt[s], loaded[s]) \in StatementRow
      BY RowWriteTypes DEF TypeOK
    <2>2. JobTypeOK'
      BY <1>3, DispatchType DEF RetryCommit, TypeOK, JobTypeOK
    <2>3. stmt' \in [Statements -> StatementRow]
      BY <1>3, <2>1 DEF RetryCommit, TypeOK
    <2>4. QED
      BY <1>3, <2>2, <2>3 DEF RetryCommit, TypeOK, JobTypeOK
  <1>4. ASSUME NEW s \in Statements, RetryCheck(s) \/ ApproveRead(s) \/ ApproveFails(s)
        PROVE  TypeOK'
    <2>1. NoApproval \in ApprovalRow /\ CopyOf(stmt[s]) \in ApprovalRow
      BY CopyType DEF NoApproval, ApprovalRow
    <2>2. QED
      BY <1>4, <2>1 DEF RetryCheck, ApproveRead, ApproveFails, Close, TypeOK
  <1>5. ASSUME NEW s \in Statements, ApprovePost(s)
        PROVE  TypeOK'
    <2>1. Confirmed(stmt[s], approval[s]) \in StatementRow /\ NewEntries(fact, s) \subseteq Targets
      BY RowWriteTypes, NewEntriesType DEF TypeOK
    <2>2. NoApproval \in ApprovalRow
      BY DEF NoApproval, ApprovalRow
    <2>3. QED
      BY <1>5, <2>1, <2>2 DEF ApprovePost, Close, TypeOK
  <1>6. ASSUME NEW s \in Statements, ApproveReview(s)
        PROVE  TypeOK'
    <2>1. ToReview(stmt[s]) \in StatementRow
      BY RowWriteTypes DEF TypeOK
    <2>2. NoApproval \in ApprovalRow
      BY DEF NoApproval, ApprovalRow
    <2>3. QED
      BY <1>6, <2>1, <2>2 DEF ApproveReview, Close, TypeOK
  <1>7. ASSUME NEW s \in Statements, ResolveConflicts(s) \/ SetOpening(s)
        PROVE  TypeOK'
    <2>1. /\ Stamp([stmt[s] EXCEPT !.resolved = "given"]) \in StatementRow
          /\ Stamp([stmt[s] EXCEPT !.manual = TRUE]) \in StatementRow
      BY FlagWriteTypes DEF TypeOK
    <2>2. \/ stmt' = [stmt EXCEPT ![s] = Stamp([stmt[s] EXCEPT !.resolved = "given"])]
          \/ stmt' = [stmt EXCEPT ![s] = Stamp([stmt[s] EXCEPT !.manual = TRUE])]
      BY <1>7 DEF ResolveConflicts, SetOpening
    <2>3. QED
      BY <1>7, <2>1, <2>2 DEF ResolveConflicts, SetOpening, TypeOK
  <1>8. ASSUME NEW s \in Statements, ConfirmEnvelope(s)
        PROVE  TypeOK'
    <2> DEFINE row == [ToReview(stmt[s]) EXCEPT !.reviewed = @ \cup {stmt[s].result},
                                                !.columns = Envelope[stmt[s].result],
                                                !.manual = FALSE]
    <2>1. ToReview(stmt[s]) \in StatementRow
      BY RowWriteTypes DEF TypeOK
    <2>2. stmt[s].result \in Reviewable /\ Envelope[stmt[s].result] \in [Columns -> Values]
      BY <1>8, ResultAssumption DEF ConfirmEnvelope
    <2>3. row \in StatementRow
      BY <2>1, <2>2 DEF StatementRow
    <2>4. stmt' = [stmt EXCEPT ![s] = row]
      BY <1>8 DEF ConfirmEnvelope
    <2>5. QED
      BY <1>8, <2>3, <2>4 DEF ConfirmEnvelope, TypeOK
  <1>9. ASSUME NEW s \in Statements, Delete(s)
        PROVE  TypeOK'
    <2>1. [Absent EXCEPT !.status = "deleted"] \in StatementRow
      BY AbsentType DEF StatementRow
    <2>2. [stmt[s] EXCEPT !.object = FALSE] \in StatementRow
      BY FlagWriteTypes DEF TypeOK
    <2>3. \/ stmt' = [stmt EXCEPT ![s] = [Absent EXCEPT !.status = "deleted"]]
          \/ stmt' = [stmt EXCEPT ![s] = [stmt[s] EXCEPT !.object = FALSE]]
      BY <1>9 DEF Delete
    <2>4. QED
      BY <1>9, <2>1, <2>2, <2>3 DEF Delete, TypeOK
  <1>10. ASSUME NEW s \in Statements, Age(s)
         PROVE  TypeOK'
    <2>1. [stmt[s] EXCEPT !.aged = TRUE] \in StatementRow
      BY FlagWriteTypes DEF TypeOK
    <2>2. stmt' = [stmt EXCEPT ![s] = [stmt[s] EXCEPT !.aged = TRUE]]
      BY <1>10 DEF Age
    <2>3. QED
      BY <1>10, <2>1, <2>2 DEF Age, TypeOK
  <1>11. ASSUME NEW j \in Jobs, JobStart(j)
         PROVE  TypeOK'
    <2> DEFINE s == job[j].on
               started == Loaded(job[j], stmt[s])
    <2>1. job[j] \in JobRow /\ s \in Statements /\ job[j].phase = "queued"
      BY <1>11 DEF JobStart, TypeOK
    <2>2. CASE Exists(s)
      <3>1. stmt[s] \in StatementRow /\ stmt[s].status \in Status
        BY <2>1, <2>2 DEF TypeOK, Exists
      <3>2. started \in JobRow /\ started.on = s
        BY <2>1, <3>1 DEF Loaded, JobRow, StatementRow
      <3>3. job' = [job EXCEPT ![j] = started]
        BY <1>11, <2>2 DEF JobStart
      <3>4. QED
        BY <1>11, <2>1, <3>2, <3>3 DEF JobStart, TypeOK
    <2>3. CASE ~Exists(s)
      <3>1. JobTypeOK'
        BY <1>11, <2>1, <2>3, ScheduleType DEF JobStart
      <3>2. QED
        BY <1>11, <3>1 DEF JobStart, TypeOK, JobTypeOK
    <2>4. QED
      BY <2>2, <2>3
  <1>12. ASSUME NEW j \in Jobs, JobError(j)
         PROVE  TypeOK'
    <2>1. JobTypeOK'
      BY <1>12, ScheduleType DEF JobError
    <2>2. QED
      BY <1>12, <2>1 DEF JobError, TypeOK, JobTypeOK
  <1>13. ASSUME NEW j \in Jobs, JobReject(j)
         PROVE  TypeOK'
    <2> DEFINE s == job[j].on
               row == Stamp([stmt[s] EXCEPT !.status = "rejected", !.score = "low"])
    <2>1. s \in Statements
      BY <1>13 DEF JobReject, TypeOK
    <2>2. row \in StatementRow
      BY <2>1, FlagWriteTypes DEF TypeOK
    <2>3. stmt' = [stmt EXCEPT ![s] = row] \/ UNCHANGED stmt
      BY <1>13 DEF JobReject
    <2>4. JobTypeOK'
      BY <1>13, ScheduleType DEF JobReject
    <2>5. QED
      BY <1>13, <2>2, <2>3, <2>4 DEF JobReject, TypeOK, JobTypeOK
  <1>14. ASSUME NEW j \in Jobs, WorkerCrash(j)
         PROVE  TypeOK'
    <2>1. JobTypeOK'
      BY <1>14, ScheduleType DEF WorkerCrash
    <2>2. QED
      BY <1>14, <2>1 DEF WorkerCrash, TypeOK, JobTypeOK
  <1>15. ASSUME NEW t \in Targets, Void(t)
         PROVE  TypeOK'
    BY <1>15 DEF Void, TypeOK
  <1>16. ASSUME SupervisorScan
         PROVE  TypeOK'
    BY <1>16 DEF SupervisorScan, StaleParsing, TypeOK
  <1>17. ASSUME SupervisorReset
         PROVE  TypeOK'
    <2>1. \A s \in Statements :
              Stamp([stmt[s] EXCEPT !.status = "rejected", !.score = "low"]) \in StatementRow
      BY FlagWriteTypes DEF TypeOK
    <2>2. stmt' \in [Statements -> StatementRow]
      BY <1>17, <2>1 DEF SupervisorReset, TypeOK
    <2>3. QED
      BY <1>17, <2>2 DEF SupervisorReset, TypeOK
  <1>18. ASSUME Crash
         PROVE  TypeOK'
    <2>1. NoApproval \in ApprovalRow
      BY DEF NoApproval, ApprovalRow
    <2>2. QED
      BY <1>18, <2>1, IdleJobType DEF Crash, TypeOK, IdleJob
  <1>19. ASSUME UNCHANGED vars
         PROVE  TypeOK'
    BY <1>19 DEF vars, TypeOK
  <1>20. QED
    BY <1>1, <1>2, <1>3, <1>4, <1>5, <1>6, <1>7, <1>8, <1>9, <1>10, <1>11, <1>12, <1>13,
       <1>14, <1>15, <1>16, <1>17, <1>18, <1>19, FinishType DEF Next

(* Every table keeps its shape: ids stay within their bound, a job that is not idle
   is about a statement, and no write puts a value no column admits. *)
THEOREM TypeCorrect == Spec => []TypeOK
  <1>1. Init => TypeOK
    <2>1. [id |-> 0, docs |-> {}] \in FactRow
      BY BoundAssumption DEF FactRow
    <2>2. IdleJob.phase = "idle" /\ NoApproval \in ApprovalRow
      BY DEF IdleJob, NoApproval, ApprovalRow
    <2>3. QED
      BY <2>1, <2>2, AbsentType, IdleJobType DEF Init, TypeOK
  <1>2. QED
    BY <1>1, StepType, PTL DEF Spec

-----------------------------------------------------------------------------
(* The ledger *)

(* What a step may do to the ledger: nothing; add one approved statement's new
   entries; or void one entry.  Only these three, whoever takes the step. *)
LedgerStep ==
    \/ UNCHANGED <<posted, voided>>
    \/ \E s \in Statements : posted' = posted \cup NewEntries(fact', s) /\ UNCHANGED voided
    \/ \E t \in posted : posted' = posted \ {t} /\ voided' = voided \cup {t}

\* Every step of the system is a LedgerStep.
LEMMA StepsLedger ==
    ASSUME TypeOK, [Next]_vars
    PROVE  LedgerStep
  <1> USE DEF LedgerStep
  <1>1. ASSUME NEW s \in Statements, ApprovePost(s)
        PROVE  LedgerStep
    BY <1>1 DEF ApprovePost
  <1>2. ASSUME NEW j \in Jobs, NEW verdict \in Verdicts, NEW score \in Scores,
               NEW digest \in Results, JobFinish(j, verdict, score, digest)
        PROVE  LedgerStep
    <2>1. PICK X \in SUBSET Rows, plan \in Plans : Commits(j, verdict, score, digest, X, plan)
      BY <1>2, FinishCommits
    <2>2. job[j].on \in Statements /\ UNCHANGED voided
      BY <1>2, FinishCommits DEF JobFinish
    <2>3. CASE plan = "post"
      BY <2>1, <2>2, <2>3 DEF Commits
    <2>4. CASE plan # "post"
      BY <2>1, <2>2, <2>4 DEF Commits
    <2>5. QED
      BY <2>3, <2>4
  <1>3. ASSUME NEW t \in Targets, Void(t)
        PROVE  LedgerStep
    BY <1>3 DEF Void
  <1>4. QED
    BY <1>1, <1>2, <1>3
       DEF Next, vars, Upload, Reject, RetryCheck, RetryCommit, ApproveRead, ApproveReview,
           ApproveFails, ResolveConflicts, ConfirmEnvelope, SetOpening, Delete, Age, JobStart, JobError, JobReject, WorkerCrash,
           SupervisorScan, SupervisorReset, Crash

\* A target is live or voided, never both.
PostedOrVoided == posted \cap voided = {}

(* A voided entry stays voided and its command target is never posted again,
   whatever is retried, parsed again or approved again. *)
THEOREM VoidsAreFinal == Spec => VoidIsFinal
  <1>1. Init => PostedOrVoided
    BY DEF Init, PostedOrVoided
  <1>2. ASSUME TypeOK, PostedOrVoided, [Next]_vars
        PROVE  /\ PostedOrVoided'
               /\ voided \subseteq voided' /\ posted' \cap voided = {}
    <2>1. LedgerStep
      BY <1>2, StepsLedger
    <2>2. QED
      BY <1>2, <2>1 DEF LedgerStep, NewEntries, ToPost, PostedOrVoided
  <1>3. QED
    BY <1>1, <1>2, TypeCorrect, PTL DEF Spec, VoidIsFinal

-----------------------------------------------------------------------------
(* The row a step leaves *)

\* The dual write moves the status and the score unless the job's copy had them.
LEMMA WrittenRow ==
    ASSUME NEW row \in StatementRow, NEW j, NEW verdict, NEW score, NEW digest
    PROVE  LET out == Written(row, j, verdict, score, digest) IN
           /\ out.status = IF ResultStatus(verdict) = job[j].status THEN row.status
                                                                     ELSE ResultStatus(verdict)
           /\ out.score = IF score = job[j].score THEN row.score ELSE score
  <1> DEFINE status == IF ResultStatus(verdict) = job[j].status THEN row.status
                                                                ELSE ResultStatus(verdict)
             stage1 == IF job[j].unset /\ ResultStage1(verdict) # "null"
                         THEN ResultStage1(verdict) ELSE row.stage1
             columns == [c \in Columns |-> IF Facts[digest][c] = job[j].columns[c]
                                             THEN row.columns[c] ELSE Facts[digest][c]]
             new == IF score = job[j].score THEN row.score ELSE score
  <1>1. Written(row, j, verdict, score, digest) =
            Stamp([row EXCEPT !.status = status, !.stage1 = stage1, !.columns = columns,
                              !.score = new])
    BY DEF Written
  <1> HIDE DEF status, stage1, columns, new
  <1>2. /\ Written(row, j, verdict, score, digest).status = status
        /\ Written(row, j, verdict, score, digest).score = new
    BY <1>1 DEF Stamp, StatementRow
  <1>3. QED
    BY <1>2 DEF status, new

\* A parse leaves the row pointing at its own digest, and approves nothing itself.
LEMMA AdvancedRow ==
    ASSUME NEW row \in StatementRow, NEW digest \in Results
    PROVE  /\ Advanced(row, digest).result = digest
           /\ Advanced(row, digest).status \in {row.status, "parsed"}
           /\ Advanced(row, digest).score = row.score
  BY DEF Advanced, ToReview, Stamp, StatementRow

\* The automatic approval writes the two status columns only, and approves nothing
\* except by posting.
LEMMA DecidedRow ==
    ASSUME NEW row \in StatementRow, NEW plan \in Plans
    PROVE  LET out == Decided(row, plan) IN
           /\ out.result = row.result
           /\ out.reviewed = row.reviewed
           /\ out.columns = row.columns
           /\ out.manual = row.manual
           /\ out.resolved = row.resolved
           /\ plan = "post" => out.status = "approved" /\ out.stage1 = "approved"
           /\ plan = "review" => out.status = "parsed"
           /\ plan \in {"none", "broker"} => out.status = row.status
  <1>1. CASE plan = "post"
    BY <1>1 DEF Decided, Approved, Stamp, StatementRow
  <1>2. CASE plan = "review"
    BY <1>2 DEF Decided, ToReview, Stamp, StatementRow
  <1>3. CASE plan \in {"none", "broker"}
    BY <1>3 DEF Decided, Brokered, StatementRow
  <1>4. QED
    BY <1>1, <1>2, <1>3 DEF Plans

(* What a step other than the commit of a parse may make of a row: it keeps the
   result; removes only a row that has none; and leaves the row approved only with
   the columns its trust is read from, either as it was or by an approval. *)
RowWrite(u, row) ==
    /\ row.result = stmt[u].result \/ (~Exists(u) /\ row.result = "none")
    /\ row.status \notin Status => ~Exists(u) \/ stmt[u].result = "none"
    /\ row.status = "approved" =>
        /\ row.result = stmt[u].result
        /\ row.reviewed = stmt[u].reviewed
        /\ row.columns = stmt[u].columns
        /\ stmt[u].manual => row.manual
        /\ \/ stmt[u].status = "approved" /\ row.stage1 = stmt[u].stage1
           \/ ApprovePost(u)

\* It is enough to look at the row that is written.
LEMMA OneRow ==
    ASSUME TypeOK, NEW s \in Statements, NEW row, stmt' = [stmt EXCEPT ![s] = row],
           RowWrite(s, row)
    PROVE  \A u \in Statements : RowWrite(u, stmt'[u])
  <1>1. stmt'[s] = row /\ \A u \in Statements \ {s} : stmt'[u] = stmt[u]
    BY DEF TypeOK
  <1>2. \A u \in Statements : RowWrite(u, stmt[u])
    BY DEF RowWrite, Exists
  <1>3. QED
    BY <1>1, <1>2

\* The writes that end in another status than approved.
LEMMA OtherStatus ==
    ASSUME TypeOK, NEW s \in Statements, Exists(s)
    PROVE  /\ RowWrite(s, Rejected(stmt[s]))
           /\ RowWrite(s, ToReview(stmt[s]))
           /\ \A read : RowWrite(s, Reopened(stmt[s], read))
           /\ RowWrite(s, Stamp([stmt[s] EXCEPT !.status = "rejected", !.score = "low"]))
  <1>1. stmt[s] \in StatementRow /\ RowWrite(s, stmt[s])
    BY DEF TypeOK, RowWrite, Exists
  <1>2. ASSUME NEW row, row.result = stmt[s].result, row.status \in Status \ {"approved"}
        PROVE  RowWrite(s, row)
    BY <1>2 DEF RowWrite
  <1>3. RowWrite(s, Rejected(stmt[s]))
    <2> DEFINE row == Rejected(stmt[s])
    <2>1. row.result = stmt[s].result /\ row.status \in Status \ {"approved"}
      BY <1>1 DEF Rejected, Stamp, StatementRow, Status
    <2>2. QED
      BY <1>2, <2>1
  <1>4. RowWrite(s, ToReview(stmt[s]))
    <2> DEFINE row == ToReview(stmt[s])
    <2>1. row.result = stmt[s].result /\ row.status \in Status \ {"approved"}
      BY <1>1 DEF ToReview, Stamp, StatementRow, Status
    <2>2. QED
      BY <1>2, <2>1
  <1>5. ASSUME NEW read PROVE RowWrite(s, Reopened(stmt[s], read))
    <2>1. CASE read = "parsing"
      BY <1>1, <2>1 DEF Reopened
    <2>2. CASE read # "parsing"
      <3> DEFINE row == Reopened(stmt[s], read)
      <3>1. row.result = stmt[s].result /\ row.status \in Status \ {"approved"}
        BY <1>1, <2>2 DEF Reopened, Stamp, StatementRow, Status
      <3>2. QED
        BY <1>2, <3>1
    <2>3. QED
      BY <2>1, <2>2
  <1>6. RowWrite(s, Stamp([stmt[s] EXCEPT !.status = "rejected", !.score = "low"]))
    <2> DEFINE row == Stamp([stmt[s] EXCEPT !.status = "rejected", !.score = "low"])
    <2>1. row.result = stmt[s].result /\ row.status \in Status \ {"approved"}
      BY <1>1 DEF Stamp, StatementRow, Status
    <2>2. QED
      BY <1>2, <2>1
  <1>7. QED
    BY <1>3, <1>4, <1>5, <1>6

\* A parse of some statement commits.
SomeFinish ==
    \E j \in Jobs, verdict \in Verdicts, score \in Scores, digest \in Results :
        JobFinish(j, verdict, score, digest)

\* Every step but the commit of a parse writes rows so.
LEMMA StepsRow ==
    ASSUME TypeOK, [Next]_vars, ~SomeFinish
    PROVE  \A u \in Statements : RowWrite(u, stmt'[u])
  <1> DEFINE Goal == \A u \in Statements : RowWrite(u, stmt'[u])
  <1>1. ASSUME NEW s \in Statements, NEW how, Upload(s, how)
        PROVE  Goal
    <2> DEFINE row == [Absent EXCEPT !.status = "parsing", !.object = TRUE]
    <2>1. ~Exists(s) /\ stmt' = [stmt EXCEPT ![s] = row]
      BY <1>1 DEF Upload, Exists, Status
    <2>2. row.result = "none" /\ row.status = "parsing"
      BY DEF Absent
    <2>3. RowWrite(s, row)
      BY <2>1, <2>2 DEF RowWrite
    <2>4. QED
      BY <2>1, <2>3, OneRow
  <1>2. ASSUME NEW s \in Statements, NEW how, Reject(s, how)
        PROVE  Goal
    BY <1>2, OneRow, OtherStatus DEF Reject
  <1>3. ASSUME NEW s \in Statements, NEW how, RetryCommit(s, how)
        PROVE  Goal
    <2>1. CASE UNCHANGED stmt
      BY <2>1 DEF RowWrite, Exists
    <2>2. CASE Exists(s) /\ stmt' = [stmt EXCEPT ![s] = Reopened(stmt[s], loaded[s])]
      BY <2>2, OneRow, OtherStatus
    <2>3. QED
      BY <1>3, <2>1, <2>2 DEF RetryCommit
  <1>4. ASSUME NEW s \in Statements, ApprovePost(s)
        PROVE  Goal
    <2> DEFINE row == Confirmed(stmt[s], approval[s])
    <2>1. /\ stmt[s] \in StatementRow /\ Exists(s)
          /\ stmt' = [stmt EXCEPT ![s] = row]
      BY <1>4 DEF ApprovePost, CanConfirm, TypeOK
    <2>2. /\ row.result = stmt[s].result /\ row.reviewed = stmt[s].reviewed
          /\ row.columns = stmt[s].columns /\ row.manual = stmt[s].manual
          /\ row.status \in {stmt[s].status, "approved"}
      BY <2>1 DEF Confirmed, Stamp, StatementRow
    <2>3. RowWrite(s, row)
      BY <1>4, <2>1, <2>2 DEF RowWrite, Exists, Status
    <2>4. QED
      BY <2>1, <2>3, OneRow
  <1>5. ASSUME NEW s \in Statements, ApproveReview(s)
        PROVE  Goal
    BY <1>5, OneRow, OtherStatus DEF ApproveReview, CanConfirm
  <1>6. ASSUME NEW s \in Statements, ConfirmEnvelope(s)
        PROVE  Goal
    <2> DEFINE row == [ToReview(stmt[s]) EXCEPT !.reviewed = @ \cup {stmt[s].result},
                                                !.columns = Envelope[stmt[s].result],
                                                !.manual = FALSE]
    <2>1. row.result = stmt[s].result /\ row.status = "parsed"
      BY DEF ToReview, Stamp, TypeOK, StatementRow
    <2>2. stmt' = [stmt EXCEPT ![s] = row]
      BY <1>6 DEF ConfirmEnvelope
    <2>3. RowWrite(s, row)
      BY <2>1 DEF RowWrite, Status
    <2>4. QED
      BY <2>2, <2>3, OneRow
  <1>7. ASSUME NEW s \in Statements, Delete(s)
        PROVE  Goal
    <2>1. CASE Deletable(s) /\ stmt' = [stmt EXCEPT ![s] = [Absent EXCEPT !.status = "deleted"]]
      <3> DEFINE row == [Absent EXCEPT !.status = "deleted"]
      <3>1. row.result = "none" /\ row.status = "deleted"
        BY DEF Absent
      <3>2. RowWrite(s, row)
        BY <2>1, <3>1 DEF RowWrite, Deletable
      <3>3. QED
        BY <2>1, <3>2, OneRow
    <2>2. CASE Exists(s) /\ stmt' = [stmt EXCEPT ![s] = [stmt[s] EXCEPT !.object = FALSE]]
      <3>1. RowWrite(s, [stmt[s] EXCEPT !.object = FALSE])
        BY <2>2 DEF RowWrite, TypeOK, StatementRow, Exists
      <3>2. QED
        BY <2>2, <3>1, OneRow
    <2>3. QED
      BY <1>7, <2>1, <2>2 DEF Delete
  <1>8. ASSUME NEW s \in Statements, ResolveConflicts(s) \/ SetOpening(s) \/ Age(s)
        PROVE  Goal
    <2> DEFINE given  == Stamp([stmt[s] EXCEPT !.resolved = "given"])
               opened == Stamp([stmt[s] EXCEPT !.manual = TRUE])
               aged   == [stmt[s] EXCEPT !.aged = TRUE]
    <2>1. \E row \in {given, opened, aged} : stmt' = [stmt EXCEPT ![s] = row]
      BY <1>8 DEF ResolveConflicts, SetOpening, Age
    <2>2. ASSUME NEW row \in {given, opened, aged} PROVE RowWrite(s, row)
      <3>1. /\ row.result = stmt[s].result /\ row.reviewed = stmt[s].reviewed
            /\ row.columns = stmt[s].columns /\ row.status = stmt[s].status
            /\ row.stage1 = stmt[s].stage1 /\ (stmt[s].manual => row.manual)
        BY <2>2 DEF Stamp, TypeOK, StatementRow
      <3>2. QED
        BY <3>1 DEF RowWrite, Exists
    <2>3. QED
      BY <2>1, <2>2, OneRow
  <1>9. ASSUME NEW j \in Jobs, JobReject(j)
        PROVE  Goal
    <2>1. job[j].on \in Statements
      BY <1>9 DEF JobReject, TypeOK
    <2>2. CASE UNCHANGED stmt
      BY <2>2 DEF RowWrite, Exists
    <2>3. CASE /\ Exists(job[j].on)
               /\ stmt' = [stmt EXCEPT ![job[j].on] =
                            Stamp([stmt[job[j].on] EXCEPT !.status = "rejected", !.score = "low"])]
      BY <2>1, <2>3, OneRow, OtherStatus
    <2>4. QED
      BY <1>9, <2>2, <2>3 DEF JobReject
  <1>10. ASSUME SupervisorReset
         PROVE  Goal
    <2> SUFFICES ASSUME NEW u \in Statements PROVE RowWrite(u, stmt'[u])
      OBVIOUS
    <2>1. CASE stmt'[u] = stmt[u]
      BY <2>1 DEF RowWrite, Exists
    <2>2. CASE /\ Exists(u)
               /\ stmt'[u] = Stamp([stmt[u] EXCEPT !.status = "rejected", !.score = "low"])
      BY <2>2, OtherStatus
    <2>3. QED
      BY <1>10, <2>1, <2>2 DEF SupervisorReset
  <1>11. ASSUME UNCHANGED stmt
         PROVE  Goal
    BY <1>11 DEF RowWrite, Exists
  <1>12. QED
    BY <1>1, <1>2, <1>3, <1>4, <1>5, <1>6, <1>7, <1>8, <1>9, <1>10, <1>11
       DEF Next, SomeFinish, vars, RetryCheck, ApproveRead, ApproveFails, JobStart, JobError,
           WorkerCrash, Void, SupervisorScan, Crash

-----------------------------------------------------------------------------
(* Facts *)

(* What a parse of s leaves of the facts of another document u: the same rows,
   under the same ids. *)
LEMMA OthersKept ==
    ASSUME TypeOK, NEW s \in Statements, NEW u \in Statements \ {s}, NEW verdict, NEW X,
           NEW r \in Rows
    PROVE  /\ u \in FactsAfter(s, verdict, X)[r].docs <=> u \in fact[r].docs
           /\ u \in fact[r].docs => FactsAfter(s, verdict, X)[r].id = fact[r].id
  <1>1. CASE verdict = "quarantined"
    BY <1>1 DEF FactsAfter
  <1>2. CASE verdict # "quarantined"
    BY <1>2 DEF FactsAfter, Reingested
  <1>3. QED
    BY <1>1, <1>2

\* So its facts, as the targets their entries would have, are the same.
LEMMA OthersFactsKept ==
    ASSUME TypeOK, NEW s \in Statements, NEW u \in Statements \ {s}, NEW verdict, NEW X
    PROVE  FactsIn(FactsAfter(s, verdict, X), u) = FactsOf(u)
  <1> DEFINE f == FactsAfter(s, verdict, X)
  <1>1. ASSUME NEW t \in Targets
        PROVE  (u \in f[t[1]].docs /\ t[2] = f[t[1]].id)
               <=> (u \in fact[t[1]].docs /\ t[2] = fact[t[1]].id)
    <2>1. t[1] \in Rows
      BY DEF Targets
    <2>2. QED
      BY <2>1, OthersKept
  <1>2. QED
    BY <1>1 DEF FactsIn, FactsOf

\* Every step but the commit of a parse leaves the facts alone.
LEMMA OnlyFinishWritesFacts ==
    ASSUME [Next]_vars, ~SomeFinish
    PROVE  UNCHANGED fact
  BY DEF SomeFinish, Next, vars, Upload, Reject, RetryCheck, RetryCommit, ApproveRead, ApprovePost,
         ApproveReview, ApproveFails, ResolveConflicts, ConfirmEnvelope, SetOpening, Delete,
         Age, JobStart, JobError, JobReject, WorkerCrash, Void, SupervisorScan,
         SupervisorReset, Crash

\* The commit of a parse leaves the facts of other statements.
LEMMA FinishKeepsOthers ==
    ASSUME TypeOK, NEW j \in Jobs, NEW verdict \in Verdicts, NEW score \in Scores,
           NEW digest \in Results, JobFinish(j, verdict, score, digest),
           NEW u \in Statements \ {job[j].on}
    PROVE  /\ stmt'[u] = stmt[u]
           /\ FactsIn(fact', u) = FactsOf(u)
           /\ \A r \in Rows : u \in fact'[r].docs <=> u \in fact[r].docs
  <1>1. PICK X \in SUBSET Rows, plan \in Plans : Commits(j, verdict, score, digest, X, plan)
    BY FinishCommits
  <1>2. job[j].on \in Statements /\ fact' = FactsAfter(job[j].on, verdict, X)
    BY <1>1, FinishCommits DEF Commits
  <1>3. stmt'[u] = stmt[u]
    BY <1>1 DEF Commits, TypeOK
  <1>4. FactsIn(fact', u) = FactsOf(u)
    BY <1>2, OthersFactsKept
  <1>5. \A r \in Rows : u \in fact'[r].docs <=> u \in fact[r].docs
    BY <1>2, OthersKept
  <1>6. QED
    BY <1>3, <1>4, <1>5

(* A parse of one statement never takes, adds or renumbers a fact of another, for
   any overlap of their files and any number of jobs. *)
THEOREM FactsAreIsolated == Spec => FactIsolation
  <1> DEFINE Step == \A s, u \in Statements :
                s # u /\ FactsIn(fact', s) # FactsOf(s) => FactsIn(fact', u) = FactsOf(u)
  <1>1. ASSUME TypeOK, [Next]_vars
        PROVE  Step
    <2>1. CASE ~SomeFinish
      BY <1>1, <2>1, OnlyFinishWritesFacts DEF FactsOf
    <2>2. ASSUME NEW j \in Jobs, NEW verdict \in Verdicts, NEW score \in Scores,
                 NEW digest \in Results, JobFinish(j, verdict, score, digest)
          PROVE  Step
      BY <1>1, <2>2, FinishKeepsOthers
    <2>3. QED
      BY <2>1, <2>2 DEF SomeFinish
  <1>2. QED
    BY <1>1, TypeCorrect, PTL DEF Spec, FactIsolation

(* A statement without an extraction result sources no fact, and one that is not
   there has no extraction result: the inductive form of DeletedLeavesNothing. *)
NoResultNoFacts ==
    \A s \in Statements :
        /\ ~Exists(s) => stmt[s].result = "none"
        /\ stmt[s].result = "none" => \A r \in Rows : s \notin fact[r].docs

\* A job leaves its statement a row with an extraction result, so the facts it
\* writes have one.
LEMMA FinishLeavesResult ==
    ASSUME TypeOK, NEW j \in Jobs, NEW verdict \in Verdicts, NEW score \in Scores,
           NEW digest \in Results, JobFinish(j, verdict, score, digest)
    PROVE  /\ job[j].on \in Statements
           /\ stmt'[job[j].on].result = digest
           /\ stmt'[job[j].on].status \in Status
  <1> DEFINE s == job[j].on
             written == Written(stmt[s], j, verdict, score, digest)
             advanced == Advanced(written, digest)
  <1>1. /\ s \in Statements /\ stmt[s].status \in Status
        /\ stmt[s] \in StatementRow /\ written \in StatementRow /\ advanced \in StatementRow
    BY FinishCommits DEF Exists
  <1>2. PICK X \in SUBSET Rows, plan \in Plans : Commits(j, verdict, score, digest, X, plan)
    BY FinishCommits
  <1>3. written.status \in Status
    <2>1. ResultStatus(verdict) \in Status
      BY DEF ResultStatus, Status, Verdicts
    <2>2. QED
      BY <1>1, <2>1, WrittenRow
  <1>4. advanced.status \in Status /\ advanced.result = digest
    BY <1>1, <1>3, AdvancedRow DEF Status
  <1>5. Decided(advanced, plan).status \in Status /\ Decided(advanced, plan).result = digest
    BY <1>1, <1>2, <1>4, DecidedRow DEF Status, Plans
  <1>6. stmt'[s] = Decided(advanced, plan)
    BY <1>1, <1>2 DEF Commits, TypeOK
  <1>7. QED
    BY <1>1, <1>5, <1>6

(* A deleted statement leaves no facts behind, however many jobs outlive it. *)
THEOREM DeletedSourcesNothing == Spec => []DeletedLeavesNothing
  <1>1. Init => NoResultNoFacts
    BY DEF Init, NoResultNoFacts, Absent
  <1>2. ASSUME TypeOK, NoResultNoFacts, [Next]_vars
        PROVE  NoResultNoFacts'
    <2> DEFINE Holds(s) ==
                 /\ stmt'[s].status \notin Status => stmt'[s].result = "none"
                 /\ stmt'[s].result = "none" => \A r \in Rows : s \notin fact'[r].docs
    <2>1. ASSUME NEW j \in Jobs, NEW verdict \in Verdicts, NEW score \in Scores,
                 NEW digest \in Results, JobFinish(j, verdict, score, digest),
                 NEW u \in Statements
          PROVE  Holds(u)
      <3>1. CASE u = job[j].on
        BY <1>2, <2>1, <3>1, FinishLeavesResult, ResultAssumption
      <3>2. CASE u # job[j].on
        BY <1>2, <2>1, <3>2, FinishKeepsOthers DEF NoResultNoFacts, Exists
      <3>3. QED
        BY <3>1, <3>2
    <2>2. ASSUME ~SomeFinish, NEW u \in Statements
          PROVE  Holds(u)
      <3>1. UNCHANGED fact /\ RowWrite(u, stmt'[u])
        BY <1>2, <2>2, OnlyFinishWritesFacts, StepsRow
      <3>2. QED
        BY <1>2, <3>1 DEF NoResultNoFacts, RowWrite, Exists
    <2>3. \A u \in Statements : Holds(u)
      BY <2>1, <2>2 DEF SomeFinish
    <2>4. QED
      BY <2>3 DEF NoResultNoFacts, Exists
  <1>3. NoResultNoFacts => DeletedLeavesNothing
    <2>1. ASSUME NoResultNoFacts, NEW s \in Statements, stmt[s].status = "deleted"
          PROVE  FactsOf(s) = {}
      <3>1. \A r \in Rows : s \notin fact[r].docs
        BY <2>1 DEF NoResultNoFacts, Exists, Status
      <3>2. QED
        BY <3>1 DEF FactsOf, FactsIn, Targets
    <2>2. QED
      BY <2>1 DEF DeletedLeavesNothing
  <1>4. QED
    BY <1>1, <1>2, <1>3, TypeCorrect, PTL DEF Spec

=============================================================================
