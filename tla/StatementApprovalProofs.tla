----------------------- MODULE StatementApprovalProofs -----------------------
(***************************************************************************)
(* What the commits of parses and approvals do to StatementLifecycle, for  *)
(* all values of its constants: which of them may leave a statement        *)
(* approved and unsettled, approved and untrusted, or rejected with other  *)
(* facts, and what an approval posts.                                      *)
(***************************************************************************)
EXTENDS StatementLifecycleProofs

-----------------------------------------------------------------------------
(* Commits on a current copy *)

\* A parse whose row is still what it loaded writes the status and the score it
\* concluded with.
LEMMA CurrentCopyWrites ==
    ASSUME TypeOK, NEW j \in Jobs, job[j].on \in Statements,
           job[j] = Loaded(job[j], stmt[job[j].on]), NEW verdict, NEW score, NEW digest
    PROVE  LET written == Written(stmt[job[j].on], j, verdict, score, digest) IN
           written.status = ResultStatus(verdict) /\ written.score = score
  <1>1. job[j] \in JobRow /\ stmt[job[j].on] \in StatementRow
    BY DEF TypeOK
  <1>2. /\ Loaded(job[j], stmt[job[j].on]).status = stmt[job[j].on].status
        /\ Loaded(job[j], stmt[job[j].on]).score = stmt[job[j].on].score
    BY <1>1 DEF Loaded, JobRow
  <1>3. job[j].status = stmt[job[j].on].status /\ job[j].score = stmt[job[j].on].score
    BY <1>2
  <1>4. QED
    BY <1>1, <1>3, WrittenRow

\* So it leaves the row approved only by posting, and rejected only if the
\* extraction was quarantined.
LEMMA CurrentFinish ==
    ASSUME TypeOK, NEW j \in Jobs, NEW verdict \in Verdicts, NEW score \in Scores,
           NEW digest \in Results, JobFinish(j, verdict, score, digest),
           job[j] = Loaded(job[j], stmt[job[j].on]),
           NEW X \in SUBSET Rows, NEW plan \in Plans, Commits(j, verdict, score, digest, X, plan)
    PROVE  /\ stmt'[job[j].on].status = "approved" => plan = "post"
           /\ stmt'[job[j].on].status = "rejected" => verdict = "quarantined"
  <1> DEFINE s == job[j].on
             written == Written(stmt[s], j, verdict, score, digest)
             advanced == Advanced(written, digest)
  <1>1. s \in Statements /\ written \in StatementRow /\ advanced \in StatementRow
    BY FinishCommits
  <1>2. written.status = ResultStatus(verdict) /\ written.score = score
    BY <1>1, CurrentCopyWrites
  <1>3. advanced.status \in {ResultStatus(verdict), "parsed"} /\ advanced.score = score
    BY <1>1, <1>2, AdvancedRow
  <1>4. stmt'[s] = Decided(advanced, plan)
    BY <1>1 DEF Commits, TypeOK
  <1>5. CASE plan \in {"none", "broker"}
    <2>1. Decided(advanced, plan).status = advanced.status
      BY <1>1, <1>5, DecidedRow
    <2>2. ~(advanced.status = "approved" /\ advanced.score = "high")
      BY <1>5 DEF Commits, Allowed
    <2>3. verdict = "approved" => score = "high"
      BY ConclusionAssumption DEF JobFinish
    <2>4. QED
      BY <1>3, <1>4, <2>1, <2>2, <2>3 DEF ResultStatus, Verdicts
  <1>6. CASE plan \in {"post", "review"}
    BY <1>1, <1>4, <1>6, DecidedRow
  <1>7. QED
    BY <1>5, <1>6 DEF Plans

\* Adding a statement's new entries covers each of its facts and posts nothing else.
LEMMA NewEntriesCover ==
    ASSUME NEW f, NEW s, posted' = posted \cup NewEntries(f, s), UNCHANGED voided
    PROVE  /\ posted' \ posted \subseteq FactsIn(f, s)
           /\ \A t \in FactsIn(f, s) : Covered(posted', voided', t)
  BY DEF NewEntries, ToPost, Covered

\* A parse that posts leaves its statement approved, sound and with its conflicts
\* answered, and posts its whole plan.
LEMMA PostingFinish ==
    ASSUME TypeOK, NEW j \in Jobs, NEW verdict \in Verdicts, NEW score \in Scores,
           NEW digest \in Results, JobFinish(j, verdict, score, digest),
           NEW X \in SUBSET Rows, Commits(j, verdict, score, digest, X, "post")
    PROVE  LET s == job[j].on IN
           /\ s \in Statements
           /\ stmt'[s].status = "approved" /\ stmt'[s].stage1 = "approved"
           /\ Sound(stmt'[s])
           /\ Conflicted(fact', s) => stmt'[s].resolved # "no"
           /\ posted' \ posted \subseteq FactsIn(fact', s)
           /\ \A t \in FactsIn(fact', s) : Covered(posted', voided', t)
  <1> DEFINE s == job[j].on
             advanced == Advanced(Written(stmt[s], j, verdict, score, digest), digest)
             row == Decided(advanced, "post")
  <1>1. s \in Statements /\ advanced \in StatementRow
    BY FinishCommits
  <1>2. stmt'[s] = row
    BY <1>1 DEF Commits, TypeOK
  <1>3. /\ row.status = "approved" /\ row.stage1 = "approved"
        /\ row.result = advanced.result /\ row.reviewed = advanced.reviewed
        /\ row.columns = advanced.columns /\ row.manual = advanced.manual
        /\ row.resolved = advanced.resolved
    BY <1>1, DecidedRow DEF Plans
  <1>4. Sound(advanced) /\ Answered(fact', s, advanced.resolved # "no")
    BY DEF Commits, Allowed, Approvable
  <1>5. Sound(row)
    BY <1>3, <1>4 DEF Sound, Trusted, Filled
  <1>6. Conflicted(fact', s) => row.resolved # "no"
    BY <1>3, <1>4 DEF Answered
  <1>7. posted' = posted \cup NewEntries(fact', s) /\ UNCHANGED voided
    BY DEF Commits, JobFinish
  <1>8. QED
    BY <1>1, <1>2, <1>3, <1>5, <1>6, <1>7, NewEntriesCover

\* An approval whose request read the row as it is leaves both status columns
\* approved and the rest of the row alone.
LEMMA CurrentApproval ==
    ASSUME TypeOK, NEW s \in Statements, ApprovePost(s), approval[s] = CopyOf(stmt[s])
    PROVE  /\ stmt'[s].status = "approved" /\ stmt'[s].stage1 = "approved"
           /\ stmt'[s].result = stmt[s].result /\ stmt'[s].reviewed = stmt[s].reviewed
           /\ stmt'[s].columns = stmt[s].columns /\ stmt'[s].manual = stmt[s].manual
           /\ stmt'[s].resolved = stmt[s].resolved
           /\ Conflicted(fact', s) => stmt'[s].resolved # "no"
  <1>1. stmt[s] \in StatementRow /\ stmt'[s] = Confirmed(stmt[s], approval[s]) /\ UNCHANGED fact
    BY DEF ApprovePost, TypeOK
  <1>2. /\ approval[s].approved = (stmt[s].status = "approved")
        /\ approval[s].reviewed = (stmt[s].stage1 = "approved")
        /\ approval[s].answered = (stmt[s].resolved # "no")
    BY DEF CopyOf
  <1>3. /\ stmt'[s].status = "approved" /\ stmt'[s].stage1 = "approved"
        /\ stmt'[s].result = stmt[s].result /\ stmt'[s].reviewed = stmt[s].reviewed
        /\ stmt'[s].columns = stmt[s].columns /\ stmt'[s].manual = stmt[s].manual
        /\ stmt'[s].resolved = stmt[s].resolved
    BY <1>1, <1>2 DEF Confirmed, Stamp, StatementRow
  <1>4. Conflicted(fact, s) => stmt[s].resolved # "no"
    BY <1>2 DEF ApprovePost, CanConfirm, Answered
  <1>5. QED
    BY <1>1, <1>3, <1>4

-----------------------------------------------------------------------------
(* Settled statements *)

\* What covers a fact is never undone: a void leaves the target voided.
LEMMA StaysCovered ==
    ASSUME TypeOK, [Next]_vars, NEW t, Covered(posted, voided, t)
    PROVE  Covered(posted', voided', t)
  BY StepsLedger DEF LedgerStep, Covered

\* A statement whose status columns and facts a step leaves alone stays settled.
LEMMA StaysSettled ==
    ASSUME TypeOK, [Next]_vars, NEW s \in Statements, Settled(s),
           stmt'[s].stage1 = stmt[s].stage1, FactsIn(fact', s) = FactsOf(s)
    PROVE  Settled(s)'
  <1>1. FactsOf(s)' = FactsIn(fact', s)
    BY DEF FactsOf
  <1>2. \A t \in FactsOf(s)' : Covered(posted', voided', t)
    BY <1>1, StaysCovered DEF Settled
  <1>3. QED
    BY <1>2 DEF Settled

(* A statement becomes approved and unsettled by an overtaken commit only, for any
   number of statements, jobs, requests, retries and crashes. *)
THEOREM ApprovedStaysSettled == Spec => SettledUnlessOvertaken
  <1>1. ASSUME TypeOK, [Next]_vars, NEW u \in Statements,
               stmt'[u].status = "approved", ~Settled(u)', ~OvertakenCommit(u)
        PROVE  stmt[u].status = "approved" /\ ~Settled(u)
    <2>1. ASSUME NEW j \in Jobs, NEW verdict \in Verdicts, NEW score \in Scores,
                 NEW digest \in Results, JobFinish(j, verdict, score, digest)
          PROVE  stmt[u].status = "approved" /\ ~Settled(u)
      <3>1. CASE u = job[j].on
        <4>1. job[j] = Loaded(job[j], stmt[u])
          BY <1>1, <2>1, <3>1 DEF OvertakenCommit, OvertakenParse
        <4>2. PICK X \in SUBSET Rows, plan \in Plans : Commits(j, verdict, score, digest, X, plan)
          BY <1>1, <2>1, FinishCommits
        <4>3. plan = "post"
          BY <1>1, <2>1, <3>1, <4>1, <4>2, CurrentFinish
        <4>4. /\ stmt'[u].stage1 = "approved"
              /\ \A t \in FactsIn(fact', u) : Covered(posted', voided', t)
          BY <1>1, <2>1, <3>1, <4>2, <4>3, PostingFinish
        <4>5. QED
          BY <1>1, <4>4 DEF Settled, FactsOf
      <3>2. CASE u # job[j].on
        <4>1. stmt'[u] = stmt[u] /\ FactsIn(fact', u) = FactsOf(u)
          BY <1>1, <2>1, <3>2, FinishKeepsOthers
        <4>2. QED
          BY <1>1, <4>1, StaysSettled
      <3>3. QED
        BY <3>1, <3>2
    <2>2. CASE ~SomeFinish
      <3>1. UNCHANGED fact /\ RowWrite(u, stmt'[u])
        BY <1>1, <2>2, OnlyFinishWritesFacts, StepsRow
      <3>2. CASE stmt[u].status = "approved" /\ stmt'[u].stage1 = stmt[u].stage1
        BY <1>1, <3>1, <3>2, StaysSettled DEF FactsOf
      <3>3. CASE ApprovePost(u)
        <4>1. approval[u] = CopyOf(stmt[u])
          BY <1>1, <3>3 DEF OvertakenCommit, OvertakenApproval
        <4>2. stmt'[u].stage1 = "approved"
          BY <1>1, <3>3, <4>1, CurrentApproval
        <4>3. \A t \in FactsIn(fact', u) : Covered(posted', voided', t)
          BY <3>3, NewEntriesCover DEF ApprovePost
        <4>4. QED
          BY <1>1, <4>2, <4>3 DEF Settled, FactsOf
      <3>4. QED
        BY <1>1, <3>1, <3>2, <3>3 DEF RowWrite
    <2>3. QED
      BY <2>1, <2>2 DEF SomeFinish
  <1>2. ASSUME TypeOK, [Next]_vars
        PROVE  \A s \in Statements :
                    stmt'[s].status = "approved" /\ ~Settled(s)' =>
                        \/ stmt[s].status = "approved" /\ ~Settled(s)
                        \/ OvertakenCommit(s)
    BY <1>1, <1>2
  <1>3. QED
    BY <1>2, TypeCorrect, PTL DEF Spec, SettledUnlessOvertaken

-----------------------------------------------------------------------------
(* Trusted statements *)

(* An approved statement loses the trust it was approved with by an overtaken commit
   or by an opening balance only, for any results, columns and envelopes. *)
THEOREM ApprovedStaysTrusted == Spec => TrustUnlessOvertaken
  <1>1. ASSUME TypeOK, [Next]_vars, NEW u \in Statements,
               stmt'[u].status = "approved", ~Trusted(stmt'[u]),
               ~(stmt'[u].manual /\ ~stmt[u].manual), ~OvertakenCommit(u)
        PROVE  stmt[u].status = "approved" /\ ~Trusted(stmt[u])
    <2>1. ASSUME NEW j \in Jobs, NEW verdict \in Verdicts, NEW score \in Scores,
                 NEW digest \in Results, JobFinish(j, verdict, score, digest)
          PROVE  stmt[u].status = "approved" /\ ~Trusted(stmt[u])
      <3>1. CASE u = job[j].on
        <4>1. job[j] = Loaded(job[j], stmt[u])
          BY <1>1, <2>1, <3>1 DEF OvertakenCommit, OvertakenParse
        <4>2. PICK X \in SUBSET Rows, plan \in Plans : Commits(j, verdict, score, digest, X, plan)
          BY <1>1, <2>1, FinishCommits
        <4>3. plan = "post"
          BY <1>1, <2>1, <3>1, <4>1, <4>2, CurrentFinish
        <4>4. Sound(stmt'[u])
          BY <1>1, <2>1, <3>1, <4>2, <4>3, PostingFinish
        <4>5. QED
          BY <1>1, <4>4 DEF Sound
      <3>2. CASE u # job[j].on
        BY <1>1, <2>1, <3>2, FinishKeepsOthers
      <3>3. QED
        BY <3>1, <3>2
    <2>2. CASE ~SomeFinish
      <3>1. RowWrite(u, stmt'[u])
        BY <1>1, <2>2, StepsRow
      <3>2. ~Trusted(stmt[u])
        BY <1>1, <3>1 DEF RowWrite, Trusted
      <3>3. ~ApprovePost(u)
        BY <1>1, <3>2 DEF OvertakenCommit, OvertakenApproval, Sound
      <3>4. QED
        BY <1>1, <3>1, <3>2, <3>3 DEF RowWrite
    <2>3. QED
      BY <2>1, <2>2 DEF SomeFinish
  <1>2. ASSUME TypeOK, [Next]_vars
        PROVE  \A s \in Statements :
                    stmt'[s].status = "approved" /\ ~Trusted(stmt'[s]) =>
                        \/ stmt[s].status = "approved" /\ ~Trusted(stmt[s])
                        \/ stmt'[s].manual /\ ~stmt[s].manual
                        \/ OvertakenCommit(s)
    BY <1>1, <1>2
  <1>3. QED
    BY <1>2, TypeCorrect, PTL DEF Spec, TrustUnlessOvertaken

-----------------------------------------------------------------------------
(* Rejected statements *)

(* No step that ends with a statement rejected touches its facts, unless it is the
   commit of an overtaken parse. *)
THEOREM RejectedKeepsFacts == Spec => RejectionKeepsFacts
  <1>1. ASSUME TypeOK, [Next]_vars, NEW u \in Statements,
               stmt'[u].status = "rejected", ~OvertakenParse(u)
        PROVE  FactsIn(fact', u) = FactsOf(u)
    <2>1. ASSUME NEW j \in Jobs, NEW verdict \in Verdicts, NEW score \in Scores,
                 NEW digest \in Results, JobFinish(j, verdict, score, digest)
          PROVE  FactsIn(fact', u) = FactsOf(u)
      <3>1. CASE u = job[j].on
        <4>1. job[j] = Loaded(job[j], stmt[u])
          BY <1>1, <2>1, <3>1 DEF OvertakenParse
        <4>2. PICK X \in SUBSET Rows, plan \in Plans : Commits(j, verdict, score, digest, X, plan)
          BY <1>1, <2>1, FinishCommits
        <4>3. verdict = "quarantined"
          BY <1>1, <2>1, <3>1, <4>1, <4>2, CurrentFinish
        <4>4. fact' = fact
          BY <4>2, <4>3 DEF Commits, FactsAfter
        <4>5. QED
          BY <4>4 DEF FactsOf
      <3>2. CASE u # job[j].on
        BY <1>1, <2>1, <3>2, FinishKeepsOthers
      <3>3. QED
        BY <3>1, <3>2
    <2>2. CASE ~SomeFinish
      BY <1>1, <2>2, OnlyFinishWritesFacts DEF FactsOf
    <2>3. QED
      BY <2>1, <2>2 DEF SomeFinish
  <1>2. ASSUME TypeOK, [Next]_vars
        PROVE  \A s \in Statements :
                    stmt'[s].status = "rejected" =>
                        FactsIn(fact', s) = FactsOf(s) \/ OvertakenParse(s)
    BY <1>1, <1>2
  <1>3. QED
    BY <1>2, TypeCorrect, PTL DEF Spec, RejectionKeepsFacts

-----------------------------------------------------------------------------
(* Whole plans *)

(* What a step that posts has done to the statement it posts for. *)
WholePlan(s) ==
    /\ posted' \ posted \subseteq FactsIn(fact', s)
    /\ \A t \in FactsIn(fact', s) : Covered(posted', voided', t)
    /\ \/ /\ stmt'[s].status = "approved"
          /\ Sound(stmt'[s])
          /\ Conflicted(fact', s) => stmt'[s].resolved # "no"
       \/ OvertakenApproval(s)

\* An approval posts a whole plan, whatever its copy of the row says.
LEMMA ApprovalPostsPlan ==
    ASSUME TypeOK, NEW s \in Statements, ApprovePost(s)
    PROVE  WholePlan(s)
  <1>1. /\ posted' \ posted \subseteq FactsIn(fact', s)
        /\ \A t \in FactsIn(fact', s) : Covered(posted', voided', t)
    BY NewEntriesCover DEF ApprovePost
  <1>2. CASE approval[s] = CopyOf(stmt[s]) /\ Sound(stmt[s])
    <2>1. /\ stmt'[s].status = "approved"
          /\ stmt'[s].result = stmt[s].result /\ stmt'[s].reviewed = stmt[s].reviewed
          /\ stmt'[s].columns = stmt[s].columns /\ stmt'[s].manual = stmt[s].manual
          /\ Conflicted(fact', s) => stmt'[s].resolved # "no"
      BY <1>2, CurrentApproval
    <2>2. Sound(stmt'[s])
      BY <1>2, <2>1 DEF Sound, Trusted, Filled
    <2>3. QED
      BY <1>1, <2>1, <2>2 DEF WholePlan
  <1>3. CASE ~(approval[s] = CopyOf(stmt[s]) /\ Sound(stmt[s]))
    BY <1>1, <1>3 DEF WholePlan, OvertakenApproval
  <1>4. QED
    BY <1>2, <1>3

(* Entries are posted only as one statement's whole plan, by a step that leaves it
   approved, sound and with no conflict unanswered, or by an overtaken approval. *)
THEOREM OnlyWholePlans == Spec => PostsWholePlan
  <1>1. ASSUME TypeOK, [Next]_vars
        PROVE  posted' \subseteq posted \/ \E s \in Statements : WholePlan(s)
    <2>1. ASSUME NEW s \in Statements, ApprovePost(s)
          PROVE  WholePlan(s)
      BY <1>1, <2>1, ApprovalPostsPlan
    <2>2. ASSUME NEW j \in Jobs, NEW verdict \in Verdicts, NEW score \in Scores,
                 NEW digest \in Results, JobFinish(j, verdict, score, digest)
          PROVE  posted' \subseteq posted \/ \E s \in Statements : WholePlan(s)
      <3>1. PICK X \in SUBSET Rows, plan \in Plans : Commits(j, verdict, score, digest, X, plan)
        BY <1>1, <2>2, FinishCommits
      <3>2. CASE plan = "post"
        <4>1. job[j].on \in Statements /\ WholePlan(job[j].on)
          BY <1>1, <2>2, <3>1, <3>2, PostingFinish DEF WholePlan
        <4>2. QED
          BY <4>1
      <3>3. CASE plan # "post"
        BY <3>1, <3>3 DEF Commits
      <3>4. QED
        BY <3>2, <3>3
    <2>3. ASSUME NEW t \in Targets, Void(t)
          PROVE  posted' \subseteq posted
      BY <2>3 DEF Void
    <2>4. QED
      BY <1>1, <2>1, <2>2, <2>3
         DEF Next, vars, Upload, Reject, RetryCheck, RetryCommit, ApproveRead, ApproveReview,
             ApproveFails, ResolveConflicts, ConfirmEnvelope, SetOpening, Delete, Age,
             JobStart, JobError, JobReject, WorkerCrash, SupervisorScan, SupervisorReset, Crash
  <1>2. QED
    BY <1>1, TypeCorrect, PTL DEF Spec, PostsWholePlan, WholePlan

=============================================================================
