---------------------------- MODULE Reconciliation ----------------------------
(***************************************************************************)
(* Matching bank transactions with journal entries, and the review of the  *)
(* matches (reconciliation/extension, routers/review.py), beside every     *)
(* request that changes the entries.                                       *)
(*                                                                         *)
(* A matching run reads the transactions without a match and the entries   *)
(* that are not void, later the active match of each transaction it has a  *)
(* proposal for, and then writes everything in one transaction.  Nothing   *)
(* serialises two runs.  Accepting a match locks its row, not its entries. *)
(* The two batches of routers/review.py select their matches without a     *)
(* lock and do not look at the status again; a batch is one review per     *)
(* match here, although it commits them together.                          *)
(***************************************************************************)
EXTENDS JournalLedger

CONSTANTS
    Txns,           \* atomic transactions
    Transfers,      \* those whose description names a transfer
    Identity,       \* the command a transfer amounts to: its date, text and lines
    Matches,
    Runs,           \* POST /reconciliation/runs in flight
    Reviews,        \* review requests in flight
    MaxLinks        \* entries of one match at most, 3 in the code

ASSUME ReconciliationAssumption ==
    /\ Transfers \subseteq Txns
    /\ Identity \in [Transfers -> Sources \ Commands]
    /\ None \notin Txns \cup Matches
    /\ MaxLinks \in Nat

VARIABLES
    live,       \* transactions not yet deleted by a re-parse of their file
    match,      \* reconciliation_matches
    run,        \* local state of execute_matching
    review      \* local state of accept_match and of the two batches

vars == <<ledger, live, match, run, review>>

MatchStatus == {"pending_review", "auto_accepted", "accepted", "rejected", "superseded"}

Free == [status |-> "free", txn |-> None, entries |-> {}, by |-> None]

\* Deleted with its transaction (ON DELETE CASCADE).
Gone == [Free EXCEPT !.status = "gone"]

RunIdle == [phase |-> "idle", pending |-> {}, seen |-> [e \in Entries |-> "absent"], plan |-> {}]

NoReview == [op |-> "idle", match |-> None, seen |-> [e \in Entries |-> "absent"]]

\* What a run has decided for one transaction; old is the match to supersede.
Proposals ==
    [txn : Txns, entries : SUBSET Entries,
     status : {"pending_review", "auto_accepted"}, old : Matches \cup {None}]

MatchRecord ==
    [status : MatchStatus, txn : Txns, entries : (SUBSET Entries) \ {{}},
     by : Matches \cup {None}]

RunState ==
    [phase : {"idle", "matching"}, pending : SUBSET Txns,
     seen : [Entries -> EntryStatus], plan : SUBSET Proposals]

ReviewState ==
    [op : {"accept", "batch_accept", "batch_reject"}, match : Matches,
     seen : [Entries -> EntryStatus]]

TypeOK ==
    /\ LedgerTypeOK
    /\ live \subseteq Txns
    /\ match \in [Matches -> {Free, Gone} \cup MatchRecord]
    /\ run \in [Runs -> RunState]
    /\ review \in [Reviews -> {NoReview} \cup ReviewState]

Init ==
    /\ LedgerInit
    /\ live = Txns
    /\ match = [m \in Matches |-> Free]
    /\ run = [r \in Runs |-> RunIdle]
    /\ review = [v \in Reviews |-> NoReview]
-----------------------------------------------------------------------------
Of(t) == {m \in Matches : match[m].txn = t}

\* get_active_match
Active(t) == {m \in Of(t) : match[m].status # "superseded" /\ match[m].by = None}

Linked == UNION {match[m].entries : m \in Matches}

\* accept_match and reject_match hold the row (FOR UPDATE) to their commit.
Locked(m) == \E v \in Reviews : review[v].op = "accept" /\ review[v].match = m

\* Entries that an ORM session which has read "seen" writes "reconciled" to.
Written(entries, seen) == {e \in entries : seen[e] \in {"draft", "posted"}}

CanReconcile(entries) == \A e \in entries : Allowed(status[e], "reconciled")

\* list_pending_transactions and list_journal_candidates.
RunRead(r) ==
    /\ run[r] = RunIdle
    /\ \E t \in live : Of(t) = {}
    /\ run' = [run EXCEPT ![r] =
           [phase |-> "matching", pending |-> {t \in live : Of(t) = {}},
            seen |-> [e \in Entries |-> IF status[e] \in {"void", "gone"} THEN "absent" ELSE status[e]],
            plan |-> {}]]
    /\ UNCHANGED <<ledger, live, match, review>>

\* The proposal of the transfer phase has no entry yet; it creates one.
Transfer(t) ==
    /\ t \in Transfers
    /\ Active(t) = {}

\* A score at or above the review threshold for some of the candidates, and
\* an active match, if there is one, that names other entries.  A second
\* active match makes get_active_match raise.
Match(r, p) ==
    /\ p.entries # {} /\ Cardinality(p.entries) <= MaxLinks
    /\ \A e \in p.entries : run[r].seen[e] # "absent"
    /\ Cardinality(Active(p.txn)) <= 1
    /\ Active(p.txn) = (IF p.old = None THEN {} ELSE {p.old})
    /\ p.old # None => match[p.old].entries # p.entries

\* The three phases decide a transaction at a time; one without a good
\* candidate stays pending.
Propose(r) ==
    /\ run[r].phase = "matching"
    /\ \E t \in run[r].pending :
         \E p \in {q \in Proposals : q.txn = t} :
            /\ \/ Match(r, p)
               \/ /\ Transfer(t)
                  /\ p.entries = {} /\ p.status = "auto_accepted" /\ p.old = None
            /\ run' = [run EXCEPT ![r].pending = @ \ {t}, ![r].plan = @ \cup {p}]
    /\ UNCHANGED <<ledger, live, match, review>>

\* The transfer entry of a proposal is the one that records its command, or a
\* new one (create_transfer_out_entry, create_transfer_in_entry).  Two equal
\* transfers of one day are the same command and share their entry.
TransferEntries(plan) ==
    LET commands == {Identity[p.txn] : p \in {x \in plan : x.entries = {}}}
    IN  {g \in [commands -> Entries] :
            /\ \A s \in commands : g[s] \in EntryFor(s)
            /\ \A s, t \in commands : g[s] = g[t] => s = t}

NoEntry_Mutant(p, g) ==
    [status |-> p.status, txn |-> p.txn, by |-> None, entries |-> p.entries]

NewMatch(p, g) ==
    [status |-> p.status, txn |-> p.txn, by |-> None,
     entries |-> IF p.entries = {} THEN {g[Identity[p.txn]]} ELSE p.entries]

\* The end of execute_matching: new matches, which name their entries even when
\* these were deleted since (only the link is left out), the old ones superseded
\* whatever became of them, the entries of automatic matches reconciled.  One
\* refused write rolls all of it back.
RunCommit(r) ==
    LET plan == run[r].plan
        auto == UNION {p.entries : p \in {x \in plan : x.status = "auto_accepted"}}
        written == Written(auto, run[r].seen)
    IN  /\ plan # {}
        /\ \A p \in plan :
              /\ p.txn \in live
              /\ p.old # None => ~Locked(p.old)
        /\ CanReconcile(written)
        /\ \E g \in TransferEntries(plan),
              new \in [plan -> {m \in Matches : match[m] = Free}] :
              LET transfers == {g[s] : s \in DOMAIN g} IN
              /\ \A p, x \in plan : new[p] = new[x] => p = x
              /\ match' = [m \in Matches |->
                    IF \E p \in plan : new[p] = m
                    THEN NewMatch(CHOOSE p \in plan : new[p] = m, g)
                    ELSE IF \E p \in plan : p.old = m
                    THEN [match[m] EXCEPT !.status = "superseded",
                             !.by = new[CHOOSE p \in plan : p.old = m]]
                    ELSE match[m]]
              /\ status' = [e \in Entries |->
                    IF e \in written \cup transfers /\ status[e] # "void"
                    THEN "reconciled" ELSE status[e]]
              /\ source' = [e \in Entries |->
                    IF e \in transfers THEN CHOOSE s \in DOMAIN g : g[s] = e ELSE source[e]]
        /\ run' = [run EXCEPT ![r] = RunIdle]
        /\ UNCHANGED <<reversal, sign, req, live, review>>

RunFails(r) ==
    /\ run[r] # RunIdle
    /\ run' = [run EXCEPT ![r] = RunIdle]
    /\ UNCHANGED <<ledger, live, match, review>>
-----------------------------------------------------------------------------
Locks(v, m) ==
    /\ ~Locked(m)
    /\ review' = [review EXCEPT ![v] =
           [op |-> "accept", match |-> m,
            seen |-> [e \in Entries |-> IF e \in match[m].entries THEN status[e] ELSE "absent"]]]
    /\ UNCHANGED <<ledger, live, match, run>>

\* accept_match locks a pending match and reads its entries.
AcceptRead(v, m) ==
    /\ review[v] = NoReview
    /\ match[m].status = "pending_review"
    /\ Locks(v, m)

\* It then accepts the match, unless one of its entries has been deleted, and
\* reconciles the entries it did not see void.
Accept(v) ==
    LET m == review[v].match
        written == Written(match[m].entries, review[v].seen)
    IN  /\ review[v].op = "accept"
        /\ \A e \in match[m].entries : review[v].seen[e] # "gone"
        /\ CanReconcile(written)
        /\ match' = [match EXCEPT ![m].status = "accepted"]
        /\ status' = [e \in Entries |-> IF e \in written THEN "reconciled" ELSE status[e]]
        /\ review' = [review EXCEPT ![v] = NoReview]
        /\ UNCHANGED <<source, reversal, sign, req, live, run>>

\* reject_match
Reject(m) ==
    /\ match[m].status = "pending_review"
    /\ ~Locked(m)
    /\ match' = [match EXCEPT ![m].status = "rejected"]
    /\ UNCHANGED <<ledger, live, run, review>>

\* batch_approve_matches and batch_reject_matches select the pending matches
\* without a lock.
BatchRead(v, op, m) ==
    /\ review[v] = NoReview
    /\ match[m].status = "pending_review"
    /\ review' = [review EXCEPT ![v] = [NoReview EXCEPT !.op = op, !.match = m]]
    /\ UNCHANGED <<ledger, live, match, run>>

\* The one then calls accept_match, whose locking SELECT does not refresh the
\* match the session has loaded: its old status passes the check.
BatchAccept(v) ==
    /\ review[v].op = "batch_accept"
    /\ match[review[v].match] # Gone
    /\ Locks(v, review[v].match)

\* The other overwrites whatever status they have by then.
BatchReject(v) ==
    LET m == review[v].match IN
    /\ review[v].op = "batch_reject"
    /\ match[m] # Gone
    /\ ~Locked(m)
    /\ match' = [match EXCEPT ![m].status = "rejected"]
    /\ review' = [review EXCEPT ![v] = NoReview]
    /\ UNCHANGED <<ledger, live, run>>

\* A failed check (authority, amounts) or a refused write.
ReviewFails(v) ==
    /\ review[v] # NoReview
    /\ review' = [review EXCEPT ![v] = NoReview]
    /\ UNCHANGED <<ledger, live, match, run>>

PrunesActive_Mutant(t) ==
    /\ t \in live
    /\ \A m \in Of(t) : ~Locked(m)
    /\ live' = live \ {t}
    /\ match' = [m \in Matches |-> IF m \in Active(t) THEN Gone ELSE match[m]]
    /\ UNCHANGED <<ledger, run, review>>

\* A re-parse drops the facts its file no longer has, and their matches; the
\* entries stay.
RemoveTxn(t) ==
    /\ t \in live
    /\ \A m \in Of(t) : ~Locked(m)
    /\ live' = live \ {t}
    /\ match' = [m \in Matches |-> IF m \in Of(t) THEN Gone ELSE match[m]]
    /\ UNCHANGED <<ledger, run, review>>

Next ==
    \/ LedgerNext(Linked) /\ UNCHANGED <<live, match, run, review>>
    \/ \E r \in Runs : RunRead(r) \/ Propose(r) \/ RunCommit(r) \/ RunFails(r)
    \/ \E v \in Reviews, m \in Matches :
            AcceptRead(v, m) \/ \E op \in {"batch_accept", "batch_reject"} : BatchRead(v, op, m)
    \/ \E v \in Reviews : Accept(v) \/ BatchAccept(v) \/ BatchReject(v) \/ ReviewFails(v)
    \/ \E m \in Matches : Reject(m)
    \/ \E t \in Txns : RemoveTxn(t)

Spec == Init /\ [][Next]_vars
-----------------------------------------------------------------------------
\* The entries behind an automatic match are reconciled, and those behind a
\* match the user accepted are reconciled or had been voided before: no
\* posting, void or other run that read them earlier undoes it.
AcceptedIsBacked ==
    \A m \in Matches : \A e \in match[m].entries :
        /\ match[m].status = "auto_accepted" => status[e] = "reconciled"
        /\ match[m].status = "accepted" => status[e] \in {"reconciled", "void"}

\* list_pending_transactions passes over a transaction that has any match, so
\* one of them must stay active, or no run and no review would see it again.
StillMatched ==
    \A t \in Txns : Of(t) # {} => Active(t) # {}
=============================================================================
