--------------------------- MODULE SourceAuthority ---------------------------
(***************************************************************************)
(* Who may post a source row, and whether the entry it posted stays        *)
(* trusted.  Two kinds of transaction decide about the atomic transactions *)
(* ("rows") of a user:                                                     *)
(*   - the posting of an approved statement, which decides every row no    *)
(*     trusted entry covers and then posts all of them or, when one needs  *)
(*     review, none (extraction/extension/statement_posting.py);           *)
(*   - a reviewed disposition, which posts one unmatched row by hand       *)
(*     (reconciliation/extension/reviewed_disposition.py).                 *)
(* Each decision is a TraceRecord that supersedes the head of the row's    *)
(* disposition lineage; the entry is anchored to an authorization, a       *)
(* TraceRecord whose parent is the decision, and whoever asks for trusted  *)
(* entries gets those with no superseded record among their ancestors      *)
(* (current_anchored_journal_entries).                                     *)
(*                                                                         *)
(* A record's id is a digest of its content and of the record it           *)
(* supersedes, so a decision is named by its history: the sequence of      *)
(* contents from the first decision of the row to itself.  The guard and   *)
(* the disposition of one decision are superseded together and are one     *)
(* element here; <<>> stands for "not decided yet".  A row's authorization *)
(* and its entry are created together and are one record.                  *)
(***************************************************************************)
EXTENDS Naturals, Sequences

CONSTANTS
    Statements,     \* statements whose posting may run
    Reviews,        \* reviewed dispositions: a row and a command digest
    Rows,           \* atomic transactions
    Source,         \* the rows of each statement
    Target,         \* the row each review is about
    MaxDecisions    \* bound: decisions of one row

ASSUME AuthorityAssumption ==
    /\ Source \in [Statements -> SUBSET Rows]
    /\ Target \in [Reviews -> Rows]
    /\ Statements \cap Reviews = {}
    /\ MaxDecisions \in Nat

VARIABLES
    decided,    \* committed dispositions of each row
    entries,    \* committed authorizations of each row, each with its entry
    tx          \* the transaction of each statement and of each review

vars == <<decided, entries, tx>>

Actors == Statements \cup Reviews
Verdicts == {"post", "review", "covered"}
Decision == [by : Actors, verdict : Verdicts]
NoDecision == <<>>

\* Sequences of decisions, each superseding the one before it.
History == {h \in Seq(Decision) : Len(h) <= MaxDecisions}
Entry == [anchor : History, void : BOOLEAN]

Idle ==
    [stage  |-> "idle",
     plan   |-> {},                             \* the rows to decide
     made   |-> [r \in Rows |-> NoDecision],    \* the decision it goes by
     wrote  |-> {},     \* rows whose decision it appended; it holds their lineage
     posts  |-> {},     \* rows it authorized and whose entry it created
     kept   |-> {},     \* rows whose current entry it returned
     missed |-> {}]     \* history: rows that others posted since it read the plan

Transaction ==
    [stage  : {"idle", "open", "valid"},
     plan   : SUBSET Rows,
     made   : [Rows -> History],
     wrote  : SUBSET Rows,
     posts  : SUBSET Rows,
     kept   : SUBSET Rows,
     missed : SUBSET Rows]

TypeOK ==
    /\ decided \in [Rows -> SUBSET History]
    /\ entries \in [Rows -> SUBSET Entry]
    /\ tx \in [Actors -> Transaction]
    /\ \A t \in Actors : tx[t].stage = "idle" => tx[t] = Idle

Init ==
    /\ decided = [r \in Rows |-> {NoDecision}]
    /\ entries = [r \in Rows |-> {}]
    /\ tx = [t \in Actors |-> Idle]

-----------------------------------------------------------------------------
(* The trace records, as a transaction sees them: what is committed and    *)
(* what it appended itself.                                                *)

Superseded(h, records) == \E d \in Decision : Append(h, d) \in records
Heads(records) == {h \in records : ~Superseded(h, records)}
Seen(t, r) == decided[r] \cup {tx[t].made[s] : s \in tx[t].wrote \cap {r}}

\* An entry that current_anchored_journal_entries returns and that is not void.
Live(r) == {e \in entries[r] : ~e.void /\ ~Superseded(e.anchor, decided[r])}

NoLock_Mutant(t, r) == TRUE

\* append holds pg_advisory_xact_lock on the lineage until its transaction ends.
LineageFree(t, r) == \A u \in Actors \ {t} : r \notin tx[u].wrote

VoidedIsFree_Mutant(t, r) ==
    /\ \A e \in entries[r] : e.void
    /\ \A u \in Actors \ {t} : r \notin tx[u].posts

\* No authorization of r is on record or about to be: its lineage is locked too,
\* and a decision without supersedes_id is refused when the lineage has a head.
TargetFree(t, r) ==
    /\ entries[r] = {}
    /\ \A u \in Actors \ {t} : r \notin tx[u].posts

VerdictOf(t, r) == tx[t].made[r][Len(tx[t].made[r])].verdict
Manual(h) == h # NoDecision /\ h[Len(h)].by \in Reviews

-----------------------------------------------------------------------------
(* A posting reads the rows no trusted entry covers.  The statement is     *)
(* locked, the rows are not.                                               *)

AllRows_Mutant(s) == Source[s]
Uncovered(s) == {r \in Source[s] : Live(r) = {}}

Plan(s) ==
    /\ tx[s].stage = "idle"
    /\ Uncovered(s) # {}
    /\ tx' = [tx EXCEPT ![s] = [Idle EXCEPT !.stage = "open", !.plan = Uncovered(s)]]
    /\ UNCHANGED <<decided, entries>>

\* t supersedes head, the current decision of r, with one of its own.  It may have
\* to wait for the lineage, and fails if the head it had read is then another's.
Appended(t, r, head, verdict) ==
    /\ LineageFree(t, r)
    /\ Len(head) < MaxDecisions
    /\ tx' = [tx EXCEPT ![t].made[r] = Append(head, [by |-> t, verdict |-> verdict]),
                        ![t].wrote = @ \cup {r}]

\* The statement's decision about a row.  Only the row's first decision is found
\* again by its content: a later one carries the id of what it supersedes.
Decide(s, r) ==
    /\ tx[s].stage = "open"
    /\ r \in tx[s].plan
    /\ tx[s].made[r] = NoDecision
    /\ \E verdict \in Verdicts : \E head \in Heads(decided[r]) :
        /\ Heads(decided[r]) = {head}
        /\ IF head = <<[by |-> s, verdict |-> verdict]>>
           THEN tx' = [tx EXCEPT ![s].made[r] = head]
           ELSE Appended(s, r, head, verdict)
    /\ UNCHANGED <<decided, entries>>

(* A reviewed disposition locks its row.  A row that has a reviewed        *)
(* decision (its own: the entry is returned; another's: refused) or a live *)
(* entry is left alone.                                                    *)
Refused(r) ==
    \/ \E h \in Heads(decided[r]) : Manual(h)
    \/ Live(r) # {}

Review(m) ==
    LET r == Target[m]
        locked == \E u \in Reviews \ {m} : Target[u] = r /\ tx[u].stage # "idle"
    IN  /\ tx[m].stage = "idle"
        /\ ~locked
        /\ ~Refused(r)
        /\ \E head \in Heads(decided[r]) :
            /\ Heads(decided[r]) = {head}
            /\ LineageFree(m, r)
            /\ Len(head) < MaxDecisions
            /\ tx' = [tx EXCEPT ![m] =
                        [Idle EXCEPT !.stage = "open", !.plan = {r}, !.wrote = {r},
                                     !.made[r] = Append(head, [by |-> m, verdict |-> "post"])]]
        /\ UNCHANGED <<decided, entries>>

-----------------------------------------------------------------------------
(* The entries, once every row of the plan is decided and none needs a     *)
(* review.                                                                 *)

Decided(t) == \A r \in tx[t].plan : tx[t].made[r] # NoDecision
NeedsReview(t) == \E r \in tx[t].plan : VerdictOf(t, r) = "review"
ToPost(t) == {r \in tx[t].plan : VerdictOf(t, r) = "post"}

\* A current authorization is returned with its entry, void or not; otherwise one is
\* appended, and its parent must still be the head of its lineage.
Post(t, r) ==
    LET current == {e \in entries[r] : ~Superseded(e.anchor, Seen(t, r))}
    IN  /\ tx[t].stage = "open"
        /\ Decided(t)
        /\ ~NeedsReview(t)
        /\ r \in ToPost(t) \ (tx[t].posts \cup tx[t].kept)
        /\ IF current # {}
           THEN tx' = [tx EXCEPT ![t].kept = @ \cup {r}]
           ELSE /\ TargetFree(t, r)
                /\ ~Superseded(tx[t].made[r], Seen(t, r))
                /\ tx' = [tx EXCEPT ![t].posts = @ \cup {r}]
        /\ UNCHANGED <<decided, entries>>

\* COMMIT, first half: the deferred trigger validate_trace_record_links sees what the
\* others have committed by then.
Validate(t) ==
    /\ tx[t].stage = "open"
    /\ Decided(t)
    /\ NeedsReview(t) \/ ToPost(t) = tx[t].posts \cup tx[t].kept
    /\ \A r \in tx[t].posts : ~Superseded(tx[t].made[r], Seen(t, r))
    /\ tx' = [tx EXCEPT ![t].stage = "valid"]
    /\ UNCHANGED <<decided, entries>>

\* COMMIT, second half.
Commit(t) ==
    /\ tx[t].stage = "valid"
    /\ decided' = [r \in Rows |-> Seen(t, r)]
    /\ entries' = [r \in Rows |->
            entries[r] \cup
                {[anchor |-> tx[t].made[s], void |-> FALSE] : s \in tx[t].posts \cap {r}}]
    /\ tx' = [u \in Actors |->
            IF u = t THEN Idle
            ELSE IF tx[u].stage = "idle" THEN tx[u]
            ELSE [tx[u] EXCEPT !.missed = @ \cup tx[t].posts]]

SessionLock_Mutant(t) ==
    /\ tx[t].stage # "idle"
    /\ tx' = [tx EXCEPT ![t] = [Idle EXCEPT !.wrote = tx[t].wrote]]
    /\ UNCHANGED <<decided, entries>>

\* An error, a deadlock victim, a crash: the transaction leaves nothing.
Abort(t) ==
    /\ tx[t].stage # "idle"
    /\ tx' = [tx EXCEPT ![t] = Idle]
    /\ UNCHANGED <<decided, entries>>

\* void_journal_entry, of an entry in any authority state.
Void(r) ==
    /\ \E e \in entries[r] :
        /\ ~e.void
        /\ entries' = [entries EXCEPT ![r] = (@ \ {e}) \cup {[e EXCEPT !.void = TRUE]}]
    /\ UNCHANGED <<decided, tx>>

Next ==
    \/ \E s \in Statements : Plan(s) \/ \E r \in Rows : Decide(s, r)
    \/ \E m \in Reviews : Review(m)
    \/ \E t \in Actors :
        \/ Validate(t)
        \/ Commit(t)
        \/ Abort(t)
        \/ \E r \in Rows : Post(t, r)
    \/ \E r \in Rows : Void(r)

Spec == Init /\ [][Next]_vars

-----------------------------------------------------------------------------
(* Authority does not fork: a row never has two current decisions, however *)
(* the appends interleave.  Two heads would make every later read of the   *)
(* lineage fail ("ambiguous physical TraceRecord decision head").          *)
OneHead == \A r \in Rows : \A g, h \in Heads(decided[r]) : g = h

(* A source row is posted at most once, ever: not by two transactions at   *)
(* once, not after its entry was voided and not after its decision was     *)
(* superseded.                                                             *)
PostedOnce == \A r \in Rows : \A e, f \in entries[r] : e = f

(* At most one reviewed decision of a row is ever on record: a second      *)
(* review never replaces it, even when the posting of a statement has      *)
(* superseded it in between and the row looks open again.                  *)
ReviewedOnce == \A r \in Rows : \A g, h \in decided[r] : Manual(g) /\ Manual(h) => g = h

(* A commit takes the authority of a live entry away only if the entry was *)
(* posted by another transaction after the plan was read: one that ran     *)
(* alone never does.                                                       *)
Revoked(r) == Live(r) # {} /\ \A e \in Live(r) : Superseded(e.anchor, decided'[r])

RevokedByOverlap ==
    [][\A t \in Actors, r \in Rows : Commit(t) /\ Revoked(r) => r \in tx[t].missed]_vars

(* An entry that stands has the authority it was posted with.              *)
PostedStaysTrusted ==
    \A r \in Rows : \A e \in entries[r] : e.void \/ ~Superseded(e.anchor, decided[r])

=============================================================================
