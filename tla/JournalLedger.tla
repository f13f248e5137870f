---------------------------- MODULE JournalLedger ----------------------------
(***************************************************************************)
(* Journal entries (ledger/extension/repository.py, anchored_posting.py,   *)
(* routers/journal.py) over the triggers of ledger/orm/journal.py.         *)
(*                                                                         *)
(* A request that posts, voids or deletes an entry reads its status        *)
(* without a lock, and writes later.  What keeps two requests apart is the *)
(* trigger that compares the stored status with the written one, and the   *)
(* lock on the identity of a system command: a reversal is the command     *)
(* "void-reversal" of the entry it reverses, so it is recorded once.       *)
(***************************************************************************)
EXTENDS Integers, FiniteSets

CONSTANTS
    Entries,        \* journal entries, absent until a transaction inserts them
    Sources,        \* identities of commands other than reversals
    Commands,       \* those that a caller may submit at any time
    Requests,       \* requests of the journal router in flight
    None

ASSUME LedgerAssumption ==
    /\ Commands \subseteq Sources
    /\ Sources \cap Entries = {}
    /\ None \notin Entries \cup Sources

VARIABLES
    status,     \* JournalEntry.status
    source,     \* identity of the command that an entry records
    reversal,   \* void_reversal_entry_id
    sign,       \* its lines, all of one amount: 1 as first entered, -1 turned round
    req         \* what each request has read

ledger == <<status, source, reversal, sign, req>>

EntryStatus == {"absent", "draft", "posted", "reconciled", "void", "gone"}

Idle == [op |-> "idle", entry |-> None]

LedgerTypeOK ==
    /\ status \in [Entries -> EntryStatus]
    /\ source \in [Entries -> Entries \cup Sources \cup {None}]
    /\ reversal \in [Entries -> Entries \cup {None}]
    /\ sign \in [Entries -> {-1, 1}]
    /\ req \in [Requests -> {Idle} \cup [op : {"post", "void", "delete"}, entry : Entries]]

LedgerInit ==
    /\ status = [e \in Entries |-> "absent"]
    /\ source = [e \in Entries |-> None]
    /\ reversal = [e \in Entries |-> None]
    /\ sign = [e \in Entries |-> 1]
    /\ req = [q \in Requests |-> Idle]
-----------------------------------------------------------------------------
Absent == {e \in Entries : status[e] = "absent"}

Anything_Mutant(old, new) == old \notin {"absent", "gone"}

\* fr_guard_journal_entry_immutability: what an UPDATE may make of a stored
\* row.  Writing to a row that is gone affects nothing and fails the request.
Allowed(old, new) ==
    \/ old = "draft" /\ new \in {"posted", "reconciled"}
    \/ old = "posted" /\ new \in {"reconciled", "void"}

Unlocked_Mutant(s) == Absent

\* _existing_for_target, under the advisory lock of the identity: the entry
\* that already records command s, or else a new one.
EntryFor(s) ==
    LET owners == {e \in Entries : source[e] = s}
    IN  IF owners = {} THEN Absent ELSE owners

\* submit_manual_journal_entry: a draft, posted by a later request.
CreateDraft(e) ==
    /\ status[e] = "absent"
    /\ status' = [status EXCEPT ![e] = "draft"]
    /\ UNCHANGED <<source, reversal, sign, req>>

\* submit_anchored_journal_entry with post_immediately; a command that is
\* already recorded returns its entry and changes nothing.
Submit(s) ==
    \E e \in EntryFor(s) :
        /\ status[e] = "absent"
        /\ status' = [status EXCEPT ![e] = "posted"]
        /\ source' = [source EXCEPT ![e] = s]
        /\ UNCHANGED <<reversal, sign, req>>

\* The first half of post_journal_entry, void_journal_entry and
\* delete_journal_entry: an unlocked read and the check of the status.
Read(q, op, e) ==
    /\ req[q] = Idle
    /\ status[e] = (IF op = "void" THEN "posted" ELSE "draft")
    /\ req' = [req EXCEPT ![q] = [op |-> op, entry |-> e]]
    /\ UNCHANGED <<status, source, reversal, sign>>

Post(q) ==
    /\ req[q].op = "post"
    /\ Allowed(status[req[q].entry], "posted")
    /\ status' = [status EXCEPT ![req[q].entry] = "posted"]
    /\ req' = [req EXCEPT ![q] = Idle]
    /\ UNCHANGED <<source, reversal, sign>>

EarlyCommit_Mutant(q) ==
    /\ req[q].op = "void"
    /\ \E r \in EntryFor(req[q].entry) :
        LET e == req[q].entry IN
        /\ status' = IF Allowed(status[e], "void")
                     THEN [status EXCEPT ![r] = "posted", ![e] = "void"]
                     ELSE [status EXCEPT ![r] = "posted"]
        /\ source' = [source EXCEPT ![r] = e]
        /\ reversal' = IF Allowed(status[e], "void")
                       THEN [reversal EXCEPT ![e] = r] ELSE reversal
        /\ sign' = [sign EXCEPT ![r] = -sign[e]]
    /\ req' = [req EXCEPT ![q] = Idle]

\* The reversal, posted with every line turned round, and the void of the
\* original, in one transaction.
Void(q) ==
    /\ req[q].op = "void"
    /\ LET e == req[q].entry IN
       /\ Allowed(status[e], "void")
       /\ \E r \in EntryFor(e) :
            /\ status' = [status EXCEPT ![r] = "posted", ![e] = "void"]
            /\ source' = [source EXCEPT ![r] = e]
            /\ reversal' = [reversal EXCEPT ![e] = r]
            /\ sign' = [sign EXCEPT ![r] = -sign[e]]
    /\ req' = [req EXCEPT ![q] = Idle]

\* The trigger lets only a draft go, and the foreign key of the links of a
\* reconciliation match (linked) keeps the entries they name.
Delete(q, linked) ==
    /\ req[q].op = "delete"
    /\ status[req[q].entry] = "draft"
    /\ req[q].entry \notin linked
    /\ status' = [status EXCEPT ![req[q].entry] = "gone"]
    /\ req' = [req EXCEPT ![q] = Idle]
    /\ UNCHANGED <<source, reversal, sign>>

\* A refused check or write: the request's transaction is rolled back.
Refused(q) ==
    /\ req[q] # Idle
    /\ req' = [req EXCEPT ![q] = Idle]
    /\ UNCHANGED <<status, source, reversal, sign>>

LedgerNext(linked) ==
    \/ \E e \in Entries : CreateDraft(e)
    \/ \E s \in Commands : Submit(s)
    \/ \E q \in Requests, e \in Entries, op \in {"post", "void", "delete"} : Read(q, op, e)
    \/ \E q \in Requests : Post(q) \/ Void(q) \/ Delete(q, linked) \/ Refused(q)
-----------------------------------------------------------------------------
\* A voided entry has one reversal, the one it names, and an entry that still
\* stands has none, whatever two requests that read "posted" do next.
ReversedOnce ==
    \A e \in Entries :
        {r \in Entries : source[r] = e} =
            IF status[e] = "void" THEN {reversal[e]} ELSE {}

\* A command, a reversal included, is recorded by one entry even when two
\* transactions submit it at the same time.
RecordedOnce ==
    \A e, f \in Entries : e # f /\ source[e] # None => source[e] # source[f]

\* calculate_account_balance adds the lines of posted and reconciled entries.
Contribution(e) == IF status[e] \in {"posted", "reconciled"} THEN sign[e] ELSE 0

\* A voided entry and its reversal leave a balance as if neither were there:
\* the user guide's "reversal entry that cancels out the original".
ReversalCancels ==
    \A e \in Entries :
        status[e] = "void" => Contribution(e) + Contribution(reversal[e]) = 0
=============================================================================
