------------------------- MODULE ReconciliationProofs -------------------------
(***************************************************************************)
(* Proofs about Reconciliation for any number of entries, transactions,    *)
(* matches, runs and requests.                                             *)
(***************************************************************************)
EXTENDS Reconciliation, TLAPS

TransferCommands == {Identity[t] : t \in Transfers}

\* An entry that does not exist records no command, and the entry of a
\* transfer is reconciled by the transaction that posts it.
SourceHolds ==
    \A e \in Entries :
        /\ status[e] = "absent" => source[e] = None
        /\ source[e] \in TransferCommands => status[e] = "reconciled"

LinkedExist ==
    \A m \in Matches : \A e \in match[m].entries : status[e] # "absent"

\* What an accepting request has read of the final statuses is still true,
\* and the match it has locked is still there.
ReviewGood(v) ==
    /\ review[v].op \in {"batch_accept", "batch_reject"} =>
          match[review[v].match].status # "free"
    /\ review[v].op = "accept" =>
          /\ match[review[v].match] \in MatchRecord
          /\ \A e \in match[review[v].match].entries :
                /\ review[v].seen[e] \in {"draft", "posted", "reconciled", "void", "gone"}
                /\ review[v].seen[e] \in {"reconciled", "void"} =>
                      status[e] = review[v].seen[e]

ReviewHolds == \A v \in Reviews : ReviewGood(v)

LockIsExclusive ==
    \A v, w \in Reviews :
        /\ review[v].op = "accept" /\ review[w].op = "accept"
        /\ review[v].match = review[w].match
        => v = w

\* What a run has read and what it proposes.
RunGood(r) ==
    /\ \A e \in Entries :
          /\ run[r].seen[e] \in {"absent", "draft", "posted", "reconciled"}
          /\ run[r].seen[e] # "absent" => status[e] # "absent"
          /\ run[r].seen[e] = "reconciled" => status[e] = "reconciled"
    /\ \A p \in run[r].plan :
          /\ \A e \in p.entries : run[r].seen[e] # "absent"
          /\ p.entries = {} => p.txn \in Transfers /\ p.status = "auto_accepted" /\ p.old = None
          /\ p.old # None => p.txn \notin live \/ match[p.old].txn = p.txn

RunHolds == \A r \in Runs : RunGood(r)

LedgerInv == SourceHolds /\ ReversedOnce /\ RecordedOnce

IInv ==
    /\ TypeOK
    /\ LedgerInv
    /\ LinkedExist
    /\ ReviewHolds
    /\ LockIsExclusive
    /\ RunHolds
    /\ AcceptedIsBacked
    /\ StillMatched

\* No step brings an entry back, and none leaves a final status.
Forward ==
    \A e \in Entries :
        /\ status[e] # "absent" => status'[e] # "absent"
        /\ status[e] \in {"reconciled", "void", "gone"} => status'[e] = status[e]
-----------------------------------------------------------------------------
USE LedgerAssumption, ReconciliationAssumption

\* No caller and no reversal has the identity of a transfer.
LEMMA TransferIdentity ==
    /\ TransferCommands \subseteq Sources \ Commands
    /\ TransferCommands \cap Entries = {}
    /\ None \notin TransferCommands
    BY DEF TransferCommands

LEMMA InitInv == Init => IInv
<1> SUFFICES ASSUME Init PROVE IInv
    OBVIOUS
<1> USE DEF Init, LedgerInit
<1>1. TypeOK
    BY DEF TypeOK, LedgerTypeOK, EntryStatus, Free, RunIdle, NoReview, RunState
<1>2. LedgerInv
    BY TransferIdentity DEF LedgerInv, SourceHolds, ReversedOnce, RecordedOnce
<1>3. LinkedExist /\ AcceptedIsBacked /\ StillMatched
    BY DEF LinkedExist, AcceptedIsBacked, StillMatched, Of, Free
<1>4. ReviewHolds /\ LockIsExclusive
    BY DEF ReviewHolds, ReviewGood, LockIsExclusive, NoReview
<1>5. RunHolds
    BY DEF RunHolds, RunGood, RunIdle
<1> QED BY <1>1, <1>2, <1>3, <1>4, <1>5 DEF IInv
-----------------------------------------------------------------------------
(* Steps of the journal. *)

\* A posted entry has no reversal yet, so voiding it inserts a new one.
LEMMA FreshReversal ==
    ASSUME TypeOK, LedgerInv, NEW e \in Entries, status[e] = "posted",
           NEW r \in EntryFor(e)
    PROVE  r \in Entries /\ status[r] = "absent" /\ r # e
           /\ source[r] = None /\ \A x \in Entries : source[x] # e
<1>1. \A x \in Entries : source[x] # e
    BY DEF LedgerInv, ReversedOnce
<1> QED BY <1>1 DEF EntryFor, Absent, LedgerInv, SourceHolds

LEMMA FreshEntry ==
    ASSUME TypeOK, LedgerInv, NEW s \in Sources,
           NEW e \in EntryFor(s), status[e] = "absent"
    PROVE  e \in Entries /\ source[e] = None /\ \A x \in Entries : source[x] # s
BY DEF EntryFor, Absent, LedgerInv, SourceHolds

LEMMA LedgerType ==
    ASSUME TypeOK, LedgerInv, LedgerNext(Linked)
    PROVE  LedgerTypeOK'
<1> USE DEF TypeOK, LedgerTypeOK, EntryStatus
<1>1. ASSUME NEW e \in Entries, CreateDraft(e) PROVE LedgerTypeOK'
    BY <1>1 DEF CreateDraft
<1>2. ASSUME NEW s \in Commands, Submit(s) PROVE LedgerTypeOK'
    BY <1>2, FreshEntry DEF Submit, EntryFor, Absent
<1>3. ASSUME NEW q \in Requests, NEW e \in Entries,
             NEW op \in {"post", "void", "delete"}, Read(q, op, e)
      PROVE LedgerTypeOK'
    BY <1>3 DEF Read
<1>4. ASSUME NEW q \in Requests, Post(q) PROVE LedgerTypeOK'
    BY <1>4 DEF Post, Idle
<1>5. ASSUME NEW q \in Requests, Void(q) PROVE LedgerTypeOK'
  <2> DEFINE e == req[q].entry
  <2>1. e \in Entries /\ status[e] = "posted"
      BY <1>5 DEF Void, Allowed, Idle
  <2>2. PICK r \in EntryFor(e) :
            /\ status' = [status EXCEPT ![r] = "posted", ![e] = "void"]
            /\ source' = [source EXCEPT ![r] = e]
            /\ reversal' = [reversal EXCEPT ![e] = r]
            /\ sign' = [sign EXCEPT ![r] = -sign[e]]
      BY <1>5 DEF Void
  <2>3. r \in Entries
      BY <2>1, FreshReversal
  <2>4. req' = [req EXCEPT ![q] = Idle]
      BY <1>5 DEF Void
  <2>5. -sign[e] \in {-1, 1}
      BY <2>1
  <2> QED BY <2>1, <2>2, <2>3, <2>4, <2>5
<1>6. ASSUME NEW q \in Requests, Delete(q, Linked) PROVE LedgerTypeOK'
    BY <1>6 DEF Delete, Idle
<1>7. ASSUME NEW q \in Requests, Refused(q) PROVE LedgerTypeOK'
    BY <1>7 DEF Refused
<1> QED BY <1>1, <1>2, <1>3, <1>4, <1>5, <1>6, <1>7 DEF LedgerNext

LEMMA LedgerForward ==
    ASSUME TypeOK, LedgerInv, LedgerNext(Linked)
    PROVE  Forward
<1> DEFINE Goal == Forward
<1> USE DEF TypeOK, LedgerTypeOK, EntryStatus, Forward
<1>1. ASSUME NEW e \in Entries, CreateDraft(e) PROVE Goal
    BY <1>1 DEF CreateDraft
<1>2. ASSUME NEW s \in Commands, Submit(s) PROVE Goal
    BY <1>2, FreshEntry DEF Submit
<1>3. ASSUME NEW q \in Requests, NEW e \in Entries,
             NEW op \in {"post", "void", "delete"}, Read(q, op, e)
      PROVE Goal
    BY <1>3 DEF Read
<1>4. ASSUME NEW q \in Requests, Post(q) PROVE Goal
    BY <1>4 DEF Post, Allowed
<1>5. ASSUME NEW q \in Requests, Void(q) PROVE Goal
  <2> DEFINE e == req[q].entry
  <2>1. e \in Entries /\ status[e] = "posted"
      BY <1>5 DEF Void, Allowed, Idle
  <2>2. PICK r \in EntryFor(e) :
            status' = [status EXCEPT ![r] = "posted", ![e] = "void"]
      BY <1>5 DEF Void
  <2>3. r \in Entries /\ status[r] = "absent"
      BY <2>1, FreshReversal
  <2> QED BY <2>1, <2>2, <2>3
<1>6. ASSUME NEW q \in Requests, Delete(q, Linked) PROVE Goal
    BY <1>6 DEF Delete
<1>7. ASSUME NEW q \in Requests, Refused(q) PROVE Goal
    BY <1>7 DEF Refused
<1> QED BY <1>1, <1>2, <1>3, <1>4, <1>5, <1>6, <1>7 DEF LedgerNext

LEMMA LedgerKeeps ==
    ASSUME TypeOK, LedgerInv, LedgerNext(Linked)
    PROVE  LedgerInv'
<1> USE DEF TypeOK, LedgerTypeOK, EntryStatus, LedgerInv, SourceHolds, ReversedOnce, RecordedOnce
<1>1. ASSUME NEW e \in Entries, CreateDraft(e) PROVE LedgerInv'
    BY <1>1 DEF CreateDraft
<1>2. ASSUME NEW s \in Commands, Submit(s) PROVE LedgerInv'
  <2>1. PICK e \in EntryFor(s) :
            /\ status[e] = "absent"
            /\ status' = [status EXCEPT ![e] = "posted"]
            /\ source' = [source EXCEPT ![e] = s]
            /\ reversal' = reversal
      BY <1>2 DEF Submit
  <2>2. e \in Entries /\ source[e] = None /\ \A x \in Entries : source[x] # s
      BY <2>1, FreshEntry
  <2>3. s \notin Entries /\ s \notin TransferCommands /\ s # None
      BY TransferIdentity
  <2>4. SourceHolds'
      BY <2>1, <2>2, <2>3
  <2>5. RecordedOnce'
      BY <2>1, <2>2, <2>3
  <2>6. ASSUME NEW x \in Entries
        PROVE {y \in Entries : source'[y] = x} = {y \in Entries : source[y] = x}
      BY <2>1, <2>2, <2>3
  <2>7. ASSUME NEW x \in Entries PROVE status'[x] = "void" <=> status[x] = "void"
      BY <2>1, <2>2
  <2>8. ReversedOnce'
      BY <2>1, <2>6, <2>7
  <2> QED BY <2>4, <2>5, <2>8
<1>3. ASSUME NEW q \in Requests, NEW e \in Entries,
             NEW op \in {"post", "void", "delete"}, Read(q, op, e)
      PROVE LedgerInv'
    BY <1>3 DEF Read
<1>4. ASSUME NEW q \in Requests, Post(q) PROVE LedgerInv'
    BY <1>4 DEF Post, Allowed
<1>5. ASSUME NEW q \in Requests, Void(q) PROVE LedgerInv'
  <2> DEFINE e == req[q].entry
  <2>1. e \in Entries /\ status[e] = "posted"
      BY <1>5 DEF Void, Allowed, Idle
  <2>2. PICK r \in EntryFor(e) :
            /\ status' = [status EXCEPT ![r] = "posted", ![e] = "void"]
            /\ source' = [source EXCEPT ![r] = e]
            /\ reversal' = [reversal EXCEPT ![e] = r]
      BY <1>5 DEF Void
  <2>3. /\ r \in Entries /\ status[r] = "absent" /\ r # e
        /\ source[r] = None /\ \A x \in Entries : source[x] # e
      BY <2>1, FreshReversal
  <2> HIDE DEF e
  <2>4. SourceHolds'
      BY <2>1, <2>2, <2>3, TransferIdentity
  <2>5. RecordedOnce'
      BY <2>1, <2>2, <2>3
  <2>6. {y \in Entries : source'[y] = e} = {r}
      BY <2>1, <2>2, <2>3
  <2>7. ASSUME NEW x \in Entries, x # e
        PROVE /\ {y \in Entries : source'[y] = x} = {y \in Entries : source[y] = x}
              /\ status'[x] = "void" <=> status[x] = "void"
              /\ reversal'[x] = reversal[x]
      BY <2>1, <2>2, <2>3, <2>7
  <2>8. ReversedOnce'
    <3> SUFFICES ASSUME NEW x \in Entries
                 PROVE {y \in Entries : source'[y] = x} =
                           IF status'[x] = "void" THEN {reversal'[x]} ELSE {}
        OBVIOUS
    <3>1. CASE x = e
        BY <3>1, <2>1, <2>2, <2>3, <2>6
    <3>2. CASE x # e
        BY <3>2, <2>7
    <3> QED BY <3>1, <3>2
  <2> QED BY <2>4, <2>5, <2>8
<1>6. ASSUME NEW q \in Requests, Delete(q, Linked) PROVE LedgerInv'
    BY <1>6 DEF Delete
<1>7. ASSUME NEW q \in Requests, Refused(q) PROVE LedgerInv'
    BY <1>7 DEF Refused
<1> QED BY <1>1, <1>2, <1>3, <1>4, <1>5, <1>6, <1>7 DEF LedgerNext

LEMMA LedgerStep ==
    ASSUME IInv, LedgerNext(Linked), UNCHANGED <<live, match, run, review>>
    PROVE  IInv'
<1> USE DEF IInv
<1>1. LedgerTypeOK' /\ LedgerInv' /\ Forward
    BY LedgerType, LedgerKeeps, LedgerForward
<1>2. TypeOK'
    BY <1>1 DEF TypeOK
<1>3. LinkedExist'
  <2> SUFFICES ASSUME NEW m \in Matches, NEW e \in match[m].entries
               PROVE  status'[e] # "absent"
      BY DEF LinkedExist
  <2>1. e \in Entries
      BY DEF TypeOK, Free, Gone, MatchRecord, ReviewState
  <2> QED BY <1>1, <2>1 DEF LinkedExist, Forward
<1>4. ReviewHolds' /\ LockIsExclusive'
    BY <1>1 DEF ReviewHolds, ReviewGood, LockIsExclusive, Forward, TypeOK, Free, Gone, MatchRecord, ReviewState, NoReview
<1>5. RunHolds'
    BY <1>1 DEF RunHolds, RunGood, Forward
<1>6. AcceptedIsBacked' /\ StillMatched'
    BY <1>1 DEF AcceptedIsBacked, StillMatched, Of, Active, Forward, TypeOK, Free, Gone, MatchRecord, ReviewState
<1> QED BY <1>1, <1>2, <1>3, <1>4, <1>5, <1>6
-----------------------------------------------------------------------------
(* Steps of a matching run. *)

LEMMA UsedMatch ==
    ASSUME TypeOK, NEW m \in Matches, match[m] \notin {Free, Gone}
    PROVE  match[m] \in MatchRecord
BY DEF TypeOK, MatchRecord

LEMMA MatchTxn ==
    ASSUME TypeOK, NEW m \in Matches, match[m].txn # None
    PROVE  match[m] \in MatchRecord /\ match[m] # Free
BY UsedMatch DEF Free, Gone

LEMMA RunReadStep ==
    ASSUME IInv, NEW r \in Runs, RunRead(r)
    PROVE  IInv'
<1> USE DEF IInv, RunRead, ledger
<1>1. TypeOK'
    BY DEF TypeOK, LedgerTypeOK, EntryStatus, RunState
<1>2. RunHolds'
  <2> SUFFICES ASSUME NEW x \in Runs PROVE RunGood(x)'
      BY DEF RunHolds, RunGood
  <2>1. CASE x = r
      BY <2>1 DEF TypeOK, LedgerTypeOK, EntryStatus, RunHolds, RunGood
  <2>2. CASE x # r
      BY <2>2 DEF TypeOK, RunHolds, RunGood
  <2> QED BY <2>1, <2>2
<1>3. LedgerInv' /\ LinkedExist' /\ AcceptedIsBacked' /\ StillMatched'
    BY DEF LedgerInv, SourceHolds, ReversedOnce, RecordedOnce, LinkedExist,
           AcceptedIsBacked, StillMatched, Of, Active
<1>4. ReviewHolds' /\ LockIsExclusive'
    BY DEF ReviewHolds, ReviewGood, LockIsExclusive
<1> QED BY <1>1, <1>2, <1>3, <1>4

LEMMA ProposeStep ==
    ASSUME IInv, NEW r \in Runs, Propose(r)
    PROVE  IInv'
<1>1. PICK t \in run[r].pending, p \in Proposals :
          /\ p.txn = t
          /\ \/ Match(r, p)
             \/ Transfer(t) /\ p.entries = {} /\ p.status = "auto_accepted" /\ p.old = None
          /\ run' = [run EXCEPT ![r].pending = @ \ {t}, ![r].plan = @ \cup {p}]
    BY DEF Propose
<1>2. UNCHANGED <<status, source, reversal, sign, req, live, match, review>>
    BY DEF Propose, ledger
<1>3. /\ \A e \in p.entries : run[r].seen[e] # "absent"
      /\ p.entries = {} => p.txn \in Transfers /\ p.status = "auto_accepted" /\ p.old = None
      /\ p.old # None => match[p.old].txn = p.txn
    BY <1>1 DEF Match, Transfer, Active, Of
<1>4. run \in [Runs -> RunState]
    BY DEF IInv, TypeOK
<1>5. /\ run' \in [Runs -> RunState]
      /\ run'[r].seen = run[r].seen /\ run'[r].plan = run[r].plan \cup {p}
      /\ \A x \in Runs : x # r => run'[x] = run[x]
  <2>1. run[r] \in RunState
      BY <1>4
  <2>2. run' = [run EXCEPT ![r] = [run[r] EXCEPT !.pending = @ \ {t}, !.plan = @ \cup {p}]]
      BY <1>1, <1>4
  <2>3. [run[r] EXCEPT !.pending = @ \ {t}, !.plan = @ \cup {p}] \in RunState
      BY <2>1 DEF RunState
  <2> QED BY <2>1, <2>2, <2>3, <1>4 DEF RunState
<1>6. TypeOK'
    BY <1>2, <1>5 DEF IInv, TypeOK, LedgerTypeOK
<1>7. RunHolds'
  <2> SUFFICES ASSUME NEW x \in Runs PROVE RunGood(x)'
      BY DEF RunHolds
  <2>0. RunGood(x)
      BY DEF IInv, RunHolds
  <2>1. CASE x = r
    <3>1. \A q \in run'[r].plan : q \in run[r].plan \/ q = p
        BY <1>5
    <3> QED BY <2>0, <2>1, <3>1, <1>2, <1>3, <1>5 DEF RunGood
  <2>2. CASE x # r
      BY <2>0, <2>2, <1>2, <1>5 DEF RunGood
  <2> QED BY <2>1, <2>2
<1>8. LedgerInv' /\ LinkedExist' /\ AcceptedIsBacked' /\ StillMatched'
    BY <1>2 DEF IInv, LedgerInv, SourceHolds, ReversedOnce, RecordedOnce, LinkedExist,
           AcceptedIsBacked, StillMatched, Of, Active
<1>9. ReviewHolds' /\ LockIsExclusive'
    BY <1>2 DEF IInv, ReviewHolds, ReviewGood, LockIsExclusive
<1> QED BY <1>6, <1>7, <1>8, <1>9 DEF IInv

LEMMA RunFailsStep ==
    ASSUME IInv, NEW r \in Runs, RunFails(r)
    PROVE  IInv'
<1> USE DEF IInv, RunFails, ledger
<1>1. TypeOK'
    BY DEF TypeOK, LedgerTypeOK, RunIdle, EntryStatus, RunState
<1>2. RunHolds'
    BY DEF TypeOK, RunHolds, RunGood, RunIdle
<1>3. LedgerInv' /\ LinkedExist' /\ AcceptedIsBacked' /\ StillMatched'
    BY DEF LedgerInv, SourceHolds, ReversedOnce, RecordedOnce, LinkedExist,
           AcceptedIsBacked, StillMatched, Of, Active
<1>4. ReviewHolds' /\ LockIsExclusive'
    BY DEF ReviewHolds, ReviewGood, LockIsExclusive
<1> QED BY <1>1, <1>2, <1>3, <1>4

\* The entry of a transfer proposal is either new or already reconciled.
LEMMA TransferEntryFacts ==
    ASSUME IInv, NEW r \in Runs, NEW g \in TransferEntries(run[r].plan),
           NEW s \in DOMAIN g
    PROVE  /\ s \in TransferCommands /\ g[s] \in Entries
           /\ \/ source[g[s]] = s /\ status[g[s]] = "reconciled"
              \/ /\ source[g[s]] = None /\ status[g[s]] = "absent"
                 /\ \A x \in Entries : source[x] # s
<1>1. PICK p \in run[r].plan : p.entries = {} /\ s = Identity[p.txn]
    BY DEF TransferEntries
<1>2. s \in TransferCommands
    BY <1>1 DEF IInv, RunHolds, RunGood, TransferCommands
<1>3. g[s] \in EntryFor(s)
    BY DEF TransferEntries
<1> QED BY <1>2, <1>3 DEF EntryFor, Absent, IInv, LedgerInv, SourceHolds

LEMMA RunCommitStep ==
    ASSUME IInv, NEW r \in Runs, RunCommit(r)
    PROVE  IInv'
<1> DEFINE plan == run[r].plan
           auto == UNION {p.entries : p \in {x \in plan : x.status = "auto_accepted"}}
           written == Written(auto, run[r].seen)
<1>1. PICK g \in TransferEntries(plan),
           new \in [plan -> {m \in Matches : match[m] = Free}] :
          /\ \A p, x \in plan : new[p] = new[x] => p = x
          /\ match' = [m \in Matches |->
                IF \E p \in plan : new[p] = m
                THEN NewMatch(CHOOSE p \in plan : new[p] = m, g)
                ELSE IF \E p \in plan : p.old = m
                THEN [match[m] EXCEPT !.status = "superseded",
                         !.by = new[CHOOSE p \in plan : p.old = m]]
                ELSE match[m]]
          /\ status' = [e \in Entries |->
                IF e \in written \cup {g[s] : s \in DOMAIN g} /\ status[e] # "void"
                THEN "reconciled" ELSE status[e]]
          /\ source' = [e \in Entries |->
                IF e \in {g[s] : s \in DOMAIN g}
                THEN CHOOSE s \in DOMAIN g : g[s] = e ELSE source[e]]
    BY DEF RunCommit
<1> DEFINE transfers == {g[s] : s \in DOMAIN g}
<1>2. /\ UNCHANGED <<reversal, sign, req, live, review>>
      /\ run' = [run EXCEPT ![r] = RunIdle]
      /\ CanReconcile(written)
      /\ \A p \in plan : /\ p.txn \in live
                         /\ p.old # None => ~Locked(p.old)
    BY DEF RunCommit
<1>3. plan \subseteq Proposals
    BY DEF IInv, TypeOK, RunState
<1>4. written \subseteq Entries /\ \A e \in written : status[e] \in {"draft", "posted"}
    BY <1>2, <1>3 DEF Proposals, Written, CanReconcile, Allowed
<1>5. \A s \in DOMAIN g :
          /\ s \in TransferCommands /\ g[s] \in Entries
          /\ \/ source[g[s]] = s /\ status[g[s]] = "reconciled"
             \/ /\ source[g[s]] = None /\ status[g[s]] = "absent"
                /\ \A x \in Entries : source[x] # s
    BY TransferEntryFacts
<1>6. \A e \in transfers : /\ (CHOOSE s \in DOMAIN g : g[s] = e) \in DOMAIN g
                           /\ g[CHOOSE s \in DOMAIN g : g[s] = e] = e
    OBVIOUS
<1>7. DOMAIN g = {Identity[p.txn] : p \in {x \in plan : x.entries = {}}}
    BY DEF TransferEntries
<1>8. \A p \in plan :
          /\ new[p] \in Matches /\ match[new[p]] = Free
          /\ p.txn \in Txns /\ p.txn # None
          /\ p.entries = {} => Identity[p.txn] \in DOMAIN g /\ p.status = "auto_accepted"
          /\ p.status \in {"pending_review", "auto_accepted"}
          /\ p.entries \subseteq Entries
          /\ \A e \in p.entries : run[r].seen[e] # "absent" /\ status[e] # "absent"
          /\ p.old # None => p.old \in Matches /\ match[p.old].txn = p.txn
    BY <1>2, <1>3, <1>7 DEF IInv, RunHolds, RunGood, Proposals
<1>9. /\ \A p \in plan : (CHOOSE x \in plan : new[x] = new[p]) = p
      /\ status' = [e \in Entries |->
             IF e \in written \cup transfers /\ status[e] # "void"
             THEN "reconciled" ELSE status[e]]
      /\ source' = [e \in Entries |->
             IF e \in transfers THEN CHOOSE s \in DOMAIN g : g[s] = e ELSE source[e]]
      /\ match' = [m \in Matches |->
             IF \E p \in plan : new[p] = m
             THEN NewMatch(CHOOSE p \in plan : new[p] = m, g)
             ELSE IF \E p \in plan : p.old = m
             THEN [match[m] EXCEPT !.status = "superseded",
                      !.by = new[CHOOSE p \in plan : p.old = m]]
             ELSE match[m]]
    BY <1>1
<1> HIDE DEF plan, auto, written, transfers
\* The entries.
<1>10. Forward /\ \A e \in Entries : status'[e] \in {status[e], "reconciled"}
  <2>1. \A e \in transfers : status[e] \in {"absent", "reconciled"}
      BY <1>5 DEF transfers
  <2>2. \A e \in Entries : status'[e] = IF e \in written \cup transfers /\ status[e] # "void"
                                        THEN "reconciled" ELSE status[e]
      BY <1>9
  <2> QED BY <2>1, <2>2, <1>4 DEF Forward
<1>11. \A e \in transfers \cup written : status'[e] = "reconciled"
  <2>1. \A e \in transfers : e \in Entries /\ status[e] # "void"
      BY <1>5 DEF transfers
  <2>2. \A e \in Entries : status'[e] = IF e \in written \cup transfers /\ status[e] # "void"
                                        THEN "reconciled" ELSE status[e]
      BY <1>9
  <2> QED BY <2>1, <2>2, <1>4
<1>12. \A e \in Entries : status'[e] = "void" <=> status[e] = "void"
    BY <1>10 DEF Forward
\* The matches.
<1>13. ASSUME NEW p \in plan
       PROVE  /\ match'[new[p]] = NewMatch(p, g)
              /\ NewMatch(p, g) \in MatchRecord
              /\ NewMatch(p, g).status = p.status /\ NewMatch(p, g).txn = p.txn
              /\ NewMatch(p, g).by = None
              /\ \/ NewMatch(p, g).entries = p.entries
                 \/ p.entries = {} /\ NewMatch(p, g).entries \subseteq transfers
  <2>1. match'[new[p]] = NewMatch(p, g)
      BY <1>8, <1>9
  <2>2. p.entries = {} => g[Identity[p.txn]] \in transfers /\ g[Identity[p.txn]] \in Entries
      BY <1>5, <1>8 DEF transfers
  <2> QED BY <2>1, <2>2, <1>8 DEF NewMatch, MatchRecord, MatchStatus
<1> DEFINE New(m) == \E p \in plan : m = new[p] /\ match'[m] = NewMatch(p, g)
           Old(m) == /\ match[m] \in MatchRecord /\ match'[m] \in MatchRecord
                     /\ match'[m].status = "superseded"
                     /\ match'[m].txn = match[m].txn
                     /\ match'[m].entries = match[m].entries
                     /\ ~Locked(m)
                     /\ \E p \in plan : p.txn = match[m].txn
           Same(m) == match'[m] = match[m]
<1>14. ASSUME NEW m \in Matches PROVE New(m) \/ Old(m) \/ Same(m)
  <2>1. CASE \E p \in plan : new[p] = m
      BY <2>1, <1>13
  <2>2. CASE ~(\E p \in plan : new[p] = m) /\ \E p \in plan : p.old = m
    <3>1. PICK p \in plan : p.old = m
        BY <2>2
    <3>2. match[m].txn = p.txn /\ p.txn # None /\ ~Locked(m)
        BY <1>2, <1>8, <3>1
    <3>3. match[m] \in MatchRecord
        BY <3>2, MatchTxn DEF IInv
    <3>4. (CHOOSE x \in plan : x.old = m) \in plan
        BY <3>1
    <3>5. new[CHOOSE x \in plan : x.old = m] \in Matches
        BY <3>4, <1>8
    <3>6. match'[m] = [match[m] EXCEPT !.status = "superseded",
                          !.by = new[CHOOSE x \in plan : x.old = m]]
        BY <1>9, <2>2
    <3> DEFINE by == new[CHOOSE x \in plan : x.old = m]
    <3> HIDE DEF plan, by
    <3>7. /\ match'[m] \in MatchRecord /\ match'[m].status = "superseded"
          /\ match'[m].txn = match[m].txn /\ match'[m].entries = match[m].entries
        <4>1. by \in Matches /\ match'[m] = [match[m] EXCEPT !.status = "superseded", !.by = by]
            BY <3>5, <3>6 DEF by
        <4> QED BY <3>3, <4>1 DEF MatchRecord, MatchStatus
    <3> QED BY <3>1, <3>2, <3>3, <3>7
  <2>3. CASE ~(\E p \in plan : new[p] = m) /\ ~\E p \in plan : p.old = m
      BY <1>9, <2>3
  <2> QED BY <2>1, <2>2, <2>3
<1>15. \A m \in Matches : New(m) => match[m] = Free
    BY <1>8
<1> HIDE DEF New, Old, Same
<1>16. TypeOK'
  <2>1. LedgerTypeOK'
    <3>1. \A e \in Entries : e \in transfers =>
              (CHOOSE s \in DOMAIN g : g[s] = e) \in Sources
        BY <1>5, <1>6, TransferIdentity DEF transfers
    <3>2. source' \in [Entries -> Entries \cup Sources \cup {None}]
      <4>1. source' = [e \in Entries |->
                IF e \in transfers THEN CHOOSE s \in DOMAIN g : g[s] = e ELSE source[e]]
          BY <1>9
      <4>2. \A e \in Entries : source[e] \in Entries \cup Sources \cup {None}
          BY DEF IInv, TypeOK, LedgerTypeOK
      <4> QED BY <3>1, <4>1, <4>2
    <3>3. status' \in [Entries -> EntryStatus]
      <4>1. status' = [e \in Entries |->
                IF e \in written \cup transfers /\ status[e] # "void"
                THEN "reconciled" ELSE status[e]]
          BY <1>9
      <4>2. \A e \in Entries : status[e] \in EntryStatus
          BY DEF IInv, TypeOK, LedgerTypeOK
      <4> QED BY <4>1, <4>2 DEF EntryStatus
    <3> QED BY <3>2, <3>3, <1>2 DEF IInv, TypeOK, LedgerTypeOK
  <2>2. match' \in [Matches -> {Free, Gone} \cup MatchRecord]
    <3>1. DOMAIN match' = Matches /\ match' = [m \in Matches |-> match'[m]]
        BY <1>9
    <3> SUFFICES ASSUME NEW m \in Matches PROVE match'[m] \in {Free, Gone} \cup MatchRecord
        BY <3>1
    <3> QED BY <1>13, <1>14 DEF New, Old, Same, IInv, TypeOK
  <2>3. RunIdle \in RunState
      BY DEF RunIdle, RunState, EntryStatus
  <2>4. run' \in [Runs -> RunState]
      BY <2>3, <1>2 DEF IInv, TypeOK
  <2> QED BY <2>1, <2>2, <2>4, <1>2 DEF IInv, TypeOK
<1>17. LedgerInv'
  <2> DEFINE T(e) == CHOOSE s \in DOMAIN g : g[s] = e
  <2>0. \A e \in transfers :
          /\ e \in Entries /\ T(e) \in TransferCommands /\ g[T(e)] = e /\ source'[e] = T(e)
          /\ \/ source[e] = T(e) /\ status[e] = "reconciled"
             \/ /\ source[e] = None /\ status[e] = "absent"
                /\ \A x \in Entries : source[x] # T(e)
    <3> SUFFICES ASSUME NEW e \in transfers
                 PROVE  /\ e \in Entries /\ T(e) \in TransferCommands /\ g[T(e)] = e /\ source'[e] = T(e)
                        /\ \/ source[e] = T(e) /\ status[e] = "reconciled"
                           \/ /\ source[e] = None /\ status[e] = "absent"
                              /\ \A x \in Entries : source[x] # T(e)
        OBVIOUS
    <3>1. T(e) \in DOMAIN g /\ g[T(e)] = e
        BY <1>6
    <3>2. e \in Entries
        BY <3>1, <1>5
    <3>3. source'[e] = T(e)
        BY <3>2, <1>9
    <3> QED BY <3>1, <3>2, <3>3, <1>5
  <2>1. \A e \in Entries : e \notin transfers => source'[e] = source[e]
      BY <1>9
  <2> HIDE DEF T
  <2>2. SourceHolds'
    <3> SUFFICES ASSUME NEW e \in Entries
                 PROVE  /\ status'[e] = "absent" => source'[e] = None
                        /\ source'[e] \in TransferCommands => status'[e] = "reconciled"
        BY DEF SourceHolds
    <3>1. CASE e \in transfers
        BY <3>1, <1>11
    <3>2. CASE e \notin transfers
        BY <3>2, <2>1, <1>10 DEF IInv, LedgerInv, SourceHolds, Forward
    <3> QED BY <3>1, <3>2
  <2>3. RecordedOnce'
    <3> SUFFICES ASSUME NEW e \in Entries, NEW f \in Entries,
                        source'[e] = source'[f], source'[e] # None
                 PROVE e = f
        BY DEF RecordedOnce
    <3>1. CASE e \in transfers /\ f \in transfers
        BY <3>1, <2>0
    <3>2. CASE e \in transfers /\ f \notin transfers
        BY <3>2, <2>0, <2>1 DEF IInv, LedgerInv, RecordedOnce
    <3>3. CASE e \notin transfers /\ f \in transfers
        BY <3>3, <2>0, <2>1 DEF IInv, LedgerInv, RecordedOnce
    <3>4. CASE e \notin transfers /\ f \notin transfers
        BY <3>4, <2>1 DEF IInv, LedgerInv, RecordedOnce
    <3> QED BY <3>1, <3>2, <3>3, <3>4
  <2>4. ASSUME NEW x \in Entries
        PROVE {y \in Entries : source'[y] = x} = {y \in Entries : source[y] = x}
    <3>1. ASSUME NEW y \in Entries PROVE source'[y] = x <=> source[y] = x
        BY <2>0, <2>1, TransferIdentity
    <3> QED BY <3>1
  <2>5. ReversedOnce'
    <3> SUFFICES ASSUME NEW x \in Entries
                 PROVE {y \in Entries : source'[y] = x} =
                           IF status'[x] = "void" THEN {reversal'[x]} ELSE {}
        BY DEF ReversedOnce
    <3> QED BY <2>4, <1>2, <1>12 DEF IInv, LedgerInv, ReversedOnce
  <2> QED BY <2>2, <2>3, <2>5 DEF LedgerInv
<1>18. LinkedExist'
  <2> SUFFICES ASSUME NEW m \in Matches, NEW e \in match'[m].entries
               PROVE  status'[e] # "absent"
      BY DEF LinkedExist
  <2>1. CASE New(m)
    <3>1. PICK p \in plan : match'[m] = NewMatch(p, g)
        BY <2>1 DEF New
    <3>2. CASE e \in p.entries
        BY <3>2, <1>8, <1>10
    <3>3. CASE e \in transfers
        BY <3>3, <1>11
    <3> QED BY <3>1, <3>2, <3>3, <1>13
  <2>2. CASE Old(m) \/ Same(m)
    <3>1. e \in match[m].entries
        BY <2>2 DEF Old, Same
    <3>2. e \in Entries
        BY <3>1 DEF IInv, TypeOK, Free, Gone, MatchRecord
    <3> QED BY <3>1, <3>2, <1>10 DEF IInv, LinkedExist
  <2> QED BY <1>14, <2>1, <2>2
<1>19. ReviewHolds' /\ LockIsExclusive'
  <2>1. LockIsExclusive'
      BY <1>2 DEF IInv, LockIsExclusive
  <2> SUFFICES ASSUME NEW v \in Reviews PROVE ReviewGood(v)'
      BY <2>1 DEF ReviewHolds
  <2>2. ReviewGood(v) /\ review' = review
      BY <1>2 DEF IInv, ReviewHolds
  <2> DEFINE m == review[v].match
  <2>3. review[v].op \in {"accept", "batch_accept", "batch_reject"} => m \in Matches
      BY DEF IInv, TypeOK, NoReview, ReviewState
  <2>4. CASE review[v].op \in {"batch_accept", "batch_reject"}
    <3>1. match[m].status # "free"
        BY <2>2, <2>4 DEF ReviewGood
    <3>2. ~New(m)
        BY <2>3, <2>4, <3>1, <1>15 DEF Free
    <3>3. match'[m].status # "free"
        BY <2>3, <2>4, <3>1, <3>2, <1>14 DEF Old, Same
    <3> QED BY <2>2, <2>4, <3>3 DEF ReviewGood
  <2>5. CASE review[v].op = "accept"
    <3>1. match[m] \in MatchRecord
        BY <2>2, <2>5 DEF ReviewGood
    <3>2. ~New(m) /\ ~Old(m)
        BY <2>3, <2>5, <3>1, <1>15 DEF Free, Old, Locked, MatchRecord, MatchStatus
    <3>3. match'[m] = match[m]
        BY <2>3, <2>5, <3>2, <1>14 DEF Same
    <3>4. \A e \in match[m].entries : e \in Entries
        BY <2>3, <2>5 DEF IInv, TypeOK, Free, Gone, MatchRecord
    <3> QED BY <2>2, <2>5, <3>3, <3>4, <1>10 DEF ReviewGood, Forward
  <2>6. CASE review[v].op \notin {"accept", "batch_accept", "batch_reject"}
      BY <2>2, <2>6 DEF ReviewGood
  <2> QED BY <2>4, <2>5, <2>6
<1>20. RunHolds'
  <2> SUFFICES ASSUME NEW x \in Runs PROVE RunGood(x)'
      BY DEF RunHolds
  <2>1. CASE x = r
    <3>1. run'[x] = RunIdle
        BY <2>1, <1>2 DEF IInv, TypeOK
    <3> QED BY <3>1 DEF RunIdle, RunGood
  <2>2. CASE x # r
    <3>1. run'[x] = run[x] /\ RunGood(x) /\ live' = live
        BY <2>2, <1>2 DEF IInv, TypeOK, RunHolds
    <3>2. ASSUME NEW p \in run[x].plan, p.old # None
          PROVE  p.txn \notin live' \/ match'[p.old].txn = p.txn
      <4>1. p.old \in Matches /\ p.txn \in Txns
          BY <3>2 DEF IInv, TypeOK, RunState, Proposals
      <4>2. p.txn \notin live \/ match[p.old].txn = p.txn
          BY <3>1, <3>2 DEF RunGood
      <4>3. CASE match[p.old].txn = p.txn
        <5>1. ~New(p.old)
            BY <4>1, <4>3, <1>15 DEF Free
        <5> QED BY <4>1, <4>3, <5>1, <1>14 DEF Old, Same
      <4> QED BY <4>2, <4>3, <3>1
    <3> QED BY <3>1, <3>2, <1>10 DEF RunGood, Forward
  <2> QED BY <2>1, <2>2
<1>21. AcceptedIsBacked'
  <2> SUFFICES ASSUME NEW m \in Matches, NEW e \in match'[m].entries
               PROVE  /\ match'[m].status = "auto_accepted" => status'[e] = "reconciled"
                      /\ match'[m].status = "accepted" => status'[e] \in {"reconciled", "void"}
      BY DEF AcceptedIsBacked
  <2>1. CASE New(m)
    <3>1. PICK p \in plan : match'[m] = NewMatch(p, g)
        BY <2>1 DEF New
    <3>2. match'[m].status = p.status /\ p.status \in {"pending_review", "auto_accepted"}
        BY <3>1, <1>8, <1>13
    <3>3. CASE e \in transfers
        BY <3>2, <3>3, <1>11
    <3>4. CASE e \in p.entries /\ p.status = "auto_accepted"
      <4>1. e \in Entries /\ e \in auto
          BY <3>4, <1>8 DEF auto
      <4>2. run[r].seen[e] \in {"draft", "posted"} \/ status[e] = "reconciled"
          BY <4>1, <3>4, <1>8 DEF IInv, RunHolds, RunGood
      <4>3. CASE run[r].seen[e] \in {"draft", "posted"}
        <5>1. e \in written
            BY <4>1, <4>3 DEF written, Written
        <5> QED BY <5>1, <3>2, <3>4, <1>11
      <4>4. CASE status[e] = "reconciled"
          BY <4>1, <4>4, <1>10, <3>2, <3>4 DEF Forward
      <4> QED BY <4>2, <4>3, <4>4
    <3> QED BY <3>1, <3>2, <3>3, <3>4, <1>13
  <2>2. CASE Old(m)
      BY <2>2 DEF Old
  <2>3. CASE Same(m)
    <3>1. e \in Entries /\ match'[m] = match[m]
        BY <2>3 DEF Same, IInv, TypeOK, Free, Gone, MatchRecord
    <3> QED BY <3>1, <1>10 DEF IInv, AcceptedIsBacked, Forward
  <2> QED BY <1>14, <2>1, <2>2, <2>3
<1>22. StillMatched'
  <2> SUFFICES ASSUME NEW t \in Txns, Of(t)' # {} PROVE Active(t)' # {}
      BY DEF StillMatched
  <2>1. CASE \E p \in plan : p.txn = t
    <3>1. PICK p \in plan : p.txn = t
        BY <2>1
    <3>2. new[p] \in Matches /\ match'[new[p]] = NewMatch(p, g)
        BY <1>8, <1>13
    <3>3. new[p] \in Active(t)'
        BY <3>1, <3>2, <1>8, <1>13 DEF Active, Of
    <3> QED BY <3>3
  <2>2. CASE \A p \in plan : p.txn # t
    <3>1. PICK m \in Matches : match'[m].txn = t
        BY DEF Of
    <3>2. ~New(m)
        BY <3>1, <2>2, <1>13 DEF New
    <3>3. match[m].txn = t
        BY <3>1, <3>2, <1>14 DEF Old, Same
    <3>4. PICK a \in Active(t) : TRUE
        BY <3>3 DEF IInv, StillMatched, Of
    <3>5. a \in Matches /\ match[a].txn = t /\ match[a] # Free
        BY <3>4 DEF Active, Of, Free
    <3>6. match'[a] = match[a]
        BY <3>5, <2>2, <1>14, <1>15 DEF Old, Same
    <3>7. a \in Active(t)'
        BY <3>4, <3>6 DEF Active, Of
    <3> QED BY <3>7
  <2> QED BY <2>1, <2>2
<1> QED BY <1>16, <1>17, <1>18, <1>19, <1>20, <1>21, <1>22 DEF IInv
-----------------------------------------------------------------------------
(* Steps of a review, and the deletion of a transaction. *)

\* The journal is left alone.
LEMMA LedgerUnchanged ==
    ASSUME LedgerInv, UNCHANGED <<status, source, reversal>>
    PROVE  LedgerInv'
BY DEF LedgerInv, SourceHolds, ReversedOnce, RecordedOnce

\* accept_match, from either of its callers, locks a match in use.
LEMMA LocksStep ==
    ASSUME IInv, NEW v \in Reviews, NEW m \in Matches, match[m] \in MatchRecord,
           Locks(v, m)
    PROVE  IInv'
<1>1. /\ UNCHANGED <<status, source, reversal, sign, req, live, match, run>>
      /\ ~Locked(m)
      /\ review' = [review EXCEPT ![v] =
            [op |-> "accept", match |-> m,
             seen |-> [e \in Entries |-> IF e \in match[m].entries THEN status[e] ELSE "absent"]]]
    BY DEF Locks, ledger
<1>2. review'[v] = [op |-> "accept", match |-> m,
             seen |-> [e \in Entries |-> IF e \in match[m].entries THEN status[e] ELSE "absent"]]
      /\ \A w \in Reviews : w # v => review'[w] = review[w]
    BY <1>1 DEF IInv, TypeOK
<1>3. status \in [Entries -> EntryStatus] /\ match[m].entries \subseteq Entries
    BY DEF IInv, TypeOK, LedgerTypeOK, Free, Gone, MatchRecord
<1>4. TypeOK'
  <2>1. review'[v] \in ReviewState
      BY <1>2, <1>3 DEF ReviewState, EntryStatus
  <2> QED BY <2>1, <1>1 DEF IInv, TypeOK, LedgerTypeOK
<1>5. LockIsExclusive'
    BY <1>1, <1>2 DEF IInv, LockIsExclusive, Locked
<1>6. ReviewHolds'
  <2> SUFFICES ASSUME NEW w \in Reviews PROVE ReviewGood(w)'
      BY DEF ReviewHolds
  <2>1. CASE w = v
    <3>1. \A e \in match[m].entries : status[e] # "absent"
        BY DEF IInv, LinkedExist
    <3> QED BY <2>1, <3>1, <1>1, <1>2, <1>3 DEF ReviewGood, EntryStatus
  <2>2. CASE w # v
      BY <2>2, <1>1, <1>2 DEF IInv, ReviewHolds, ReviewGood
  <2> QED BY <2>1, <2>2
<1>7. LinkedExist' /\ RunHolds' /\ AcceptedIsBacked' /\ StillMatched'
    BY <1>1 DEF IInv, LinkedExist, RunHolds, RunGood, AcceptedIsBacked, StillMatched, Of, Active
<1> QED BY <1>1, <1>4, <1>5, <1>6, <1>7, LedgerUnchanged DEF IInv

LEMMA AcceptReadStep ==
    ASSUME IInv, NEW v \in Reviews, NEW m \in Matches, AcceptRead(v, m)
    PROVE  IInv'
<1>1. match[m] \in MatchRecord /\ Locks(v, m)
    BY UsedMatch DEF AcceptRead, IInv, Free, Gone
<1> QED BY <1>1, LocksStep

LEMMA BatchAcceptStep ==
    ASSUME IInv, NEW v \in Reviews, BatchAccept(v)
    PROVE  IInv'
<1> DEFINE m == review[v].match
<1>1. review[v].op = "batch_accept" /\ match[m] # Gone /\ Locks(v, m)
    BY DEF BatchAccept
<1>2. m \in Matches
    BY <1>1 DEF IInv, TypeOK, NoReview, ReviewState
<1>3. match[m] \in MatchRecord
  <2>1. match[m].status # "free"
      BY <1>1 DEF IInv, ReviewHolds, ReviewGood
  <2> QED BY <2>1, <1>1, <1>2, UsedMatch DEF IInv, Free
<1> HIDE DEF m
<1> QED BY <1>1, <1>2, <1>3, LocksStep

LEMMA BatchReadStep ==
    ASSUME IInv, NEW v \in Reviews, NEW m \in Matches,
           NEW op \in {"batch_accept", "batch_reject"}, BatchRead(v, op, m)
    PROVE  IInv'
<1>1. /\ UNCHANGED <<status, source, reversal, sign, req, live, match, run>>
      /\ match[m].status = "pending_review"
      /\ review' = [review EXCEPT ![v] = [NoReview EXCEPT !.op = op, !.match = m]]
    BY DEF BatchRead, ledger
<1>2. /\ review'[v] \in ReviewState /\ review'[v].op = op /\ review'[v].match = m
      /\ \A w \in Reviews : w # v => review'[w] = review[w]
    BY <1>1 DEF IInv, TypeOK, NoReview, ReviewState, EntryStatus
<1>3. TypeOK'
    BY <1>1, <1>2 DEF IInv, TypeOK, LedgerTypeOK
<1>4. LockIsExclusive'
    BY <1>2 DEF IInv, LockIsExclusive
<1>5. ReviewHolds'
    BY <1>1, <1>2 DEF IInv, ReviewHolds, ReviewGood
<1>6. LinkedExist' /\ RunHolds' /\ AcceptedIsBacked' /\ StillMatched'
    BY <1>1 DEF IInv, LinkedExist, RunHolds, RunGood, AcceptedIsBacked, StillMatched, Of, Active
<1> QED BY <1>1, <1>3, <1>4, <1>5, <1>6, LedgerUnchanged DEF IInv

LEMMA ReviewFailsStep ==
    ASSUME IInv, NEW v \in Reviews, ReviewFails(v)
    PROVE  IInv'
<1>1. /\ UNCHANGED <<status, source, reversal, sign, req, live, match, run>>
      /\ review' = [review EXCEPT ![v] = NoReview]
    BY DEF ReviewFails, ledger
<1>2. /\ review'[v].op = "idle"
      /\ \A w \in Reviews : w # v => review'[w] = review[w]
    BY <1>1 DEF IInv, TypeOK, NoReview
<1>3. TypeOK'
    BY <1>1 DEF IInv, TypeOK, LedgerTypeOK
<1>4. LockIsExclusive' /\ ReviewHolds'
    BY <1>1, <1>2 DEF IInv, LockIsExclusive, ReviewHolds, ReviewGood
<1>5. LinkedExist' /\ RunHolds' /\ AcceptedIsBacked' /\ StillMatched'
    BY <1>1 DEF IInv, LinkedExist, RunHolds, RunGood, AcceptedIsBacked, StillMatched, Of, Active
<1> QED BY <1>1, <1>3, <1>4, <1>5, LedgerUnchanged DEF IInv

\* Writing the status of one match that is in use.
LEMMA StatusWritten ==
    ASSUME TypeOK, StillMatched, NEW m \in Matches, NEW s \in MatchStatus \ {"superseded"},
           match[m] \in MatchRecord, match' = [match EXCEPT ![m].status = s]
    PROVE  /\ match' \in [Matches -> {Free, Gone} \cup MatchRecord]
           /\ match'[m].status = s
           /\ \A x \in Matches : /\ match'[x].entries = match[x].entries
                                 /\ match'[x].txn = match[x].txn
                                 /\ x # m => match'[x] = match[x]
           /\ StillMatched'
<1>1. match' = [match EXCEPT ![m] = [match[m] EXCEPT !.status = s]]
    BY DEF TypeOK
<1>2. [match[m] EXCEPT !.status = s] \in MatchRecord
    BY DEF MatchRecord
<1>3. /\ match'[m].status = s /\ match'[m].by = match[m].by
      /\ \A x \in Matches : /\ match'[x].entries = match[x].entries
                            /\ match'[x].txn = match[x].txn
                            /\ x # m => match'[x] = match[x]
    BY <1>1 DEF TypeOK, MatchRecord
<1>4. StillMatched'
  <2> SUFFICES ASSUME NEW t \in Txns, Of(t)' # {} PROVE Active(t)' # {}
      BY DEF StillMatched
  <2>1. PICK a \in Active(t) : TRUE
      BY <1>3 DEF StillMatched, Of
  <2>2. a \in Active(t)'
      BY <2>1, <1>3 DEF Active, Of
  <2> QED BY <2>2
<1> QED BY <1>1, <1>2, <1>3, <1>4 DEF TypeOK

LEMMA AcceptStep ==
    ASSUME IInv, NEW v \in Reviews, Accept(v)
    PROVE  IInv'
<1> DEFINE m == review[v].match
           written == Written(match[m].entries, review[v].seen)
<1>1. /\ review[v].op = "accept"
      /\ CanReconcile(written)
      /\ match' = [match EXCEPT ![m].status = "accepted"]
      /\ status' = [e \in Entries |-> IF e \in written THEN "reconciled" ELSE status[e]]
      /\ review' = [review EXCEPT ![v] = NoReview]
      /\ UNCHANGED <<source, reversal, sign, req, live, run>>
    BY DEF Accept
<1>2. m \in Matches
    BY <1>1 DEF IInv, TypeOK, NoReview, ReviewState
<1>3. \A e \in match[m].entries :
            /\ review[v].seen[e] \in {"draft", "posted", "reconciled", "void"}
            /\ review[v].seen[e] \in {"reconciled", "void"} => status[e] = review[v].seen[e]
    BY <1>1 DEF Accept, IInv, ReviewHolds, ReviewGood
<1>4. match[m] \in MatchRecord
    BY <1>1 DEF IInv, ReviewHolds, ReviewGood
<1>5. written \subseteq Entries /\ \A e \in written : status[e] \in {"draft", "posted"}
    BY <1>1, <1>4 DEF MatchRecord, Written, CanReconcile, Allowed
<1>6. \A e \in match[m].entries :
          e \in Entries /\ (e \in written \/ status[e] \in {"reconciled", "void"})
    BY <1>3, <1>4 DEF Written, MatchRecord
<1> HIDE DEF written
<1>7. /\ match' \in [Matches -> {Free, Gone} \cup MatchRecord]
      /\ match'[m].status = "accepted"
      /\ \A x \in Matches : /\ match'[x].entries = match[x].entries
                            /\ match'[x].txn = match[x].txn
                            /\ x # m => match'[x] = match[x]
      /\ StillMatched'
  <2>1. "accepted" \in MatchStatus \ {"superseded"}
      BY DEF MatchStatus
  <2> QED BY <2>1, <1>1, <1>2, <1>4, StatusWritten DEF IInv
<1>8. /\ Forward
      /\ \A e \in Entries : status'[e] \in {status[e], "reconciled"}
      /\ \A e \in written : status'[e] = "reconciled"
    BY <1>1, <1>5 DEF Forward
<1>9. \A w \in Reviews : w # v => review'[w] = review[w]
    BY <1>1 DEF IInv, TypeOK
<1>10. review'[v].op = "idle"
    BY <1>1 DEF IInv, TypeOK, NoReview
<1> HIDE DEF m
<1>11. TypeOK'
    BY <1>1, <1>7 DEF IInv, TypeOK, LedgerTypeOK, EntryStatus
<1>12. LedgerInv'
  <2>1. \A e \in Entries : status'[e] = "void" <=> status[e] = "void"
      BY <1>8 DEF Forward
  <2>2. SourceHolds'
      BY <1>1, <1>8 DEF IInv, LedgerInv, SourceHolds, Forward
  <2>3. RecordedOnce'
      BY <1>1 DEF IInv, LedgerInv, RecordedOnce
  <2>4. ReversedOnce'
      BY <1>1, <2>1 DEF IInv, LedgerInv, ReversedOnce
  <2> QED BY <2>2, <2>3, <2>4 DEF LedgerInv
<1>13. \A x \in Matches : match[x].entries \subseteq Entries
    BY DEF IInv, TypeOK, Free, Gone, MatchRecord
<1>14. LinkedExist'
    BY <1>7, <1>8, <1>13 DEF IInv, LinkedExist
<1>15. LockIsExclusive'
    BY <1>9, <1>10 DEF IInv, LockIsExclusive
<1>16. ReviewHolds'
  <2> SUFFICES ASSUME NEW w \in Reviews PROVE ReviewGood(w)'
      BY DEF ReviewHolds
  <2>1. CASE w = v
      BY <2>1, <1>10 DEF ReviewGood
  <2>2. CASE w # v
    <3>1. review'[w] = review[w] /\ ReviewGood(w)
        BY <2>2, <1>9 DEF IInv, ReviewHolds
    <3>2. review[w].op \in {"accept", "batch_accept", "batch_reject"} => review[w].match \in Matches
        BY DEF IInv, TypeOK, NoReview, ReviewState
    <3>3. review[w].op = "accept" => review[w].match # m
        BY <2>2, <1>1 DEF IInv, LockIsExclusive, m
    <3> QED BY <3>1, <3>2, <3>3, <1>7, <1>8, <1>13 DEF ReviewGood, Forward
  <2> QED BY <2>1, <2>2
<1>17. RunHolds'
  <2> SUFFICES ASSUME NEW x \in Runs PROVE RunGood(x)'
      BY DEF RunHolds
  <2>1. RunGood(x) /\ run' = run /\ live' = live
      BY <1>1 DEF IInv, RunHolds
  <2>2. \A p \in run[x].plan : p.old # None => p.old \in Matches
      BY DEF IInv, TypeOK, RunState, Proposals
  <2> QED BY <2>1, <2>2, <1>7, <1>8 DEF RunGood, Forward
<1>18. AcceptedIsBacked'
  <2> SUFFICES ASSUME NEW x \in Matches, NEW e \in match'[x].entries
               PROVE  /\ match'[x].status = "auto_accepted" => status'[e] = "reconciled"
                      /\ match'[x].status = "accepted" => status'[e] \in {"reconciled", "void"}
      BY DEF AcceptedIsBacked
  <2>1. e \in match[x].entries /\ e \in Entries
      BY <1>7, <1>13
  <2>2. CASE x = m
      BY <2>1, <2>2, <1>6, <1>7, <1>8 DEF Forward
  <2>3. CASE x # m
      BY <2>1, <2>3, <1>7, <1>8 DEF IInv, AcceptedIsBacked, Forward
  <2> QED BY <2>2, <2>3
<1> QED BY <1>7, <1>11, <1>12, <1>14, <1>15, <1>16, <1>17, <1>18 DEF IInv

\* Both rejections: one match becomes rejected, and a review may end.
LEMMA RejectionStep ==
    ASSUME IInv, NEW m \in Matches, match[m] \in MatchRecord, ~Locked(m),
           match' = [match EXCEPT ![m].status = "rejected"],
           UNCHANGED <<status, source, reversal, sign, req, live, run>>,
           review' \in [Reviews -> {NoReview} \cup ReviewState],
           \A w \in Reviews : review'[w] \in {review[w], NoReview}
    PROVE  IInv'
<1>1. /\ match' \in [Matches -> {Free, Gone} \cup MatchRecord]
      /\ match'[m].status = "rejected"
      /\ \A x \in Matches : /\ match'[x].entries = match[x].entries
                            /\ match'[x].txn = match[x].txn
                            /\ x # m => match'[x] = match[x]
      /\ StillMatched'
  <2>1. "rejected" \in MatchStatus \ {"superseded"}
      BY DEF MatchStatus
  <2> QED BY <2>1, StatusWritten DEF IInv
<1>2. TypeOK'
    BY <1>1 DEF IInv, TypeOK, LedgerTypeOK
<1>3. LinkedExist' /\ AcceptedIsBacked'
    BY <1>1 DEF IInv, LinkedExist, AcceptedIsBacked
<1>4. LockIsExclusive'
    BY DEF IInv, LockIsExclusive, NoReview
<1>5. ReviewHolds'
  <2> SUFFICES ASSUME NEW w \in Reviews PROVE ReviewGood(w)'
      BY DEF ReviewHolds
  <2>1. CASE review'[w] = NoReview
      BY <2>1 DEF ReviewGood, NoReview
  <2>2. CASE review'[w] = review[w]
    <3>1. ReviewGood(w)
        BY DEF IInv, ReviewHolds
    <3>2. review[w].op \in {"accept", "batch_accept", "batch_reject"} => review[w].match \in Matches
        BY DEF IInv, TypeOK, NoReview, ReviewState
    <3>3. review[w].op = "accept" => review[w].match # m
        BY DEF Locked
    <3> QED BY <2>2, <3>1, <3>2, <3>3, <1>1 DEF ReviewGood
  <2> QED BY <2>1, <2>2
<1>6. RunHolds'
  <2> SUFFICES ASSUME NEW x \in Runs PROVE RunGood(x)'
      BY DEF RunHolds
  <2>1. RunGood(x)
      BY DEF IInv, RunHolds
  <2>2. \A p \in run[x].plan : p.old # None => p.old \in Matches
      BY DEF IInv, TypeOK, RunState, Proposals
  <2> QED BY <2>1, <2>2, <1>1 DEF RunGood
<1> QED BY <1>1, <1>2, <1>3, <1>4, <1>5, <1>6, LedgerUnchanged DEF IInv

LEMMA RejectStep ==
    ASSUME IInv, NEW m \in Matches, Reject(m)
    PROVE  IInv'
<1>1. match[m] \in MatchRecord
    BY UsedMatch DEF Reject, IInv, Free, Gone
<1> QED BY <1>1, RejectionStep DEF Reject, ledger, IInv, TypeOK

LEMMA BatchRejectStep ==
    ASSUME IInv, NEW v \in Reviews, BatchReject(v)
    PROVE  IInv'
<1> DEFINE m == review[v].match
<1>1. /\ review[v].op = "batch_reject" /\ match[m] # Gone /\ ~Locked(m)
      /\ match' = [match EXCEPT ![m].status = "rejected"]
      /\ review' = [review EXCEPT ![v] = NoReview]
      /\ UNCHANGED <<status, source, reversal, sign, req, live, run>>
    BY DEF BatchReject, ledger
<1>2. m \in Matches
    BY <1>1 DEF IInv, TypeOK, NoReview, ReviewState
<1>3. match[m] \in MatchRecord
  <2>1. match[m].status # "free"
      BY <1>1 DEF IInv, ReviewHolds, ReviewGood
  <2> QED BY <2>1, <1>1, <1>2, UsedMatch DEF IInv, Free
<1>4. /\ review' \in [Reviews -> {NoReview} \cup ReviewState]
      /\ \A w \in Reviews : review'[w] \in {review[w], NoReview}
    BY <1>1 DEF IInv, TypeOK
<1> HIDE DEF m
<1> QED BY <1>1, <1>2, <1>3, <1>4, RejectionStep

LEMMA RemoveTxnStep ==
    ASSUME IInv, NEW t \in Txns, RemoveTxn(t)
    PROVE  IInv'
<1>1. /\ \A m \in Of(t) : ~Locked(m)
      /\ live' = live \ {t}
      /\ match' = [m \in Matches |-> IF m \in Of(t) THEN Gone ELSE match[m]]
      /\ UNCHANGED <<status, source, reversal, sign, req, run, review>>
    BY DEF RemoveTxn, ledger
<1>2. TypeOK'
    BY <1>1 DEF IInv, TypeOK, LedgerTypeOK
<1>3. LinkedExist' /\ AcceptedIsBacked'
    BY <1>1 DEF IInv, LinkedExist, AcceptedIsBacked, Gone, Free
<1>4. StillMatched'
  <2> SUFFICES ASSUME NEW u \in Txns, Of(u)' # {} PROVE Active(u)' # {}
      BY DEF StillMatched
  <2>1. PICK m \in Matches : match'[m].txn = u
      BY DEF Of
  <2>2. m \notin Of(t) /\ match[m].txn = u
      BY <2>1, <1>1 DEF Gone, Free
  <2>3. PICK a \in Active(u) : TRUE
      BY <2>2 DEF IInv, StillMatched, Of
  <2>4. a \in Matches /\ a \notin Of(t) /\ match'[a] = match[a]
      BY <2>2, <2>3, <1>1 DEF Active, Of
  <2>5. a \in Active(u)'
      BY <2>3, <2>4 DEF Active, Of
  <2> QED BY <2>5
<1>5. ReviewHolds' /\ LockIsExclusive'
  <2>1. LockIsExclusive'
      BY <1>1 DEF IInv, LockIsExclusive
  <2> SUFFICES ASSUME NEW w \in Reviews PROVE ReviewGood(w)'
      BY <2>1 DEF ReviewHolds
  <2>2. ReviewGood(w)
      BY DEF IInv, ReviewHolds
  <2>3. review[w].op \in {"accept", "batch_accept", "batch_reject"} => review[w].match \in Matches
      BY DEF IInv, TypeOK, NoReview, ReviewState
  <2>4. review[w].op = "accept" => match'[review[w].match] = match[review[w].match]
      BY <2>3, <1>1 DEF Locked
  <2>5. review[w].op \in {"batch_accept", "batch_reject"} => match'[review[w].match].status # "free"
      BY <2>2, <2>3, <1>1 DEF ReviewGood, Gone, Free
  <2> QED BY <2>2, <2>4, <2>5, <1>1 DEF ReviewGood
<1>6. RunHolds'
  <2> SUFFICES ASSUME NEW x \in Runs PROVE RunGood(x)'
      BY DEF RunHolds
  <2>1. RunGood(x)
      BY DEF IInv, RunHolds
  <2>2. ASSUME NEW p \in run[x].plan, p.old # None
        PROVE  p.txn \notin live' \/ match'[p.old].txn = p.txn
    <3>1. p.old \in Matches /\ p.txn \in Txns
        BY <2>2 DEF IInv, TypeOK, RunState, Proposals
    <3> QED BY <2>1, <2>2, <3>1, <1>1 DEF RunGood, Of
  <2> QED BY <2>1, <2>2, <1>1 DEF RunGood
<1> QED BY <1>1, <1>2, <1>3, <1>4, <1>5, <1>6, LedgerUnchanged DEF IInv
-----------------------------------------------------------------------------
LEMMA Stutter == IInv /\ UNCHANGED vars => IInv'
BY DEF vars, ledger, IInv, TypeOK, LedgerTypeOK, LedgerInv, SourceHolds, ReversedOnce,
       RecordedOnce, LinkedExist, ReviewHolds, ReviewGood, LockIsExclusive, RunHolds,
       RunGood, AcceptedIsBacked, StillMatched, Of, Active

LEMMA NextInv == IInv /\ [Next]_vars => IInv'
<1> SUFFICES ASSUME IInv, [Next]_vars PROVE IInv'
    OBVIOUS
<1>1. CASE LedgerNext(Linked) /\ UNCHANGED <<live, match, run, review>>
    BY <1>1, LedgerStep
<1>2. ASSUME NEW r \in Runs, RunRead(r) \/ Propose(r) \/ RunCommit(r) \/ RunFails(r)
      PROVE IInv'
    BY <1>2, RunReadStep, ProposeStep, RunCommitStep, RunFailsStep
<1>3. ASSUME NEW v \in Reviews, NEW m \in Matches,
             AcceptRead(v, m) \/ \E op \in {"batch_accept", "batch_reject"} : BatchRead(v, op, m)
      PROVE IInv'
    BY <1>3, AcceptReadStep, BatchReadStep
<1>4. ASSUME NEW v \in Reviews,
             Accept(v) \/ BatchAccept(v) \/ BatchReject(v) \/ ReviewFails(v)
      PROVE IInv'
    BY <1>4, AcceptStep, BatchAcceptStep, BatchRejectStep, ReviewFailsStep
<1>5. ASSUME NEW m \in Matches, Reject(m) PROVE IInv'
    BY <1>5, RejectStep
<1>6. ASSUME NEW t \in Txns, RemoveTxn(t) PROVE IInv'
    BY <1>6, RemoveTxnStep
<1>7. CASE UNCHANGED vars
    BY <1>7, Stutter
<1> QED BY <1>1, <1>2, <1>3, <1>4, <1>5, <1>6, <1>7 DEF Next

\* What every theorem below follows from.
THEOREM Invariant == Spec => []IInv
<1>1. Init => IInv
    BY InitInv
<1>2. IInv /\ [Next]_vars => IInv'
    BY NextInv
<1> QED BY <1>1, <1>2, PTL DEF Spec

\* Every variable keeps its type; a match in use names at least one entry.
THEOREM TypeCorrect == Spec => []TypeOK
<1>1. IInv => TypeOK
    BY DEF IInv
<1> QED BY <1>1, Invariant, PTL

\* void_journal_entry, over the trigger and the lock of the reversal's
\* identity, reverses an entry once whatever interferes.
THEOREM ReversalOnce == Spec => []ReversedOnce
<1>1. IInv => ReversedOnce
    BY DEF IInv, LedgerInv
<1> QED BY <1>1, Invariant, PTL

\* submit_anchored_journal_entry records each command by one entry.
THEOREM CommandOnce == Spec => []RecordedOnce
<1>1. IInv => RecordedOnce
    BY DEF IInv, LedgerInv
<1> QED BY <1>1, Invariant, PTL

\* No interleaving of postings, voids, runs and reviews leaves an accepted
\* match with an entry that is neither reconciled nor voided before.
THEOREM AcceptedBacked == Spec => []AcceptedIsBacked
<1>1. IInv => AcceptedIsBacked
    BY DEF IInv
<1> QED BY <1>1, Invariant, PTL

\* Superseding and rejecting, by any number of runs and reviews at once,
\* never leaves a matched transaction without an active match.
THEOREM MatchedStays == Spec => []StillMatched
<1>1. IInv => StillMatched
    BY DEF IInv
<1> QED BY <1>1, Invariant, PTL
=============================================================================
