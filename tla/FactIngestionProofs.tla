------------------------- MODULE FactIngestionProofs -------------------------
(***************************************************************************)
(* Theorems about FactIngestion, for all values of its constants: what     *)
(* holds however ingestions interleave, and that those that share no row   *)
(* behave as if each were the one step that StatementLifecycle takes.      *)
(***************************************************************************)
EXTENDS FactIngestion, TLAPS

\* What a parse of a document yields are rows.
SourcesAreRows == Source \in [Docs -> SUBSET Rows]

-----------------------------------------------------------------------------
(* Type correctness *)

RowType == [id : Nat, docs : SUBSET Docs]

TxType ==
    [open   : BOOLEAN,
     detach : SUBSET Rows,
     read   : SUBSET Rows,
     upsert : SUBSET Rows,
     copy   : [Rows -> RowType],
     wrote  : SUBSET Rows,
     new    : [Rows -> RowType]]

TypeOK ==
    /\ row \in [Rows -> RowType]
    /\ lastId \in [Rows -> Nat]
    /\ ingested \subseteq Docs
    /\ tx \in [Docs -> TxType]

\* The row that is not there is a row, a closed transaction a transaction.
LEMMA IdleType == NoRow \in RowType /\ Idle \in TxType
  BY DEF NoRow, Idle, RowType, TxType

\* What a transaction finds is a row, and what it makes of one stays its own.
LEMMA NowType == ASSUME TypeOK, NEW d \in Docs, NEW r \in Rows PROVE Now(d, r) \in RowType
  BY DEF TypeOK, Now, TxType

\* A change adds a lock and the new row, and nothing else.
LEMMA ChangedType ==
    ASSUME NEW t \in TxType, NEW r \in Rows, NEW value \in RowType
    PROVE  /\ Changed(t, r, value) \in TxType
           /\ Changed(t, r, value).wrote = t.wrote \cup {r}
           /\ Changed(t, r, value).new = [t.new EXCEPT ![r] = value]
           /\ Changed(t, r, value).open = t.open
           /\ Changed(t, r, value).detach = t.detach
           /\ Changed(t, r, value).read = t.read
           /\ Changed(t, r, value).upsert = t.upsert
           /\ Changed(t, r, value).copy = t.copy
  BY DEF Changed, TxType

\* The rows a transaction writes: detached, claimed, or inserted under the next id.
LEMMA ValueTypes ==
    ASSUME TypeOK, NEW d \in Docs, NEW r \in Rows
    PROVE  /\ [Now(d, r) EXCEPT !.docs = tx[d].copy[r].docs \ {d}] \in RowType
           /\ [tx[d].copy[r] EXCEPT !.docs = @ \cup {d}] \in RowType
           /\ [id |-> lastId[r] + 1, docs |-> {d}] \in RowType
  <1>1. tx[d].copy[r] \in RowType
    BY DEF TypeOK, TxType
  <1>2. QED
    BY <1>1, NowType DEF TypeOK, RowType

(* What each step of a transaction leaves: another's as it was, its own field by
   field. *)
OnlyOwn(d) == tx' \in [Docs -> TxType] /\ \A u \in Docs \ {d} : tx'[u] = tx[u]

\* A transaction begins with the rows that name its document.
LEMMA BeginStep ==
    ASSUME TypeOK, SourcesAreRows, NEW d \in Docs, Begin(d)
    PROVE  /\ OnlyOwn(d)
           /\ tx'[d].open
           /\ tx'[d].detach = {r \in Rows : d \in row[r].docs}
           /\ tx'[d].read = {}
           /\ tx'[d].upsert = Source[d]
           /\ \A r \in tx'[d].detach : tx'[d].copy[r] = row[r]
           /\ tx'[d].wrote = {}
           /\ UNCHANGED <<row, lastId, ingested>>
  <1> DEFINE mine == {r \in Rows : d \in row[r].docs}
             copy == [r \in Rows |-> IF r \in mine THEN row[r] ELSE NoRow]
             begun == [Idle EXCEPT !.open = TRUE, !.detach = mine, !.upsert = Source[d],
                                   !.copy = copy]
  <1>1. copy \in [Rows -> RowType] /\ mine \in SUBSET Rows /\ Source[d] \in SUBSET Rows
    BY IdleType DEF TypeOK, SourcesAreRows
  <1>2. /\ begun.open = TRUE /\ begun.detach = mine /\ begun.read = {}
        /\ begun.upsert = Source[d] /\ begun.copy = copy /\ begun.wrote = {}
        /\ begun \in TxType
    <2> HIDE DEF mine, copy
    <2>1. QED
      BY <1>1, IdleType DEF Idle, TxType
  <1>3. \A r \in mine : copy[r] = row[r]
    OBVIOUS
  <1>4. tx' = [tx EXCEPT ![d] = begun] /\ UNCHANGED <<row, lastId, ingested>>
    BY DEF Begin
  <1>5. tx'[d] = begun /\ OnlyOwn(d)
    <2> HIDE DEF begun
    <2>1. QED
      BY <1>2, <1>4 DEF OnlyOwn, TypeOK
  <1> HIDE DEF begun, copy
  <1>6. QED
    BY <1>2, <1>3, <1>4, <1>5

\* A detached row is taken off the list; it is changed, unless it was gone.
LEMMA DetachStep ==
    ASSUME TypeOK, NEW d \in Docs, NEW r \in Rows, Detach(d, r)
    PROVE  LET rest == tx[d].copy[r].docs \ {d}
               found == Now(d, r).id = tx[d].copy[r].id
           IN
           /\ OnlyOwn(d)
           /\ r \in tx[d].detach /\ Unlocked(d, r)
           /\ tx'[d].open = tx[d].open
           /\ tx'[d].detach = tx[d].detach \ {r}
           /\ tx'[d].read = tx[d].read
           /\ tx'[d].upsert = tx[d].upsert
           /\ tx'[d].copy = tx[d].copy
           /\ \/ /\ found
                 /\ tx'[d].wrote = tx[d].wrote \cup {r}
                 /\ tx'[d].new = [tx[d].new EXCEPT ![r] =
                        IF rest = {} THEN NoRow ELSE [Now(d, r) EXCEPT !.docs = rest]]
              \/ /\ ~found /\ rest = {}
                 /\ tx'[d].wrote = tx[d].wrote
                 /\ tx'[d].new = tx[d].new
           /\ UNCHANGED <<row, lastId, ingested>>
  <1> DEFINE rest == tx[d].copy[r].docs \ {d}
             found == Now(d, r).id = tx[d].copy[r].id
             kept == [Now(d, r) EXCEPT !.docs = rest]
             done == [tx[d] EXCEPT !.detach = @ \ {r}]
  <1>1. /\ done \in TxType /\ done.open = tx[d].open /\ done.detach = tx[d].detach \ {r}
        /\ done.read = tx[d].read /\ done.upsert = tx[d].upsert /\ done.copy = tx[d].copy
        /\ done.wrote = tx[d].wrote /\ done.new = tx[d].new
    BY DEF TypeOK, TxType
  <1>2. kept \in RowType /\ NoRow \in RowType
    BY ValueTypes, IdleType
  <1>3. ASSUME NEW out \in TxType, tx' = [tx EXCEPT ![d] = out]
        PROVE  OnlyOwn(d) /\ tx'[d] = out
    BY <1>3 DEF OnlyOwn, TypeOK
  <1>4. /\ r \in tx[d].detach /\ Unlocked(d, r) /\ UNCHANGED <<row, lastId, ingested>>
        /\ \/ rest # {} /\ found /\ tx' = [tx EXCEPT ![d] = Changed(done, r, kept)]
           \/ rest = {} /\ found /\ tx' = [tx EXCEPT ![d] = Changed(done, r, NoRow)]
           \/ rest = {} /\ ~found /\ tx' = [tx EXCEPT ![d] = done]
    BY DEF Detach
  <1> HIDE DEF rest, found, kept, done
  <1>5. CASE rest # {} /\ found /\ tx' = [tx EXCEPT ![d] = Changed(done, r, kept)]
    <2>1. OnlyOwn(d) /\ tx'[d] = Changed(done, r, kept)
      BY <1>1, <1>2, <1>3, <1>5, ChangedType
    <2>2. /\ tx'[d].open = tx[d].open /\ tx'[d].detach = tx[d].detach \ {r}
          /\ tx'[d].read = tx[d].read /\ tx'[d].upsert = tx[d].upsert
          /\ tx'[d].copy = tx[d].copy /\ tx'[d].wrote = tx[d].wrote \cup {r}
          /\ tx'[d].new = [tx[d].new EXCEPT ![r] = kept]
      BY <1>1, <1>2, <2>1, ChangedType
    <2>3. (IF rest = {} THEN NoRow ELSE kept) = kept
      BY <1>5
    <2>4. QED
      BY <1>4, <1>5, <2>1, <2>2, <2>3 DEF rest, found, kept
  <1>6. CASE rest = {} /\ found /\ tx' = [tx EXCEPT ![d] = Changed(done, r, NoRow)]
    <2>1. OnlyOwn(d) /\ tx'[d] = Changed(done, r, NoRow)
      BY <1>1, <1>2, <1>3, <1>6, ChangedType
    <2>2. QED
      BY <1>1, <1>2, <1>4, <1>6, <2>1, ChangedType DEF rest, found
  <1>7. CASE rest = {} /\ ~found /\ tx' = [tx EXCEPT ![d] = done]
    BY <1>1, <1>3, <1>4, <1>7 DEF rest, found
  <1>8. QED
    BY <1>4, <1>5, <1>6, <1>7

\* The row to upsert is read as the transaction finds it.
LEMMA ReadStep ==
    ASSUME TypeOK, NEW d \in Docs, NEW r \in Rows, Read(d, r)
    PROVE  /\ OnlyOwn(d)
           /\ tx[d].open /\ tx[d].detach = {} /\ r \in tx[d].upsert
           /\ tx'[d].open = tx[d].open
           /\ tx'[d].detach = tx[d].detach
           /\ tx'[d].read = {r}
           /\ tx'[d].upsert = tx[d].upsert
           /\ tx'[d].copy[r] = Now(d, r)
           /\ tx'[d].wrote = tx[d].wrote
           /\ tx'[d].new = tx[d].new
           /\ UNCHANGED <<row, lastId, ingested>>
  <1> DEFINE copy == [tx[d].copy EXCEPT ![r] = Now(d, r)]
             next == [tx[d] EXCEPT !.read = {r}, !.copy = copy]
  <1>1. copy \in [Rows -> RowType] /\ copy[r] = Now(d, r)
    BY NowType DEF TypeOK, TxType
  <1>2. tx' = [tx EXCEPT ![d] = next]
    BY DEF Read, TypeOK, TxType
  <1> HIDE DEF copy
  <1>3. next \in TxType
    BY <1>1 DEF TypeOK, TxType
  <1>4. /\ next.open = tx[d].open /\ next.detach = tx[d].detach /\ next.read = {r}
        /\ next.upsert = tx[d].upsert /\ next.copy = copy /\ next.wrote = tx[d].wrote
        /\ next.new = tx[d].new
    BY DEF TypeOK, TxType
  <1> HIDE DEF next
  <1>5. tx'[d] = next /\ OnlyOwn(d)
    BY <1>2, <1>3 DEF OnlyOwn, TypeOK
  <1>6. QED
    BY <1>1, <1>4, <1>5 DEF Read


\* The read row is taken off the list: inserted under the next id, claimed by what
\* was read, or left since it already names the document.
LEMMA UpsertStep ==
    ASSUME TypeOK, NEW d \in Docs, NEW r \in Rows, Upsert(d, r)
    PROVE  LET copy == tx[d].copy[r]
               inserted == [id |-> lastId[r] + 1, docs |-> {d}]
               claimed == [copy EXCEPT !.docs = @ \cup {d}]
           IN
           /\ OnlyOwn(d)
           /\ r \in tx[d].read
           /\ tx'[d].open = tx[d].open
           /\ tx'[d].detach = tx[d].detach
           /\ tx'[d].read = {}
           /\ tx'[d].upsert = tx[d].upsert \ {r}
           /\ tx'[d].copy = tx[d].copy
           /\ \/ /\ copy = NoRow /\ Now(d, r) = NoRow /\ Unlocked(d, r)
                 /\ tx'[d].wrote = tx[d].wrote \cup {r}
                 /\ tx'[d].new = [tx[d].new EXCEPT ![r] = inserted]
                 /\ lastId' = [lastId EXCEPT ![r] = @ + 1]
              \/ /\ copy # NoRow /\ d \notin copy.docs /\ Unlocked(d, r)
                 /\ Now(d, r).id = copy.id
                 /\ tx'[d].wrote = tx[d].wrote \cup {r}
                 /\ tx'[d].new = [tx[d].new EXCEPT ![r] = claimed]
                 /\ lastId' = lastId
              \/ /\ d \in copy.docs
                 /\ tx'[d].wrote = tx[d].wrote
                 /\ tx'[d].new = tx[d].new
                 /\ lastId' = lastId
           /\ UNCHANGED <<row, ingested>>
  <1> DEFINE copy == tx[d].copy[r]
             inserted == [id |-> lastId[r] + 1, docs |-> {d}]
             claimed == [copy EXCEPT !.docs = @ \cup {d}]
             done == [tx[d] EXCEPT !.read = {}, !.upsert = @ \ {r}]
             next == [lastId EXCEPT ![r] = @ + 1]
  <1>1. /\ done \in TxType /\ done.open = tx[d].open /\ done.detach = tx[d].detach
        /\ done.read = {} /\ done.upsert = tx[d].upsert \ {r} /\ done.copy = tx[d].copy
        /\ done.wrote = tx[d].wrote /\ done.new = tx[d].new
    BY DEF TypeOK, TxType
  <1>2. claimed \in RowType /\ inserted \in RowType
    BY ValueTypes
  <1>3. ASSUME NEW out \in TxType, tx' = [tx EXCEPT ![d] = out]
        PROVE  OnlyOwn(d) /\ tx'[d] = out
    BY <1>3 DEF OnlyOwn, TypeOK
  <1>4. next[r] = lastId[r] + 1
    BY DEF TypeOK
  <1>5. /\ r \in tx[d].read /\ UNCHANGED <<row, ingested>>
        /\ \/ /\ copy = NoRow /\ Unlocked(d, r) /\ Now(d, r) = NoRow /\ lastId' = next
              /\ tx' = [tx EXCEPT ![d] = Changed(done, r, [id |-> lastId'[r], docs |-> {d}])]
           \/ /\ copy # NoRow /\ d \notin copy.docs /\ Unlocked(d, r)
              /\ Now(d, r).id = copy.id /\ lastId' = lastId
              /\ tx' = [tx EXCEPT ![d] = Changed(done, r, claimed)]
           \/ /\ d \in copy.docs /\ tx' = [tx EXCEPT ![d] = done] /\ lastId' = lastId
    BY DEF Upsert
  <1> HIDE DEF done, claimed
  <1>6. CASE /\ copy = NoRow /\ Unlocked(d, r) /\ Now(d, r) = NoRow /\ lastId' = next
             /\ tx' = [tx EXCEPT ![d] = Changed(done, r, [id |-> lastId'[r], docs |-> {d}])]
    <2>1. tx' = [tx EXCEPT ![d] = Changed(done, r, inserted)]
      BY <1>4, <1>6
    <2> HIDE DEF inserted
    <2>2. OnlyOwn(d) /\ tx'[d] = Changed(done, r, inserted)
      BY <1>1, <1>2, <1>3, <2>1, ChangedType
    <2>3. /\ tx'[d].open = done.open /\ tx'[d].detach = done.detach
          /\ tx'[d].read = done.read /\ tx'[d].upsert = done.upsert
          /\ tx'[d].copy = done.copy /\ tx'[d].wrote = done.wrote \cup {r}
          /\ tx'[d].new = [done.new EXCEPT ![r] = inserted]
      BY <1>1, <1>2, <2>2, ChangedType
    <2>4. QED
      BY <1>1, <1>5, <1>6, <2>2, <2>3 DEF inserted
  <1>7. CASE /\ copy # NoRow /\ d \notin copy.docs /\ Unlocked(d, r)
             /\ Now(d, r).id = copy.id /\ lastId' = lastId
             /\ tx' = [tx EXCEPT ![d] = Changed(done, r, claimed)]
    <2>1. OnlyOwn(d) /\ tx'[d] = Changed(done, r, claimed)
      BY <1>1, <1>2, <1>3, <1>7, ChangedType
    <2>2. /\ tx'[d].open = done.open /\ tx'[d].detach = done.detach
          /\ tx'[d].read = done.read /\ tx'[d].upsert = done.upsert
          /\ tx'[d].copy = done.copy /\ tx'[d].wrote = done.wrote \cup {r}
          /\ tx'[d].new = [done.new EXCEPT ![r] = claimed]
      BY <1>1, <1>2, <2>1, ChangedType
    <2>3. QED
      BY <1>1, <1>5, <1>7, <2>1, <2>2 DEF claimed
  <1>8. CASE d \in copy.docs /\ tx' = [tx EXCEPT ![d] = done] /\ lastId' = lastId
    BY <1>1, <1>3, <1>5, <1>8
  <1>9. QED
    BY <1>5, <1>6, <1>7, <1>8

\* A transaction that ends leaves no lock; one that commits leaves every row as it
\* found or made it.
LEMMA CloseStep ==
    ASSUME TypeOK, NEW d \in Docs, Commit(d) \/ Abort(d)
    PROVE  /\ OnlyOwn(d)
           /\ tx[d].open
           /\ tx'[d] = Idle /\ ~tx'[d].open /\ tx'[d].wrote = {}
           /\ lastId' = lastId
           /\ \/ /\ tx[d].detach = {} /\ tx[d].upsert = {}
                 /\ row' = [r \in Rows |-> Now(d, r)]
                 /\ ingested' = ingested \cup {d}
              \/ row' = row /\ ingested' = ingested
  <1>1. tx' = [tx EXCEPT ![d] = Idle] /\ tx[d].open /\ lastId' = lastId
    BY DEF Commit, Abort
  <1>2. OnlyOwn(d) /\ tx'[d] = Idle
    BY <1>1, IdleType DEF OnlyOwn, TypeOK
  <1>3. ~Idle.open /\ Idle.wrote = {}
    BY DEF Idle
  <1>4. QED
    BY <1>1, <1>2, <1>3 DEF Commit, Abort

\* The rows and what transactions hold of them stay rows and transactions.
LEMMA TypeStep == ASSUME TypeOK, SourcesAreRows, Next PROVE TypeOK'
  <1>1. PICK d \in Docs : \/ Begin(d) \/ Commit(d) \/ Abort(d)
                          \/ \E r \in Rows : Detach(d, r) \/ Read(d, r) \/ Upsert(d, r)
    BY DEF Next
  <1>2. CASE Begin(d)
    BY <1>2, BeginStep DEF OnlyOwn, TypeOK
  <1>3. CASE Commit(d) \/ Abort(d)
    BY <1>3, CloseStep, NowType DEF OnlyOwn, TypeOK
  <1>4. ASSUME NEW r \in Rows, Detach(d, r) PROVE TypeOK'
    BY <1>4, DetachStep DEF OnlyOwn, TypeOK
  <1>5. ASSUME NEW r \in Rows, Read(d, r) PROVE TypeOK'
    BY <1>5, ReadStep DEF OnlyOwn, TypeOK
  <1>6. ASSUME NEW r \in Rows, Upsert(d, r) PROVE TypeOK'
    <2>1. OnlyOwn(d) /\ row' = row /\ ingested' = ingested
      BY <1>6, UpsertStep
    <2>2. lastId' = [lastId EXCEPT ![r] = @ + 1] \/ lastId' = lastId
      BY <1>6, UpsertStep
    <2>3. QED
      BY <2>1, <2>2 DEF OnlyOwn, TypeOK
  <1>7. QED
    BY <1>1, <1>2, <1>3, <1>4, <1>5, <1>6

LEMMA TypeStutter == ASSUME TypeOK, UNCHANGED vars PROVE TypeOK'
  BY DEF TypeOK, vars

LEMMA TypeInit == ASSUME Init PROVE TypeOK
  BY IdleType DEF Init, TypeOK

\* In every reachable state the variables have their types: rows carry documents that
\* exist, and a transaction holds rows that do.
THEOREM TypeCorrect == ASSUME SourcesAreRows PROVE Spec => []TypeOK
  <1>1. Init => TypeOK
    BY TypeInit
  <1>2. TypeOK /\ [Next]_vars => TypeOK'
    BY TypeStep, TypeStutter
  <1>3. QED
    BY <1>1, <1>2, PTL DEF Spec

-----------------------------------------------------------------------------
(* What holds however ingestions interleave                                *)

\* A value of row r: it is there exactly when some document is its source, and each of
\* its sources is a document that yields it.
SourcedRow(r, value) ==
    /\ value.id = 0 <=> value.docs = {}
    /\ \A d \in value.docs : r \in Source[d]

\* The rows a session has read or made are such values, and it upserts its own.
SourcedTx(d, t) ==
    /\ t.read \subseteq t.upsert
    /\ t.upsert \subseteq Source[d]
    /\ \A r \in t.detach \cup t.read : SourcedRow(r, t.copy[r])
    /\ \A r \in t.wrote : SourcedRow(r, t.new[r])

\* No orphaned fact: a row without a source is deleted, and no row names a document
\* that does not yield it (deduplication.py, detach and upsert).
FactsAreSourced == \A r \in Rows : SourcedRow(r, row[r])

SourcedInv == TypeOK /\ FactsAreSourced /\ \A d \in Docs : SourcedTx(d, tx[d])

LEMMA SourcedNow ==
    ASSUME SourcedInv, NEW d \in Docs, NEW r \in Rows
    PROVE  SourcedRow(r, Now(d, r))
  BY DEF SourcedInv, FactsAreSourced, SourcedTx, Now

LEMMA SourcedStep == ASSUME SourcedInv, SourcesAreRows, Next PROVE SourcedInv'
  <1>1. TypeOK /\ TypeOK'
    BY TypeStep DEF SourcedInv
  <1>2. PICK d \in Docs : \/ Begin(d) \/ Commit(d) \/ Abort(d)
                          \/ \E r \in Rows : Detach(d, r) \/ Read(d, r) \/ Upsert(d, r)
    BY DEF Next
  <1>3. SourcedTx(d, tx[d]) /\ FactsAreSourced
    BY DEF SourcedInv
  <1>4. tx[d] \in TxType /\ tx'[d] \in TxType
    BY <1>1 DEF TypeOK
  <1>5. ASSUME OnlyOwn(d), FactsAreSourced', SourcedTx(d, tx'[d]) PROVE SourcedInv'
    BY <1>1, <1>5 DEF SourcedInv, OnlyOwn
  <1>6. CASE Begin(d)
    <2>1. \A r \in tx'[d].detach : SourcedRow(r, tx'[d].copy[r])
      BY <1>1, <1>3, <1>6, BeginStep DEF FactsAreSourced
    <2>2. SourcedTx(d, tx'[d])
      BY <1>1, <1>6, <2>1, BeginStep DEF SourcedTx
    <2>3. QED
      BY <1>1, <1>3, <1>5, <1>6, <2>2, BeginStep DEF FactsAreSourced
  <1>7. CASE Commit(d) \/ Abort(d)
    <2>1. SourcedTx(d, Idle)
      BY DEF SourcedTx, Idle
    <2>2. OnlyOwn(d) /\ tx'[d] = Idle
      BY <1>1, <1>7, CloseStep
    <2>3. row' = [r \in Rows |-> Now(d, r)] \/ row' = row
      BY <1>1, <1>7, CloseStep
    <2>4. FactsAreSourced'
      BY <1>3, <2>3, SourcedNow DEF FactsAreSourced
    <2>5. QED
      BY <1>5, <2>1, <2>2, <2>4
  <1>8. ASSUME NEW r \in Rows, Detach(d, r) PROVE SourcedInv'
    <2> DEFINE rest == tx[d].copy[r].docs \ {d}
               kept == [Now(d, r) EXCEPT !.docs = rest]
    <2>1. Now(d, r) \in RowType /\ tx[d].copy[r] \in RowType
      BY <1>1, <1>4, NowType DEF TxType
    <2>2. SourcedRow(r, tx[d].copy[r])
      BY <1>1, <1>3, <1>8, DetachStep DEF SourcedTx
    <2>3. SourcedRow(r, NoRow)
      BY DEF SourcedRow, NoRow
    <2>4. rest # {} /\ Now(d, r).id = tx[d].copy[r].id => SourcedRow(r, kept)
      <3>1. kept.id = Now(d, r).id /\ kept.docs = rest
        BY <2>1 DEF RowType
      <3>2. QED
        BY <2>2, <3>1 DEF SourcedRow
    <2>5. /\ OnlyOwn(d) /\ row' = row /\ tx'[d].detach = tx[d].detach \ {r}
          /\ tx'[d].read = tx[d].read /\ tx'[d].upsert = tx[d].upsert
          /\ tx'[d].copy = tx[d].copy
          /\ \/ /\ Now(d, r).id = tx[d].copy[r].id
                /\ tx'[d].wrote = tx[d].wrote \cup {r}
                /\ tx'[d].new = [tx[d].new EXCEPT ![r] = IF rest = {} THEN NoRow ELSE kept]
             \/ tx'[d].wrote = tx[d].wrote /\ tx'[d].new = tx[d].new
      BY <1>1, <1>8, DetachStep
    <2> HIDE DEF kept, rest
    <2>6. ASSUME NEW s \in tx'[d].wrote PROVE SourcedRow(s, tx'[d].new[s])
      <3>1. s \in Rows /\ (s \in tx[d].wrote => SourcedRow(s, tx[d].new[s]))
        BY <1>3, <1>4 DEF SourcedTx, TxType
      <3>2. CASE tx'[d].wrote = tx[d].wrote /\ tx'[d].new = tx[d].new
        BY <3>1, <3>2
      <3>3. CASE s # r /\ s \in tx[d].wrote /\ tx'[d].new[s] = tx[d].new[s]
        BY <3>1, <3>3
      <3>4. CASE /\ Now(d, r).id = tx[d].copy[r].id /\ s = r
                 /\ tx'[d].new[s] = IF rest = {} THEN NoRow ELSE kept
        BY <2>3, <2>4, <3>4
      <3>5. QED
        BY <1>4, <2>5, <3>1, <3>2, <3>3, <3>4 DEF TxType
    <2>7. SourcedTx(d, tx'[d]) /\ FactsAreSourced'
      BY <1>3, <2>5, <2>6 DEF SourcedTx, FactsAreSourced
    <2>8. QED
      BY <1>5, <2>5, <2>7
  <1>9. ASSUME NEW r \in Rows, Read(d, r) PROVE SourcedInv'
    <2>1. SourcedRow(r, Now(d, r))
      BY SourcedNow
    <2>2. SourcedTx(d, tx'[d]) /\ FactsAreSourced'
      BY <1>1, <1>3, <1>9, <2>1, ReadStep DEF SourcedTx, FactsAreSourced
    <2>3. QED
      BY <1>1, <1>5, <1>9, <2>2, ReadStep
  <1>10. ASSUME NEW r \in Rows, Upsert(d, r) PROVE SourcedInv'
    <2> DEFINE copy == tx[d].copy[r]
               inserted == [id |-> lastId[r] + 1, docs |-> {d}]
               claimed == [copy EXCEPT !.docs = @ \cup {d}]
    <2>1. copy \in RowType /\ lastId[r] \in Nat
      BY <1>1, <1>4 DEF TypeOK, TxType
    <2>2. r \in Source[d] /\ SourcedRow(r, copy)
      BY <1>1, <1>3, <1>10, UpsertStep DEF SourcedTx
    <2>3. SourcedRow(r, inserted)
      BY <2>1, <2>2 DEF SourcedRow
    <2>4. copy # NoRow => SourcedRow(r, claimed)
      <3>1. claimed.id = copy.id /\ claimed.docs = copy.docs \cup {d}
        BY <2>1 DEF RowType
      <3>2. copy.id = 0 => copy = NoRow
        BY <2>1, <2>2 DEF SourcedRow, RowType, NoRow
      <3>3. QED
        BY <2>2, <3>1, <3>2 DEF SourcedRow
    <2>5. /\ OnlyOwn(d) /\ row' = row /\ tx'[d].detach = tx[d].detach
          /\ tx'[d].read = {} /\ tx'[d].upsert \subseteq tx[d].upsert
          /\ tx'[d].copy = tx[d].copy
      BY <1>1, <1>10, UpsertStep
    <2>6. \/ /\ tx'[d].wrote = tx[d].wrote \cup {r}
             /\ tx'[d].new = [tx[d].new EXCEPT ![r] = inserted]
          \/ /\ copy # NoRow /\ tx'[d].wrote = tx[d].wrote \cup {r}
             /\ tx'[d].new = [tx[d].new EXCEPT ![r] = claimed]
          \/ tx'[d].wrote = tx[d].wrote /\ tx'[d].new = tx[d].new
      BY <1>1, <1>10, UpsertStep
    <2> HIDE DEF copy, inserted, claimed
    <2>7. \A s \in tx'[d].wrote : SourcedRow(s, tx'[d].new[s])
      BY <1>3, <1>4, <2>3, <2>4, <2>6 DEF SourcedTx, TxType
    <2>8. SourcedTx(d, tx'[d]) /\ FactsAreSourced'
      BY <1>3, <2>5, <2>7 DEF SourcedTx, FactsAreSourced
    <2>9. QED
      BY <1>5, <2>5, <2>8
  <1>11. QED
    BY <1>2, <1>6, <1>7, <1>8, <1>9, <1>10

\* However ingestions interleave, fail and repeat, every committed row has a source and
\* each of its sources yields it: none is orphaned or claimed by a stranger.
THEOREM RowsAreSourced == ASSUME SourcesAreRows PROVE Spec => []FactsAreSourced
  <1>1. Init => SourcedInv
    <2> SUFFICES ASSUME Init PROVE SourcedInv
      OBVIOUS
    <2>1. FactsAreSourced
      BY DEF Init, FactsAreSourced, SourcedRow, NoRow
    <2>2. \A d \in Docs : SourcedTx(d, tx[d])
      BY DEF Init, SourcedTx, Idle
    <2>3. QED
      BY <2>1, <2>2, TypeInit DEF SourcedInv
  <1>2. SourcedInv /\ [Next]_vars => SourcedInv'
    <2>1. ASSUME SourcedInv, UNCHANGED vars PROVE SourcedInv'
      BY <2>1 DEF SourcedInv, TypeOK, FactsAreSourced, vars
    <2>2. QED
      BY <2>1, SourcedStep
  <1>3. SourcedInv => FactsAreSourced
    BY DEF SourcedInv
  <1>4. QED
    BY <1>1, <1>2, <1>3, PTL DEF Spec

(* What a step of d's transaction does to rows, locks and ids: nothing but let go of
   locks, change one row that nobody else has, or commit. *)
KeepsRows(d) ==
    /\ tx'[d].wrote \subseteq tx[d].wrote
    /\ \A r \in tx'[d].wrote : tx'[d].new[r] = tx[d].new[r]
    /\ row' = row /\ lastId' = lastId

WritesRow(d, r, value) ==
    /\ Unlocked(d, r)
    /\ tx'[d].wrote = tx[d].wrote \cup {r}
    /\ tx'[d].new = [tx[d].new EXCEPT ![r] = value]
    /\ row' = row
    /\ \/ value.id \in {0, Now(d, r).id} /\ lastId' = lastId
       \/ value.id = lastId[r] + 1 /\ lastId' = [lastId EXCEPT ![r] = @ + 1]

CommitsRows(d) ==
    /\ tx'[d].wrote = {}
    /\ row' = [r \in Rows |-> Now(d, r)]
    /\ lastId' = lastId

LEMMA StepRows ==
    ASSUME TypeOK, SourcesAreRows, Next
    PROVE  \E d \in Docs :
               /\ OnlyOwn(d)
               /\ \/ KeepsRows(d) \/ CommitsRows(d)
                  \/ \E r \in Rows, value \in RowType : WritesRow(d, r, value)
  <1>1. PICK d \in Docs : \/ Begin(d) \/ Commit(d) \/ Abort(d)
                          \/ \E r \in Rows : Detach(d, r) \/ Read(d, r) \/ Upsert(d, r)
    BY DEF Next
  <1> DEFINE Goal == /\ OnlyOwn(d)
                     /\ \/ KeepsRows(d) \/ CommitsRows(d)
                        \/ \E r \in Rows, value \in RowType : WritesRow(d, r, value)
  <1>2. CASE Begin(d)
    BY <1>2, BeginStep DEF KeepsRows
  <1>3. CASE Commit(d) \/ Abort(d)
    BY <1>3, CloseStep DEF KeepsRows, CommitsRows
  <1>4. ASSUME NEW r \in Rows, Detach(d, r) PROVE Goal
    <2> DEFINE rest == tx[d].copy[r].docs \ {d}
               kept == [Now(d, r) EXCEPT !.docs = rest]
               value == IF rest = {} THEN NoRow ELSE kept
    <2>1. kept \in RowType /\ kept.id = Now(d, r).id
      BY NowType, ValueTypes DEF RowType
    <2>2. value \in RowType /\ value.id \in {0, Now(d, r).id}
      BY <2>1, IdleType DEF NoRow
    <2>3. /\ OnlyOwn(d) /\ Unlocked(d, r) /\ UNCHANGED <<row, lastId, ingested>>
          /\ \/ /\ tx'[d].wrote = tx[d].wrote \cup {r}
                /\ tx'[d].new = [tx[d].new EXCEPT ![r] = value]
             \/ tx'[d].wrote = tx[d].wrote /\ tx'[d].new = tx[d].new
      BY <1>4, DetachStep
    <2> HIDE DEF value
    <2>4. QED
      BY <2>2, <2>3 DEF KeepsRows, WritesRow
  <1>5. ASSUME NEW r \in Rows, Read(d, r) PROVE Goal
    BY <1>5, ReadStep DEF KeepsRows
  <1>6. ASSUME NEW r \in Rows, Upsert(d, r) PROVE Goal
    <2> DEFINE copy == tx[d].copy[r]
               inserted == [id |-> lastId[r] + 1, docs |-> {d}]
               claimed == [copy EXCEPT !.docs = @ \cup {d}]
    <2>1. /\ inserted \in RowType /\ claimed \in RowType /\ claimed.id = copy.id
          /\ inserted.id = lastId[r] + 1
      BY ValueTypes DEF RowType, TypeOK, TxType
    <2>2. /\ OnlyOwn(d) /\ row' = row /\ ingested' = ingested
          /\ \/ /\ Unlocked(d, r) /\ lastId' = [lastId EXCEPT ![r] = @ + 1]
                /\ tx'[d].wrote = tx[d].wrote \cup {r}
                /\ tx'[d].new = [tx[d].new EXCEPT ![r] = inserted]
             \/ /\ Unlocked(d, r) /\ lastId' = lastId /\ Now(d, r).id = copy.id
                /\ tx'[d].wrote = tx[d].wrote \cup {r}
                /\ tx'[d].new = [tx[d].new EXCEPT ![r] = claimed]
             \/ /\ lastId' = lastId
                /\ tx'[d].wrote = tx[d].wrote /\ tx'[d].new = tx[d].new
      BY <1>6, UpsertStep
    <2> HIDE DEF copy, inserted, claimed
    <2>3. QED
      BY <2>1, <2>2 DEF KeepsRows, WritesRow
  <1>7. QED
    BY <1>1, <1>2, <1>3, <1>4, <1>5, <1>6

\* A row is changed by one transaction at a time.
LocksExclusive == \A d, u \in Docs : d # u => tx[d].wrote \cap tx[u].wrote = {}

\* No id is ahead of the last one given, committed or not.
IdsGiven ==
    \A r \in Rows : /\ row[r].id <= lastId[r]
                    /\ \A d \in Docs : r \in tx[d].wrote => tx[d].new[r].id <= lastId[r]

\* Row n of r was deleted: it is not there, and no transaction would bring it back.
Gone(r, n) ==
    /\ n <= lastId[r]
    /\ row[r].id # n
    /\ \A d \in Docs : r \in tx[d].wrote => tx[d].new[r].id # n

IdsInv == TypeOK /\ LocksExclusive /\ IdsGiven

\* A transaction's own step leaves the locks of the others as they were.
LEMMA LocksStep ==
    ASSUME TypeOK, LocksExclusive, NEW d \in Docs, OnlyOwn(d),
           \A r \in tx'[d].wrote \ tx[d].wrote : Unlocked(d, r)
    PROVE  LocksExclusive'
  <1>1. tx[d] \in TxType /\ tx'[d] \in TxType
    BY DEF TypeOK, OnlyOwn
  <1>2. ASSUME NEW u \in Docs \ {d}
        PROVE  tx'[u] = tx[u] /\ tx'[u].wrote \cap tx'[d].wrote = {}
    BY <1>1, <1>2 DEF LocksExclusive, OnlyOwn, Unlocked, TxType
  <1> SUFFICES ASSUME NEW u \in Docs, NEW v \in Docs, u # v
               PROVE  tx'[u].wrote \cap tx'[v].wrote = {}
    BY DEF LocksExclusive
  <1>3. CASE u # d /\ v # d
    BY <1>2, <1>3 DEF LocksExclusive
  <1>4. QED
    BY <1>2, <1>3

\* What becomes of one row and the ids under it in a step.
LEMMA RowInStep ==
    ASSUME IdsInv, SourcesAreRows, Next, NEW r \in Rows
    PROVE  /\ lastId'[r] >= lastId[r]
           /\ \/ row'[r] = row[r]
              \/ /\ \E d \in Docs : r \in tx[d].wrote /\ row'[r] = tx[d].new[r]
                 /\ \A u \in Docs : r \notin tx'[u].wrote
           /\ \A u \in Docs : r \in tx'[u].wrote =>
                  \/ r \in tx[u].wrote /\ tx'[u].new[r] = tx[u].new[r]
                  \/ tx'[u].new[r].id = 0
                  \/ tx'[u].new[r].id = row[r].id
                  \/ r \in tx[u].wrote /\ tx'[u].new[r].id = tx[u].new[r].id
                  \/ tx'[u].new[r].id = lastId[r] + 1 /\ lastId'[r] = lastId[r] + 1
  <1>1. TypeOK /\ TypeOK'
    BY TypeStep DEF IdsInv
  <1>2. PICK d \in Docs : /\ OnlyOwn(d)
                          /\ \/ KeepsRows(d) \/ CommitsRows(d)
                             \/ \E s \in Rows, value \in RowType : WritesRow(d, s, value)
    BY <1>1, StepRows
  <1>3. lastId[r] \in Nat /\ tx[d] \in TxType
    BY <1>1 DEF TypeOK
  <1>4. CASE KeepsRows(d)
    BY <1>2, <1>3, <1>4 DEF KeepsRows, OnlyOwn
  <1>5. CASE CommitsRows(d)
    <2>1. row'[r] = Now(d, r) /\ lastId'[r] = lastId[r] /\ r \notin tx'[d].wrote
      BY <1>5 DEF CommitsRows
    <2>2. \A u \in Docs : r \in tx'[u].wrote => u # d /\ tx'[u] = tx[u]
      BY <1>2, <2>1 DEF OnlyOwn
    <2>3. r \in tx[d].wrote => \A u \in Docs : r \notin tx'[u].wrote
      BY <2>2 DEF IdsInv, LocksExclusive
    <2>4. QED
      BY <1>3, <2>1, <2>2, <2>3 DEF Now
  <1>6. ASSUME NEW s \in Rows, NEW value \in RowType, WritesRow(d, s, value)
        PROVE  /\ lastId'[r] >= lastId[r]
               /\ row'[r] = row[r]
               /\ \A u \in Docs : r \in tx'[u].wrote =>
                  \/ r \in tx[u].wrote /\ tx'[u].new[r] = tx[u].new[r]
                  \/ tx'[u].new[r].id = 0
                  \/ tx'[u].new[r].id = row[r].id
                  \/ r \in tx[u].wrote /\ tx'[u].new[r].id = tx[u].new[r].id
                  \/ tx'[u].new[r].id = lastId[r] + 1 /\ lastId'[r] = lastId[r] + 1
    <2>1. row'[r] = row[r] /\ lastId'[r] >= lastId[r]
      BY <1>1, <1>3, <1>6 DEF WritesRow, TypeOK
    <2>2. \A u \in Docs \ {d} : tx'[u] = tx[u]
      BY <1>2 DEF OnlyOwn
    <2>3. CASE s # r
      <3>1. r \in tx'[d].wrote => r \in tx[d].wrote /\ tx'[d].new[r] = tx[d].new[r]
        BY <1>3, <1>6, <2>3 DEF WritesRow, TxType
      <3>2. QED
        BY <2>1, <2>2, <3>1
    <2>4. CASE s = r
      <3>1. tx'[d].new[r] = value
        BY <1>3, <1>6, <2>4 DEF WritesRow, TxType
      <3>2. \/ value.id = 0 \/ value.id = Now(d, r).id
            \/ value.id = lastId[r] + 1 /\ lastId'[r] = lastId[r] + 1
        BY <1>1, <1>6, <2>4 DEF WritesRow, TypeOK
      <3>3. \/ Now(d, r).id = row[r].id
            \/ r \in tx[d].wrote /\ Now(d, r).id = tx[d].new[r].id
        BY DEF Now
      <3>4. QED
        BY <2>1, <2>2, <3>1, <3>2, <3>3
    <2>5. QED
      BY <2>3, <2>4
  <1>7. QED
    BY <1>2, <1>4, <1>5, <1>6

LEMMA IdsStep == ASSUME IdsInv, SourcesAreRows, Next PROVE IdsInv'
  <1>1. TypeOK /\ TypeOK'
    BY TypeStep DEF IdsInv
  <1>2. PICK d \in Docs : /\ OnlyOwn(d)
                          /\ \/ KeepsRows(d) \/ CommitsRows(d)
                             \/ \E s \in Rows, value \in RowType : WritesRow(d, s, value)
    BY <1>1, StepRows
  <1>3. \A r \in tx'[d].wrote \ tx[d].wrote : Unlocked(d, r)
    BY <1>2 DEF KeepsRows, CommitsRows, WritesRow
  <1>4. LocksExclusive'
    BY <1>1, <1>2, <1>3, LocksStep DEF IdsInv
  <1>5. ASSUME NEW r \in Rows
        PROVE  /\ row'[r].id <= lastId'[r]
               /\ \A u \in Docs : r \in tx'[u].wrote => tx'[u].new[r].id <= lastId'[r]
    <2>1. lastId[r] \in Nat /\ lastId'[r] \in Nat /\ row[r].id \in Nat
      BY <1>1 DEF TypeOK, RowType
    <2>2. \A u \in Docs : tx[u].new[r].id \in Nat /\ tx'[u].new[r].id \in Nat
      BY <1>1 DEF TypeOK, TxType, RowType
    <2>3. row[r].id <= lastId[r]
      BY DEF IdsInv, IdsGiven
    <2>4. \A u \in Docs : r \in tx[u].wrote => tx[u].new[r].id <= lastId[r]
      BY DEF IdsInv, IdsGiven
    <2>5. lastId'[r] >= lastId[r]
      BY RowInStep
    <2>6. row'[r].id <= lastId'[r]
      BY <2>1, <2>2, <2>3, <2>4, <2>5, RowInStep
    <2>7. ASSUME NEW u \in Docs, r \in tx'[u].wrote PROVE tx'[u].new[r].id <= lastId'[r]
      BY <2>1, <2>2, <2>3, <2>4, <2>5, <2>7, RowInStep
    <2>8. QED
      BY <2>6, <2>7
  <1>6. QED
    BY <1>1, <1>4, <1>5 DEF IdsInv, IdsGiven

\* A row that goes is gone for every transaction, and one that is gone stays so.
LEMMA GoneStep ==
    ASSUME IdsInv, SourcesAreRows, Next, NEW r \in Rows, NEW n \in Nat \ {0},
           row[r].id = n \/ Gone(r, n)
    PROVE  (row'[r].id = n /\ row[r].id = n) \/ Gone(r, n)'
  <1>1. lastId[r] \in Nat /\ lastId'[r] \in Nat /\ lastId'[r] >= lastId[r]
    BY RowInStep, TypeStep DEF IdsInv, TypeOK
  <1>2. n <= lastId'[r] /\ n # lastId[r] + 1
    BY <1>1 DEF IdsInv, IdsGiven, Gone
  <1>3. CASE Gone(r, n)
    <2>1. row'[r].id # n
      BY <1>3, RowInStep DEF Gone
    <2>2. ASSUME NEW u \in Docs, r \in tx'[u].wrote PROVE tx'[u].new[r].id # n
      BY <1>2, <1>3, <2>2, RowInStep DEF Gone
    <2>3. QED
      BY <1>2, <2>1, <2>2 DEF Gone
  <1>4. CASE row[r].id = n /\ row'[r].id # n
    <2>1. \A u \in Docs : r \notin tx'[u].wrote
      BY <1>4, RowInStep
    <2>2. QED
      BY <1>2, <1>4, <2>1 DEF Gone
  <1>5. QED
    BY <1>3, <1>4

LEMMA IdsStutter == ASSUME IdsInv, UNCHANGED vars PROVE IdsInv'
  BY DEF IdsInv, TypeOK, LocksExclusive, IdsGiven, vars

LEMMA IdsHold == ASSUME SourcesAreRows PROVE Spec => []IdsInv
  <1>1. Init => IdsInv
    <2> SUFFICES ASSUME Init PROVE IdsInv
      OBVIOUS
    <2>1. /\ \A d \in Docs : tx[d].wrote = {}
          /\ \A r \in Rows : row[r].id = 0 /\ lastId[r] = 0
      BY DEF Init, Idle, NoRow
    <2>2. QED
      BY <2>1, TypeInit DEF IdsInv, LocksExclusive, IdsGiven
  <1>2. IdsInv /\ [Next]_vars => IdsInv'
    BY IdsStep, IdsStutter
  <1>3. QED
    BY <1>1, <1>2, PTL DEF Spec

\* The UPDATE and DELETE of a row wait for the transaction that has changed it: no two
\* open transactions have both changed one.
THEOREM OneWriterPerRow == ASSUME SourcesAreRows PROVE Spec => []LocksExclusive
  <1>1. IdsInv => LocksExclusive
    BY DEF IdsInv
  <1>2. QED
    BY <1>1, IdsHold, PTL

\* A fact that was deleted never comes back under its id, which reviews and ledger
\* entries name: no transaction that read it before it went writes it again.
THEOREM DeletedRowsStayDeleted ==
    ASSUME SourcesAreRows, NEW r \in Rows, NEW n \in Nat \ {0}
    PROVE  Spec => [](row[r].id = n => [](row[r].id # n => [](row[r].id # n)))
  <1>1. IdsInv /\ row[r].id = n /\ [Next]_vars => (row[r].id = n)' \/ Gone(r, n)'
    BY GoneStep DEF vars
  <1>2. IdsInv /\ Gone(r, n) /\ [Next]_vars => Gone(r, n)'
    <2>1. ASSUME Gone(r, n), UNCHANGED vars PROVE Gone(r, n)'
      BY <2>1 DEF Gone, vars
    <2>2. ASSUME IdsInv, Gone(r, n), Next PROVE Gone(r, n)'
      <3>1. row[r].id # n
        BY <2>2 DEF Gone
      <3>2. QED
        BY <2>2, <3>1, GoneStep
    <2>3. QED
      BY <2>1, <2>2
  <1>3. Gone(r, n) => row[r].id # n
    BY DEF Gone
  <1>4. row[r].id # n <=> ~(row[r].id = n)
    OBVIOUS
  <1>5. QED
    BY <1>1, <1>2, <1>3, <1>4, IdsHold, PTL DEF Spec

-----------------------------------------------------------------------------
(* Ingestions that share no row are atomic                                 *)

\* No two documents that share a row are ingested at once.  The code has no lock that
\* says so; the theorems below say what one would buy.
Apart == \A d, u \in Docs :
             d # u /\ tx[d].open /\ tx[u].open => Source[d] \cap Source[u] = {}

\* The other documents' claims on a row.
Others(d, r) == row[r].docs \ {d}

\* One ingestion in one step, as in StatementLifecycle (Reingested): d claims the rows
\* it yields and no other, claims of others stay, and so does a row they claim; one
\* that nobody else claims comes back under a new id, or goes.
IngestsRow(d, r) ==
    /\ row'[r].docs = IF r \in Source[d] THEN Others(d, r) \cup {d} ELSE Others(d, r)
    /\ Others(d, r) # {} => row'[r].id = row[r].id
    /\ Others(d, r) = {} => IF r \in Source[d] THEN row'[r].id > row[r].id
                                               ELSE row'[r].id = 0

IngestedAtOnce(d) ==
    /\ ingested' = ingested \cup {d}
    /\ \A r \in Rows : IngestsRow(d, r)

AtomicIngestions ==
    [][UNCHANGED <<row, ingested>> \/ \E d \in Docs : IngestedAtOnce(d)]_vars

\* Row r without d's claim.
Detached(d, r) ==
    IF Others(d, r) = {} THEN NoRow ELSE [row[r] EXCEPT !.docs = Others(d, r)]

(* How far an open transaction has come.  Rows to detach are as they were read, rows
   to upsert are detached, the row that was read is unchanged, and rows upserted are
   what the one step makes of them. *)
Detaching(d) ==
    /\ \A r \in tx[d].detach : /\ r \notin tx[d].wrote
                               /\ tx[d].copy[r] = row[r]
                               /\ d \in row[r].docs
    /\ tx[d].detach # {} => tx[d].read = {} /\ tx[d].upsert = Source[d]

Upserting(d) ==
    /\ \A r \in tx[d].upsert \ tx[d].detach : Now(d, r) = Detached(d, r)
    /\ \A r \in tx[d].read : tx[d].copy[r] = Now(d, r)

Upserted(d, r) ==
    /\ Now(d, r).docs = row[r].docs \cup {d}
    /\ Others(d, r) # {} => Now(d, r).id = row[r].id
    /\ Others(d, r) = {} => Now(d, r).id > row[r].id

TxHolds(d) ==
    /\ tx[d].wrote \subseteq Source[d]
    /\ Detaching(d)
    /\ Upserting(d)
    /\ \A r \in Source[d] \ tx[d].upsert : Upserted(d, r)

ApartInv == IdsInv /\ SourcedInv /\ \A d \in Docs : tx[d].open => TxHolds(d)

\* A row that d does not source is, detached from d, as it is.
LEMMA DetachedType ==
    ASSUME SourcedInv, NEW d \in Docs, NEW r \in Rows
    PROVE  /\ d \notin row[r].docs => Detached(d, r) = row[r]
           /\ Detached(d, r) \in RowType
           /\ Detached(d, r).docs = Others(d, r)
           /\ Others(d, r) # {} => Detached(d, r).id = row[r].id
           /\ Detached(d, r) = NoRow <=> Others(d, r) = {}
  <1>1. row[r] \in RowType /\ (row[r].id = 0 <=> row[r].docs = {})
    BY DEF SourcedInv, TypeOK, FactsAreSourced, SourcedRow
  <1>2. Others(d, r) \in SUBSET Docs
    BY <1>1 DEF Others, RowType
  <1>3. /\ NoRow \in RowType /\ NoRow.id = 0 /\ NoRow.docs = {}
        /\ row[r].id = 0 => row[r] = NoRow
    BY <1>1, IdleType DEF NoRow, RowType
  <1>4. ASSUME d \notin row[r].docs PROVE Detached(d, r) = row[r]
    <2>1. Others(d, r) = row[r].docs
      BY <1>4 DEF Others
    <2>2. [row[r] EXCEPT !.docs = row[r].docs] = row[r]
      BY <1>1 DEF RowType
    <2>3. QED
      BY <1>1, <1>3, <2>1, <2>2 DEF Detached
  <1>5. CASE Others(d, r) = {}
    BY <1>3, <1>4, <1>5 DEF Detached
  <1>6. CASE Others(d, r) # {}
    <2> DEFINE kept == [row[r] EXCEPT !.docs = Others(d, r)]
    <2>1. kept \in RowType /\ kept.docs = Others(d, r) /\ kept.id = row[r].id
      BY <1>1, <1>2 DEF RowType
    <2>2. Detached(d, r) = kept
      BY <1>6 DEF Detached
    <2> HIDE DEF kept
    <2>3. QED
      BY <1>3, <1>4, <1>6, <2>1, <2>2
  <1>7. QED
    BY <1>5, <1>6

\* A transaction holds on as long as its own rows are left alone.
LEMMA OthersHold ==
    ASSUME IdsInv, SourcedInv, NEW u \in Docs, TxHolds(u), tx'[u] = tx[u],
           \A r \in Source[u] : row'[r] = row[r]
    PROVE  TxHolds(u)'
  <1>1. /\ tx[u].read \subseteq tx[u].upsert /\ tx[u].upsert \subseteq Source[u]
        /\ tx[u].wrote \subseteq Source[u]
    BY DEF SourcedInv, SourcedTx, TxHolds
  <1>2. \A r \in tx[u].detach : r \in Source[u]
    BY DEF TxHolds, Detaching, SourcedInv, TypeOK, TxType, FactsAreSourced, SourcedRow
  <1>3. \A r \in Source[u] : /\ Now(u, r)' = Now(u, r) /\ Others(u, r)' = Others(u, r)
                             /\ Detached(u, r)' = Detached(u, r)
    BY DEF Now, Others, Detached
  <1>4. Detaching(u)'
    BY <1>2 DEF TxHolds, Detaching
  <1>5. Upserting(u)'
    BY <1>1, <1>3 DEF TxHolds, Upserting
  <1>6. \A r \in Source[u] \ tx'[u].upsert : Upserted(u, r)'
    BY <1>3 DEF TxHolds, Upserted
  <1>7. QED
    BY <1>1, <1>4, <1>5, <1>6 DEF TxHolds

\* A transaction begins with nothing upserted and nothing detached but what is.
LEMMA BeginHolds ==
    ASSUME SourcedInv, SourcesAreRows, NEW d \in Docs, Begin(d)
    PROVE  TxHolds(d)'
  <1>1. TypeOK
    BY DEF SourcedInv
  <1>2. /\ tx'[d].detach = {r \in Rows : d \in row[r].docs}
        /\ tx'[d].read = {} /\ tx'[d].upsert = Source[d] /\ tx'[d].wrote = {}
        /\ \A r \in tx'[d].detach : tx'[d].copy[r] = row[r]
        /\ row' = row
    BY <1>1, BeginStep
  <1>3. Detaching(d)'
    BY <1>2 DEF Detaching
  <1>4. ASSUME NEW r \in Source[d], d \notin row[r].docs
        PROVE  Now(d, r)' = Detached(d, r)'
    <2>1. r \in Rows
      BY DEF SourcesAreRows
    <2>2. Now(d, r)' = row[r]
      BY <1>2 DEF Now
    <2>3. Detached(d, r)' = Detached(d, r)
      BY <1>2 DEF Detached, Others
    <2>4. QED
      BY <1>4, <2>1, <2>2, <2>3, DetachedType
  <1>5. Upserting(d)'
    <2>1. \A r \in Source[d] \ tx'[d].detach : d \notin row[r].docs
      BY <1>2 DEF SourcesAreRows
    <2>2. QED
      BY <1>2, <1>4, <2>1 DEF Upserting
  <1>6. QED
    BY <1>2, <1>3, <1>5 DEF TxHolds

\* Detached, a row is as the one step has it before it is claimed again.
LEMMA DetachHolds ==
    ASSUME SourcedInv, SourcesAreRows, NEW d \in Docs, TxHolds(d),
           NEW r \in Rows, Detach(d, r)
    PROVE  TxHolds(d)'
  <1> DEFINE rest == tx[d].copy[r].docs \ {d}
             kept == [Now(d, r) EXCEPT !.docs = rest]
             value == IF rest = {} THEN NoRow ELSE kept
  <1>1. TypeOK /\ tx[d] \in TxType
    BY DEF SourcedInv, TypeOK
  <1>2. /\ r \in tx[d].detach /\ r \notin tx[d].wrote /\ tx[d].copy[r] = row[r]
        /\ d \in row[r].docs
    BY <1>1, DetachStep DEF TxHolds, Detaching
  <1>3. Now(d, r) = row[r] /\ value = Detached(d, r)
    BY <1>2 DEF Now, Detached, Others
  <1>4. r \in Source[d]
    BY <1>2 DEF SourcedInv, FactsAreSourced, SourcedRow
  <1>5. /\ tx'[d].detach = tx[d].detach \ {r} /\ tx'[d].read = tx[d].read
        /\ tx'[d].upsert = tx[d].upsert /\ tx'[d].copy = tx[d].copy /\ row' = row
        /\ tx'[d].wrote = tx[d].wrote \cup {r}
        /\ tx'[d].new = [tx[d].new EXCEPT ![r] = value]
    BY <1>1, <1>2, <1>3, DetachStep
  <1> HIDE DEF value
  <1>6. Now(d, r)' = Detached(d, r)
    BY <1>1, <1>3, <1>5 DEF Now, TxType
  <1>7. \A s \in Source[d] : s # r => Now(d, s)' = Now(d, s)
    BY <1>1, <1>5 DEF Now, TxType, SourcesAreRows
  <1>8. \A s \in Source[d] : /\ Detached(d, s)' = Detached(d, s)
                             /\ Others(d, s)' = Others(d, s)
    BY <1>5 DEF Detached, Others
  <1>9. /\ tx[d].read = {} /\ tx[d].upsert = Source[d]
        /\ \A s \in tx[d].upsert \ tx[d].detach : Now(d, s) = Detached(d, s)
    BY <1>2 DEF TxHolds, Detaching, Upserting
  <1>10. Detaching(d)'
    BY <1>5 DEF TxHolds, Detaching
  <1>11. Upserting(d)'
    BY <1>4, <1>5, <1>6, <1>7, <1>8, <1>9 DEF Upserting
  <1>12. QED
    BY <1>4, <1>5, <1>9, <1>10, <1>11 DEF TxHolds

\* Read, a row to upsert is the copy the claim is made from.
LEMMA ReadHolds ==
    ASSUME SourcedInv, NEW d \in Docs, TxHolds(d), NEW r \in Rows, Read(d, r)
    PROVE  TxHolds(d)'
  <1>1. TypeOK
    BY DEF SourcedInv
  <1>2. /\ tx[d].detach = {} /\ r \in tx[d].upsert
        /\ tx'[d].detach = tx[d].detach /\ tx'[d].read = {r}
        /\ tx'[d].upsert = tx[d].upsert /\ tx'[d].copy[r] = Now(d, r)
        /\ tx'[d].wrote = tx[d].wrote /\ tx'[d].new = tx[d].new /\ row' = row
    BY <1>1, ReadStep
  <1>3. \A s \in Source[d] : /\ Now(d, s)' = Now(d, s) /\ Others(d, s)' = Others(d, s)
                             /\ Detached(d, s)' = Detached(d, s)
    BY <1>2 DEF Now, Others, Detached
  <1>4. tx[d].upsert \subseteq Source[d]
    BY DEF SourcedInv, SourcedTx
  <1>5. Detaching(d)'
    BY <1>2 DEF Detaching
  <1>6. Upserting(d)'
    BY <1>2, <1>3, <1>4 DEF TxHolds, Upserting
  <1>7. \A s \in Source[d] \ tx'[d].upsert : Upserted(d, s)'
    BY <1>2, <1>3 DEF TxHolds, Upserted
  <1>8. QED
    BY <1>2, <1>5, <1>6, <1>7 DEF TxHolds

\* Upserted, a row is as the one step leaves it.
LEMMA UpsertHolds ==
    ASSUME IdsInv, SourcedInv, SourcesAreRows, NEW d \in Docs, TxHolds(d),
           NEW r \in Rows, Upsert(d, r)
    PROVE  TxHolds(d)'
  <1> DEFINE copy == tx[d].copy[r]
             inserted == [id |-> lastId[r] + 1, docs |-> {d}]
             claimed == [copy EXCEPT !.docs = @ \cup {d}]
  <1>1. TypeOK /\ tx[d] \in TxType
    BY DEF SourcedInv, TypeOK
  <1>2. /\ r \in tx[d].read /\ r \in tx[d].upsert /\ r \in Source[d] /\ tx[d].detach = {}
        /\ tx[d].upsert \subseteq Source[d]
    BY <1>1, UpsertStep DEF TxHolds, Detaching, SourcedInv, SourcedTx
  <1>3. copy = Now(d, r) /\ copy = Detached(d, r)
    BY <1>2 DEF TxHolds, Upserting
  <1>4. /\ copy \in RowType /\ copy.docs = Others(d, r) /\ d \notin copy.docs
        /\ (Others(d, r) # {} => copy.id = row[r].id)
        /\ (copy = NoRow <=> Others(d, r) = {})
    BY <1>3, DetachedType DEF Others
  <1>5. row[r].docs \cup {d} = Others(d, r) \cup {d}
    BY DEF Others
  <1>6. row[r].id \in Nat /\ lastId[r] \in Nat /\ row[r].id <= lastId[r]
    BY <1>1 DEF TypeOK, RowType, IdsInv, IdsGiven
  <1>7. PICK value \in RowType :
           /\ value.docs = row[r].docs \cup {d}
           /\ Others(d, r) # {} => value.id = row[r].id
           /\ Others(d, r) = {} => value.id > row[r].id
           /\ tx'[d].wrote = tx[d].wrote \cup {r}
           /\ tx'[d].new = [tx[d].new EXCEPT ![r] = value]
    <2>1. /\ inserted \in RowType /\ inserted.docs = {d} /\ inserted.id = lastId[r] + 1
          /\ claimed \in RowType /\ claimed.docs = copy.docs \cup {d} /\ claimed.id = copy.id
      BY <1>1, <1>4, ValueTypes DEF RowType
    <2>2. \/ /\ copy = NoRow /\ tx'[d].wrote = tx[d].wrote \cup {r}
             /\ tx'[d].new = [tx[d].new EXCEPT ![r] = inserted]
          \/ /\ copy # NoRow /\ tx'[d].wrote = tx[d].wrote \cup {r}
             /\ tx'[d].new = [tx[d].new EXCEPT ![r] = claimed]
      BY <1>1, <1>4, UpsertStep
    <2> HIDE DEF copy, inserted, claimed
    <2>3. CASE /\ copy = NoRow /\ tx'[d].wrote = tx[d].wrote \cup {r}
               /\ tx'[d].new = [tx[d].new EXCEPT ![r] = inserted]
      <3>1. inserted.docs = row[r].docs \cup {d} /\ inserted.id > row[r].id
        BY <1>4, <1>5, <1>6, <2>1, <2>3
      <3>2. QED
        BY <1>4, <2>1, <2>3, <3>1
    <2>4. CASE /\ copy # NoRow /\ tx'[d].wrote = tx[d].wrote \cup {r}
               /\ tx'[d].new = [tx[d].new EXCEPT ![r] = claimed]
      BY <1>4, <1>5, <2>1, <2>4
    <2>5. QED
      BY <2>2, <2>3, <2>4
  <1>8. /\ tx'[d].detach = {} /\ tx'[d].read = {} /\ tx'[d].upsert = tx[d].upsert \ {r}
        /\ row' = row
    BY <1>1, <1>2, UpsertStep
  <1> HIDE DEF copy
  <1>9. Now(d, r)' = value
    BY <1>1, <1>7 DEF Now, TxType
  <1>10. \A s \in Source[d] : s # r => Now(d, s)' = Now(d, s)
    BY <1>1, <1>7, <1>8 DEF Now, TxType, SourcesAreRows
  <1>11. \A s \in Source[d] : /\ Detached(d, s)' = Detached(d, s)
                              /\ Others(d, s)' = Others(d, s)
    BY <1>8 DEF Detached, Others
  <1>12. Detaching(d)'
    BY <1>8 DEF Detaching
  <1>13. Upserting(d)'
    BY <1>2, <1>8, <1>10, <1>11 DEF TxHolds, Upserting
  <1>14. ASSUME NEW s \in Source[d] \ tx'[d].upsert PROVE Upserted(d, s)'
    <2>1. CASE s = r
      BY <1>7, <1>8, <1>9, <1>11, <2>1 DEF Upserted
    <2>2. CASE s # r
      BY <1>8, <1>10, <1>11, <2>2 DEF TxHolds, Upserted
    <2>3. QED
      BY <2>1, <2>2
  <1>15. QED
    BY <1>2, <1>7, <1>12, <1>13, <1>14 DEF TxHolds

\* The commit of a transaction is the one step, and takes only its own rows.
LEMMA CommitHolds ==
    ASSUME SourcedInv, SourcesAreRows, NEW d \in Docs, TxHolds(d),
           tx[d].detach = {}, tx[d].upsert = {}, row' = [r \in Rows |-> Now(d, r)]
    PROVE  /\ \A r \in Rows : IngestsRow(d, r)
           /\ \A r \in Rows \ Source[d] : row'[r] = row[r]
  <1>1. ASSUME NEW r \in Rows \ Source[d] PROVE row'[r] = row[r] /\ IngestsRow(d, r)
    <2>1. row'[r] = row[r]
      BY DEF TxHolds, Now
    <2>2. d \notin row[r].docs /\ (row[r].id = 0 <=> row[r].docs = {})
      BY DEF SourcedInv, FactsAreSourced, SourcedRow
    <2>3. Others(d, r) = row[r].docs
      BY <2>2 DEF Others
    <2>4. QED
      BY <2>1, <2>2, <2>3 DEF IngestsRow
  <1>2. ASSUME NEW r \in Source[d] PROVE IngestsRow(d, r)
    <2>1. Upserted(d, r) /\ row'[r] = Now(d, r)
      BY DEF TxHolds, SourcesAreRows
    <2>2. row[r].docs \cup {d} = Others(d, r) \cup {d}
      BY DEF Others
    <2>3. QED
      BY <2>1, <2>2 DEF Upserted, IngestsRow
  <1>3. QED
    BY <1>1, <1>2

LEMMA ApartStep ==
    ASSUME ApartInv, Apart, SourcesAreRows, Next
    PROVE  /\ ApartInv'
           /\ UNCHANGED <<row, ingested>> \/ (\E d \in Docs : IngestedAtOnce(d))
  <1>1. IdsInv /\ SourcedInv /\ TypeOK
    BY DEF ApartInv, SourcedInv
  <1>2. IdsInv' /\ SourcedInv'
    BY <1>1, IdsStep, SourcedStep
  <1>3. PICK d \in Docs : \/ Begin(d) \/ Commit(d) \/ Abort(d)
                          \/ \E r \in Rows : Detach(d, r) \/ Read(d, r) \/ Upsert(d, r)
    BY DEF Next
  <1>4. tx[d].open => TxHolds(d)
    BY DEF ApartInv
  <1>5. ASSUME OnlyOwn(d), row' = row, ingested' = ingested, tx'[d].open => TxHolds(d)'
        PROVE  /\ ApartInv'
               /\ UNCHANGED <<row, ingested>> \/ (\E e \in Docs : IngestedAtOnce(e))
    <2>1. ASSUME NEW u \in Docs \ {d}, tx'[u].open PROVE TxHolds(u)'
      <3>1. tx'[u] = tx[u] /\ TxHolds(u)
        BY <1>5, <2>1 DEF OnlyOwn, ApartInv
      <3>2. QED
        BY <1>1, <1>5, <3>1, OthersHold
    <2>2. \A u \in Docs : tx'[u].open => TxHolds(u)'
      BY <1>5, <2>1
    <2>3. QED
      BY <1>2, <1>5, <2>2 DEF ApartInv
  <1> DEFINE Goal == /\ ApartInv'
                     /\ UNCHANGED <<row, ingested>> \/ (\E e \in Docs : IngestedAtOnce(e))
  <1>6. CASE Begin(d)
    BY <1>1, <1>5, <1>6, BeginStep, BeginHolds
  <1>7. CASE Commit(d) \/ Abort(d)
    <2>1. OnlyOwn(d) /\ tx[d].open /\ ~tx'[d].open
      BY <1>1, <1>7, CloseStep
    <2>2. CASE row' = row /\ ingested' = ingested
      BY <1>5, <2>1, <2>2
    <2>3. CASE /\ tx[d].detach = {} /\ tx[d].upsert = {}
               /\ row' = [r \in Rows |-> Now(d, r)] /\ ingested' = ingested \cup {d}
      <3>1. /\ \A r \in Rows : IngestsRow(d, r)
            /\ \A r \in Rows \ Source[d] : row'[r] = row[r]
        BY <1>1, <1>4, <2>1, <2>3, CommitHolds
      <3>2. ASSUME NEW u \in Docs, tx'[u].open PROVE TxHolds(u)'
        <4>1. u # d /\ tx'[u] = tx[u] /\ tx[u].open /\ TxHolds(u)
          BY <2>1, <3>2 DEF OnlyOwn, ApartInv
        <4>2. Source[u] \subseteq Rows \ Source[d]
          BY <2>1, <4>1 DEF Apart, SourcesAreRows
        <4>3. QED
          BY <1>1, <3>1, <4>1, <4>2, OthersHold
      <3>3. QED
        BY <1>2, <2>3, <3>1, <3>2 DEF ApartInv, IngestedAtOnce
    <2>4. QED
      BY <1>1, <1>7, <2>2, <2>3, CloseStep
  <1>8. ASSUME NEW r \in Rows, Detach(d, r) PROVE Goal
    BY <1>1, <1>4, <1>5, <1>8, DetachStep, DetachHolds
  <1>9. ASSUME NEW r \in Rows, Read(d, r) PROVE Goal
    BY <1>1, <1>4, <1>5, <1>9, ReadStep, ReadHolds
  <1>10. ASSUME NEW r \in Rows, Upsert(d, r) PROVE Goal
    BY <1>1, <1>4, <1>5, <1>10, UpsertStep, UpsertHolds
  <1>11. QED
    BY <1>3, <1>6, <1>7, <1>8, <1>9, <1>10

LEMMA ApartInit == ASSUME Init PROVE ApartInv
  <1>1. \A d \in Docs : /\ ~tx[d].open /\ tx[d].wrote = {} /\ tx[d].read = {}
                        /\ tx[d].upsert = {} /\ tx[d].detach = {}
    BY DEF Init, Idle
  <1>2. \A r \in Rows : row[r].id = 0 /\ row[r].docs = {} /\ lastId[r] = 0
    BY DEF Init, NoRow
  <1>3. QED
    BY <1>1, <1>2, TypeInit
    DEF ApartInv, IdsInv, LocksExclusive, IdsGiven, SourcedInv, SourcedTx,
        FactsAreSourced, SourcedRow

LEMMA ApartStutter == ASSUME ApartInv, UNCHANGED vars PROVE ApartInv'
  <1>1. IdsInv' /\ SourcedInv'
    BY IdsStutter DEF ApartInv, SourcedInv, TypeOK, FactsAreSourced, vars
  <1>2. \A d \in Docs : tx'[d].open => TxHolds(d)'
    BY OthersHold DEF ApartInv, vars
  <1>3. QED
    BY <1>1, <1>2 DEF ApartInv

\* In a behaviour where documents that share a row are never ingested at once, each
\* ingestion, however many steps of others fall between its own, changes the ledger's
\* sources as StatementLifecycle has it: in one step, with others' claims kept.
THEOREM ApartIsAtomic ==
    ASSUME SourcesAreRows PROVE Spec /\ []Apart => AtomicIngestions
  <1>1. Init => ApartInv
    BY ApartInit
  <1>2. ApartInv /\ Apart /\ [Next]_vars =>
            /\ ApartInv'
            /\ [UNCHANGED <<row, ingested>> \/ \E d \in Docs : IngestedAtOnce(d)]_vars
    BY ApartStep, ApartStutter
  <1>3. QED
    BY <1>1, <1>2, PTL DEF Spec, AtomicIngestions

\* One ingestion in one step keeps every document's claims.
LEMMA OneStepKeepsClaims ==
    ASSUME TypeOK, SourcesAreRows, ClaimsKept, NEW d \in Docs, IngestedAtOnce(d)
    PROVE  ClaimsKept'
  <1> SUFFICES ASSUME NEW e \in ingested', NEW r \in Source[e] PROVE e \in row'[r].docs
    BY DEF ClaimsKept
  <1>1. e = d \/ e \in ingested
    BY DEF IngestedAtOnce
  <1>2. ASSUME r \in Rows PROVE e \in row'[r].docs
    <2>1. IngestsRow(d, r)
      BY <1>2 DEF IngestedAtOnce
    <2>2. e # d => e \in Others(d, r)
      BY <1>1 DEF ClaimsKept, Others
    <2>3. QED
      BY <2>1, <2>2 DEF IngestsRow
  <1>3. QED
    BY <1>1, <1>2 DEF SourcesAreRows, TypeOK

\* In such a behaviour no ingestion takes another document's claims: the loss that TLC
\* shows needs two documents that share a row to be ingested at once.
THEOREM ApartKeepsClaims ==
    ASSUME SourcesAreRows PROVE Spec /\ []Apart => []ClaimsKept
  <1>1. Init => ClaimsKept
    BY DEF Init, ClaimsKept
  <1>2. TypeOK /\ ClaimsKept
            /\ [UNCHANGED <<row, ingested>> \/ \E d \in Docs : IngestedAtOnce(d)]_vars
            => ClaimsKept'
    <2>1. ASSUME ClaimsKept, UNCHANGED <<row, ingested>> PROVE ClaimsKept'
      BY <2>1 DEF ClaimsKept
    <2>2. QED
      BY <2>1, OneStepKeepsClaims DEF vars
  <1>3. QED
    BY <1>1, <1>2, TypeCorrect, ApartIsAtomic, PTL DEF Spec, AtomicIngestions

=============================================================================
