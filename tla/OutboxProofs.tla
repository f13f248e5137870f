----------------------------- MODULE OutboxProofs -----------------------------
(***************************************************************************)
(* Proofs about Outbox for any number of events and relays, any            *)
(* observations, batch size and number of crashes.                         *)
(***************************************************************************)
EXTENDS Outbox, FiniteSetTheorems, WellFoundedInduction, TLAPS

Enqueued == {e \in Events : id[e] # 0}

\* The serial column: ids are given once, in order, to the rows inserted.
IdsSerial ==
    /\ IsFiniteSet(Enqueued)
    /\ \A e \in Events : id[e] = 0 <=> row[e] = "none"
    /\ \A e \in Events : id[e] <= Cardinality(Enqueued)
    /\ \A d, e \in Events : id[d] = id[e] /\ id[d] # 0 => d = e

\* What is committed: the facts of the abstract specification.
Facts == {e \in Events : row[e] \in {"pending", "published"}}

\* A pass works on committed rows only.
PassesVisible == \A r \in Relays : relay[r].batch \cup relay[r].marked \subseteq Facts

\* The first row of a batch, as a predicate.
IsNext(e, batch) == e \in batch /\ \A d \in batch : id[e] <= id[d]

\* The handler is through with e, and e announced a price only if it is stored.
Handled(e) == Kind[e] = "price" => Copied(e)

\* A row that is marked, or about to be, has been handled.
MarksHandled ==
    \A r \in Relays :
        /\ \A e \in relay[r].marked : Handled(e)
        /\ relay[r].phase = "mark" =>
              \A e \in Events : IsNext(e, relay[r].batch) => Handled(e)

IInv ==
    /\ TypeOK
    /\ IdsSerial
    /\ PassesVisible
    /\ MarksHandled
    /\ PublishedIsIngested
-----------------------------------------------------------------------------
USE OutboxAssumption

\* A set of rows has one of smallest id.
LEMMA SmallestId ==
    ASSUME TypeOK, NEW batch \in SUBSET Events, batch # {}
    PROVE  \E e \in batch : IsNext(e, batch)
<1> DEFINE R == {ss \in Nat \X Nat : ss[1] < ss[2]}
           Ids == {id[e] : e \in batch}
<1>1. IsWellFoundedOn(R, Nat)
    BY NatLessThanWellFounded DEF OpToRel
<1>2. Ids \subseteq Nat /\ Ids # {}
    BY DEF TypeOK
<1> HIDE DEF R
<1>3. PICK n \in Ids : \A m \in Ids : ~ (<<m, n>> \in R)
  <2> HIDE DEF Ids
  <2> QED BY <1>1, <1>2, WFMin
<1>4. \A m \in Ids : ~(m < n)
    BY <1>2, <1>3 DEF R
<1>5. PICK e \in batch : n = id[e]
    BY <1>3
<1>6. \A d \in batch : id[d] \in Nat /\ ~(id[d] < id[e])
    BY <1>2, <1>4, <1>5
<1> QED BY <1>5, <1>6, <1>2 DEF IsNext

\* NextRow chooses it.
LEMMA NextIsNext ==
    ASSUME TypeOK, NEW batch \in SUBSET Events, batch # {}
    PROVE  IsNext(NextRow(batch), batch)
<1>1. \E e \in batch : \A d \in batch : id[e] <= id[d]
    BY SmallestId DEF IsNext
<1> QED BY <1>1 DEF NextRow, IsNext

\* It is unique among rows that have an id.
LEMMA NextUnique ==
    ASSUME TypeOK, IdsSerial, NEW batch \in SUBSET Facts, NEW e, NEW d,
           IsNext(e, batch), IsNext(d, batch)
    PROVE  e = d
<1>1. e \in Events /\ d \in Events /\ id[e] # 0 /\ id[d] # 0
    BY DEF IsNext, Facts, IdsSerial
<1>2. id[e] \in Nat /\ id[d] \in Nat /\ id[e] <= id[d] /\ id[d] <= id[e]
    BY <1>1 DEF IsNext, TypeOK
<1> QED BY <1>1, <1>2 DEF IdsSerial

\* The row a busy pass is at.
LEMMA CurrentRow ==
    ASSUME IInv, NEW r \in Relays, relay[r].phase \in {"check", "insert", "mark"}
    PROVE  LET e == NextRow(relay[r].batch) IN
           IsNext(e, relay[r].batch) /\ e \in Events /\ e \in Facts
<1>1. relay[r].batch \subseteq Events /\ relay[r].batch # {}
    BY DEF IInv, TypeOK, PassShape, Passes
<1>2. IsNext(NextRow(relay[r].batch), relay[r].batch)
    BY <1>1, NextIsNext DEF IInv
<1> QED BY <1>1, <1>2 DEF IsNext, IInv, PassesVisible

LEMMA InitInv == Init => IInv
<1> SUFFICES ASSUME Init PROVE IInv
    OBVIOUS
<1> USE DEF Init, Idle
<1>1. TypeOK
    BY DEF TypeOK, Passes, PassShape
<1>2. IdsSerial
  <2>1. Enqueued = {}
      BY DEF Enqueued
  <2> QED BY <2>1, FS_EmptySet DEF IdsSerial
<1>3. PassesVisible /\ MarksHandled /\ PublishedIsIngested
    BY DEF PassesVisible, MarksHandled, PublishedIsIngested
<1> QED BY <1>1, <1>2, <1>3 DEF IInv
-----------------------------------------------------------------------------
(* Producers. *)

\* A step that changes neither ids, copies nor a row's visibility keeps what
\* the passes of other relays rely on.
LEMMA CopiedStays ==
    ASSUME IInv, copies' \in [Events -> Nat], \A e \in Events : copies'[e] >= copies[e]
    PROVE  \A e \in Events : Handled(e) => Handled(e)'
  BY DEF IInv, TypeOK, Handled, Copied

\* A new row gets the next id and is seen by no pass.
LEMMA EnqueueStep ==
    ASSUME IInv, NEW e \in Events, Enqueue(e)
    PROVE  IInv'
<1> DEFINE n == Cardinality(Enqueued)
<1>1. /\ row[e] = "none" /\ row' = [row EXCEPT ![e] = "open"]
      /\ id' = [id EXCEPT ![e] = n + 1]
      /\ UNCHANGED <<copies, relay, crashes>>
    BY DEF Enqueue, Enqueued
<1>2. IsFiniteSet(Enqueued) /\ n \in Nat /\ e \notin Enqueued
    BY <1>1, FS_CardinalityType DEF IInv, IdsSerial, Enqueued
<1> HIDE DEF n
<1>3. Enqueued' = Enqueued \cup {e}
  <2>1. id \in [Events -> Nat] /\ n + 1 # 0
      BY <1>2 DEF IInv, TypeOK
  <2> QED BY <1>1, <2>1 DEF Enqueued
<1>4. IsFiniteSet(Enqueued') /\ Cardinality(Enqueued') = n + 1
    BY <1>2, <1>3, FS_AddElement DEF n
<1>5. TypeOK'
    BY <1>1, <1>2 DEF IInv, TypeOK, PassShape
<1>6. IdsSerial'
  <2>0. \A d \in Events : id[d] \in Nat /\ id[d] <= n
      BY DEF IInv, IdsSerial, TypeOK, n
  <2>1. \A d \in Events : id'[d] = IF d = e THEN n + 1 ELSE id[d]
      BY <1>1 DEF IInv, TypeOK
  <2>2. \A d \in Events : row'[d] = IF d = e THEN "open" ELSE row[d]
      BY <1>1 DEF IInv, TypeOK
  <2>3. \A d \in Events : id'[d] = 0 <=> row'[d] = "none"
      BY <1>2, <2>1, <2>2 DEF IInv, IdsSerial
  <2>4. \A d \in Events : id'[d] <= n + 1
      BY <1>2, <2>0, <2>1
  <2>5. \A c, d \in Events : id'[c] = id'[d] /\ id'[c] # 0 => c = d
      BY <1>2, <2>0, <2>1 DEF IInv, IdsSerial
  <2> QED BY <1>4, <2>3, <2>4, <2>5 DEF IdsSerial
<1>7. Facts' = Facts
    BY <1>1 DEF Facts, IInv, TypeOK
<1>8. PassesVisible' /\ PublishedIsIngested'
  <2>1. PassesVisible'
      BY <1>1, <1>7 DEF IInv, PassesVisible
  <2>2. PublishedIsIngested'
      BY <1>1 DEF IInv, TypeOK, PublishedIsIngested, Copied
  <2> QED BY <2>1, <2>2
<1>9. MarksHandled'
  <2>1. \A r \in Relays : e \notin relay[r].batch
      BY <1>1 DEF IInv, PassesVisible, Facts
  <2>2. ASSUME NEW r \in Relays, NEW d \in Events, IsNext(d, relay[r].batch)'
        PROVE  IsNext(d, relay[r].batch)
    <3>1. relay[r].batch \subseteq Events
        BY DEF IInv, PassesVisible, Facts
    <3>2. \A c \in relay[r].batch : id'[c] = id[c]
        BY <1>1, <2>1, <3>1 DEF IInv, TypeOK
    <3> QED BY <1>1, <2>2, <3>2 DEF IsNext
  <2>3. \A d \in Events : Handled(d)' <=> Handled(d)
      BY <1>1 DEF Handled, Copied
  <2>4. \A r \in Relays : relay[r].marked \subseteq Events
      BY DEF IInv, PassesVisible, Facts
  <2> QED BY <1>1, <2>2, <2>3, <2>4 DEF IInv, MarksHandled
<1> QED BY <1>5, <1>6, <1>8, <1>9 DEF IInv

\* A step that leaves ids and copies alone, and no visible row invisible.
LEMMA RowStep ==
    ASSUME IInv, UNCHANGED <<id, copies, relay, crashes>>,
           row' \in [Events -> {"open", "aborted", "pending", "published", "none"}],
           \A e \in Events : row'[e] = "none" <=> row[e] = "none",
           Facts \subseteq Facts',
           PublishedIsIngested'
    PROVE  IInv'
<1>1. TypeOK'
    BY DEF IInv, TypeOK, PassShape
<1>2. Enqueued' = Enqueued
    BY DEF Enqueued
<1>3. IdsSerial'
    BY <1>2 DEF IInv, IdsSerial
<1>4. PassesVisible'
    BY DEF IInv, PassesVisible
<1>5. MarksHandled'
    BY DEF IInv, MarksHandled, IsNext, Handled, Copied
<1> QED BY <1>1, <1>3, <1>4, <1>5 DEF IInv

LEMMA ProducerStep ==
    ASSUME IInv, NEW e \in Events, ProducerCommit(e) \/ ProducerAbort(e)
    PROVE  IInv'
<1>1. /\ UNCHANGED <<id, copies, relay, crashes>>
      /\ row[e] = "open"
      /\ \E s \in {"pending", "aborted"} : row' = [row EXCEPT ![e] = s]
    BY DEF ProducerCommit, ProducerAbort
<1>2. row \in [Events -> {"none", "open", "aborted", "pending", "published"}]
    BY DEF IInv, TypeOK
<1>3. Facts \subseteq Facts'
    BY <1>1, <1>2 DEF Facts
<1>4. PublishedIsIngested'
    BY <1>1, <1>2 DEF IInv, PublishedIsIngested, Copied
<1>5. \A d \in Events : row'[d] = "none" <=> row[d] = "none"
    BY <1>1, <1>2
<1>6. row' \in [Events -> {"open", "aborted", "pending", "published", "none"}]
    BY <1>1, <1>2
<1> QED BY <1>1, <1>3, <1>4, <1>5, <1>6, RowStep
-----------------------------------------------------------------------------
(* Relay passes. *)

\* A step of one pass that leaves rows and ids alone and loses no copy.
LEMMA PassStep ==
    ASSUME IInv, NEW r \in Relays,
           UNCHANGED <<row, id>>,
           copies' \in [Events -> Nat],
           \A e \in Events : copies'[e] >= copies[e],
           crashes' \in 0..MaxCrashes,
           NEW p \in Passes, relay' = [relay EXCEPT ![r] = p],
           PassShape(p),
           p.batch \cup p.marked \subseteq Facts,
           \A e \in p.marked : Handled(e)',
           p.phase = "mark" => \A e \in Events : IsNext(e, p.batch) => Handled(e)'
    PROVE  IInv'
<1>1. relay \in [Relays -> Passes] /\ \A x \in Relays : PassShape(relay[x])
    BY DEF IInv, TypeOK
<1>2. \A x \in Relays : relay'[x] = IF x = r THEN p ELSE relay[x]
    BY <1>1
<1>3. TypeOK'
  <2>1. relay' \in [Relays -> Passes]
      BY <1>1
  <2>2. \A x \in Relays : PassShape(relay'[x])
      BY <1>1, <1>2
  <2> QED BY <2>1, <2>2 DEF IInv, TypeOK, PassShape
<1>4. Enqueued' = Enqueued /\ Facts' = Facts
    BY DEF Enqueued, Facts
<1>5. IdsSerial'
    BY <1>4 DEF IInv, IdsSerial
<1>6. PassesVisible'
    BY <1>2, <1>4 DEF IInv, PassesVisible
<1>7. \A e \in Events : Handled(e) => Handled(e)'
    BY CopiedStays
<1>8. MarksHandled'
  <2> SUFFICES ASSUME NEW x \in Relays
               PROVE  /\ \A e \in relay'[x].marked : Handled(e)'
                      /\ relay'[x].phase = "mark" =>
                            \A e \in Events : IsNext(e, relay'[x].batch) => Handled(e)'
      BY DEF MarksHandled, IsNext
  <2>1. relay[x].marked \subseteq Events
      BY DEF IInv, PassesVisible, Facts
  <2> QED BY <1>2, <1>7, <2>1 DEF IInv, MarksHandled
<1>9. PublishedIsIngested'
    BY <1>7 DEF IInv, PublishedIsIngested, Handled
<1> QED BY <1>3, <1>5, <1>6, <1>8, <1>9 DEF IInv

\* A batch holds pending rows, and at least the oldest one.
LEMMA FetchStep ==
    ASSUME IInv, NEW r \in Relays, Fetch(r)
    PROVE  IInv'
<1> DEFINE p == [phase |-> "check", batch |-> OldestPending, marked |-> {}]
<1>1. /\ UNCHANGED <<row, id, copies, crashes>> /\ Pending # {}
      /\ relay' = [relay EXCEPT ![r] = p]
  <2>1. [Idle EXCEPT !.phase = "check"] = [phase |-> "check", batch |-> {}, marked |-> {}]
      BY DEF Idle
  <2>2. ASSUME NEW b
        PROVE  [[phase |-> "check", batch |-> {}, marked |-> {}] EXCEPT !.batch = b]
                  = [phase |-> "check", batch |-> b, marked |-> {}]
      OBVIOUS
  <2>3. [Idle EXCEPT !.phase = "check", !.batch = OldestPending] = p
      BY <2>1, <2>2
  <2> QED BY <2>3 DEF Fetch
<1>2. Pending \subseteq Facts /\ OldestPending \subseteq Pending /\ Facts \subseteq Events
    BY DEF Pending, Facts, OldestPending
<1>3. OldestPending # {}
  <2>0. TypeOK /\ Pending \in SUBSET Events /\ Pending # {}
      BY <1>1, <1>2 DEF IInv
  <2>1. PICK e \in Pending : IsNext(e, Pending)
      BY <2>0, SmallestId
  <2>2. \A d \in Pending : id[e] \in Nat /\ id[d] \in Nat /\ id[e] <= id[d]
      BY <1>2, <2>1 DEF IsNext, IInv, TypeOK
  <2>3. {d \in Pending : id[d] < id[e]} = {}
      BY <2>2
  <2>4. Cardinality({d \in Pending : id[d] < id[e]}) = 0
      BY <2>3, FS_EmptySet
  <2>5. 0 < BatchSize
      OBVIOUS
  <2> QED BY <2>1, <2>4, <2>5 DEF OldestPending
<1>4. p \in Passes /\ PassShape(p)
    BY <1>2, <1>3 DEF Passes, PassShape
<1>5. p.batch \cup p.marked \subseteq Facts
    BY <1>2
<1>6. copies' \in [Events -> Nat] /\ crashes' \in 0..MaxCrashes
      /\ \A e \in Events : copies'[e] >= copies[e]
    BY <1>1 DEF IInv, TypeOK
<1>7. p.marked = {} /\ p.phase # "mark"
    OBVIOUS
<1> HIDE DEF p
<1> QED BY <1>1, <1>4, <1>5, <1>6, <1>7, PassStep

\* A pass at row e that moves on to another phase of the same row.
LEMMA PhaseStep ==
    ASSUME IInv, NEW r \in Relays, NEW e, e = NextRow(relay[r].batch),
           UNCHANGED <<row, id, crashes>>,
           relay[r].phase \in {"check", "insert"},
           copies' \in [Events -> Nat],
           \A d \in Events : copies'[d] >= copies[d],
           NEW ph \in {"insert", "mark"}, relay' = [relay EXCEPT ![r].phase = ph],
           ph = "mark" => Handled(e)'
    PROVE  IInv'
<1> DEFINE p == [relay[r] EXCEPT !.phase = ph]
<1>1. relay[r] \in Passes /\ PassShape(relay[r]) /\ relay' = [relay EXCEPT ![r] = p]
    BY DEF IInv, TypeOK
<1>2. p \in Passes /\ PassShape(p)
    BY <1>1 DEF Passes, PassShape
<1>3. /\ p.batch = relay[r].batch /\ p.marked = relay[r].marked /\ p.phase = ph
      /\ p.batch \cup p.marked \subseteq Facts
    BY <1>1 DEF Passes, IInv, PassesVisible
<1>4. IsNext(e, p.batch)
    BY <1>3, CurrentRow
<1>5. \A d \in Events : IsNext(d, p.batch) => d = e
    BY <1>3, <1>4, NextUnique DEF IInv
<1>6. \A d \in p.marked : Handled(d)'
  <2>1. \A d \in p.marked : d \in Events /\ Handled(d)
      BY <1>3 DEF IInv, MarksHandled, Facts
  <2> QED BY <2>1, CopiedStays
<1>7. crashes' \in 0..MaxCrashes
    BY DEF IInv, TypeOK
<1> HIDE DEF p
<1> QED BY <1>1, <1>2, <1>3, <1>5, <1>6, <1>7, PassStep

LEMMA CheckStep ==
    ASSUME IInv, NEW r \in Relays, Check(r)
    PROVE  IInv'
<1>1. PICK e \in Events : e = NextRow(relay[r].batch)
    BY CurrentRow DEF Check
<1>2. PICK ph \in {"insert", "mark"} :
          /\ ph = IF Kind[e] = "skipped" \/ Copied(e) THEN "mark" ELSE "insert"
          /\ relay' = [relay EXCEPT ![r].phase = ph]
    BY <1>1 DEF Check
<1>3. relay[r].phase = "check" /\ UNCHANGED <<row, id, copies, crashes>>
    BY DEF Check
<1>4. ph = "mark" => Handled(e)'
    BY <1>2, <1>3 DEF Handled, Copied
<1>5. copies' \in [Events -> Nat] /\ \A d \in Events : copies'[d] >= copies[d]
    BY <1>3 DEF IInv, TypeOK
<1> QED BY <1>1, <1>2, <1>3, <1>4, <1>5, PhaseStep

\* What the handler's insert does.
LEMMA InsertFacts ==
    ASSUME IInv, NEW r \in Relays, Insert(r)
    PROVE  \E e \in Facts :
              /\ e = NextRow(relay[r].batch)
              /\ \A d \in Events : Observation[d] = Observation[e] => copies[d] = 0
              /\ copies' = [copies EXCEPT ![e] = 1]
<1>1. PICK e \in Facts : e = NextRow(relay[r].batch) /\ e \in Events
    BY CurrentRow DEF Insert
<1>2. ~Copied(e) /\ copies' = [copies EXCEPT ![e] = @ + 1]
    BY <1>1 DEF Insert, Refused
<1>3. \A d \in Events : Observation[d] = Observation[e] => copies[d] = 0
    BY <1>2 DEF Copied, IInv, TypeOK
<1>4. copies[e] = 0
    BY <1>1, <1>3
<1>5. copies' = [copies EXCEPT ![e] = 1]
    BY <1>1, <1>2, <1>4 DEF IInv, TypeOK
<1> QED BY <1>1, <1>3, <1>5

LEMMA InsertStep ==
    ASSUME IInv, NEW r \in Relays, Insert(r)
    PROVE  IInv'
<1>1. PICK e \in Facts :
          /\ e = NextRow(relay[r].batch)
          /\ \A d \in Events : Observation[d] = Observation[e] => copies[d] = 0
          /\ copies' = [copies EXCEPT ![e] = 1]
    BY InsertFacts
<1>2. /\ relay[r].phase = "insert" /\ UNCHANGED <<row, id, crashes>>
      /\ relay' = [relay EXCEPT ![r].phase = "mark"]
    BY DEF Insert
<1>3. e \in Events /\ copies[e] = 0
    BY <1>1 DEF Facts
<1>4. copies' \in [Events -> Nat] /\ \A d \in Events : copies'[d] >= copies[d]
    BY <1>1, <1>3 DEF IInv, TypeOK
<1>5. Handled(e)'
  <2>1. copies'[e] = 1
      BY <1>1, <1>3 DEF IInv, TypeOK
  <2> QED BY <1>3, <2>1 DEF Handled, Copied
<1> QED BY <1>1, <1>2, <1>4, <1>5, PhaseStep

\* A pass that dies, or whose handler raises, leaves nothing behind.
LEMMA LostPassStep ==
    ASSUME IInv, NEW r \in Relays, InsertFails(r) \/ Crash(r)
    PROVE  IInv'
<1>1. /\ UNCHANGED <<row, id, copies>>
      /\ relay' = [relay EXCEPT ![r] = Idle]
      /\ crashes' \in 0..MaxCrashes
    BY DEF InsertFails, Crash, IInv, TypeOK
<1>2. Idle \in Passes /\ PassShape(Idle) /\ Idle.batch \cup Idle.marked = {}
      /\ Idle.marked = {} /\ Idle.phase # "mark"
    BY DEF Idle, Passes, PassShape
<1>3. copies' \in [Events -> Nat] /\ \A e \in Events : copies'[e] >= copies[e]
    BY <1>1 DEF IInv, TypeOK
<1> QED BY <1>1, <1>2, <1>3, PassStep

\* A row is marked only after its handler is through.
LEMMA MarkStep ==
    ASSUME IInv, NEW r \in Relays, Mark(r)
    PROVE  IInv'
<1>1. PICK e \in Events : e = NextRow(relay[r].batch) /\ IsNext(e, relay[r].batch)
    BY CurrentRow DEF Mark
<1> DEFINE rest == relay[r].batch \ {e}
           p == [phase |-> IF rest = {} THEN "commit" ELSE "check",
                 batch |-> rest, marked |-> relay[r].marked \cup {e}]
<1>2. /\ relay[r].phase = "mark" /\ UNCHANGED <<row, id, copies, crashes>>
      /\ relay' = [relay EXCEPT ![r] = p]
    BY <1>1 DEF Mark
<1>3. relay[r] \in Passes /\ PassShape(relay[r])
    BY DEF IInv, TypeOK
<1>4. p \in Passes /\ PassShape(p)
    BY <1>1, <1>3 DEF Passes, PassShape
<1>5. p.batch \cup p.marked \subseteq Facts
    BY <1>1 DEF IInv, PassesVisible, IsNext
<1>6. \A d \in p.marked : Handled(d)'
  <2>1. \A d \in p.marked : Handled(d)
      BY <1>1, <1>2 DEF IInv, MarksHandled
  <2> QED BY <1>2, <2>1 DEF Handled, Copied
<1>7. copies' \in [Events -> Nat] /\ (\A d \in Events : copies'[d] >= copies[d])
      /\ crashes' \in 0..MaxCrashes
    BY <1>2 DEF IInv, TypeOK
<1>8. p.phase # "mark"
    OBVIOUS
<1> HIDE DEF p
<1> QED BY <1>2, <1>4, <1>5, <1>6, <1>7, <1>8, PassStep

\* The batch's commit publishes rows that have been handled.
LEMMA CommitStep ==
    ASSUME IInv, NEW r \in Relays, CommitBatch(r)
    PROVE  IInv' /\ Facts' = Facts
<1>1. /\ UNCHANGED <<id, copies, crashes>>
      /\ row' = [e \in Events |-> IF e \in relay[r].marked THEN "published" ELSE row[e]]
      /\ relay' = [relay EXCEPT ![r] = Idle]
    BY DEF CommitBatch
<1>2. row \in [Events -> {"none", "open", "aborted", "pending", "published"}]
      /\ relay \in [Relays -> Passes]
    BY DEF IInv, TypeOK
<1>3. relay[r].marked \subseteq Facts
    BY DEF IInv, PassesVisible
<1>4. Facts' = Facts /\ \A e \in Events : row'[e] = "none" <=> row[e] = "none"
    BY <1>1, <1>3 DEF Facts
<1>5. Idle \in Passes /\ PassShape(Idle) /\ Idle.batch = {} /\ Idle.marked = {}
      /\ Idle.phase # "mark"
    BY DEF Idle, Passes, PassShape
<1>6. \A x \in Relays : relay'[x] = relay[x] \/ relay'[x] = Idle
    BY <1>1, <1>2
<1>7. TypeOK'
  <2>1. row' \in [Events -> {"none", "open", "aborted", "pending", "published"}]
      BY <1>1, <1>2
  <2>2. relay' \in [Relays -> Passes]
      BY <1>1, <1>2, <1>5
  <2>3. \A x \in Relays : PassShape(relay'[x])
      BY <1>5, <1>6 DEF IInv, TypeOK
  <2> QED BY <1>1, <2>1, <2>2, <2>3 DEF IInv, TypeOK, PassShape
<1>8. IdsSerial'
  <2>1. Enqueued' = Enqueued
      BY <1>1 DEF Enqueued
  <2> QED BY <1>1, <1>4, <2>1 DEF IInv, IdsSerial
<1>9. PassesVisible'
    BY <1>4, <1>5, <1>6 DEF IInv, PassesVisible
<1>10. \A e \in Events : Handled(e)' <=> Handled(e)
    BY <1>1 DEF Handled, Copied
<1>11. MarksHandled'
  <2> SUFFICES ASSUME NEW x \in Relays
               PROVE  /\ \A e \in relay'[x].marked : Handled(e)'
                      /\ relay'[x].phase = "mark" =>
                            \A e \in Events : IsNext(e, relay[x].batch)' => Handled(e)'
      BY DEF MarksHandled, IsNext
  <2>1. CASE relay'[x] = Idle
      BY <2>1, <1>5
  <2>2. CASE relay'[x] = relay[x]
    <3>1. relay[x].marked \subseteq Events
        BY DEF IInv, PassesVisible, Facts
    <3>2. \A e \in Events : IsNext(e, relay[x].batch)' => IsNext(e, relay[x].batch)
        BY <2>2, <1>1 DEF IsNext
    <3>3. /\ \A e \in relay[x].marked : Handled(e)
          /\ relay[x].phase = "mark" =>
                \A e \in Events : IsNext(e, relay[x].batch) => Handled(e)
        BY DEF IInv, MarksHandled
    <3>4. \A e \in relay'[x].marked : Handled(e)'
        BY <2>2, <3>1, <3>3, <1>10
    <3>5. relay'[x].phase = "mark" =>
             \A e \in Events : IsNext(e, relay[x].batch)' => Handled(e)'
        BY <2>2, <3>2, <3>3, <1>10
    <3> QED BY <3>4, <3>5
  <2> QED BY <2>1, <2>2, <1>6
<1>12. PublishedIsIngested'
  <2>1. \A e \in Events : row'[e] = "published" => row[e] = "published" \/ e \in relay[r].marked
      BY <1>1
  <2>2. \A e \in Events : row'[e] = "published" => Handled(e)
    <3>1. \A e \in relay[r].marked : Handled(e)
        BY DEF IInv, MarksHandled
    <3>2. \A e \in Events : row[e] = "published" => Handled(e)
        BY DEF IInv, PublishedIsIngested, Handled
    <3> QED BY <2>1, <3>1, <3>2
  <2> QED BY <2>2, <1>10 DEF PublishedIsIngested, Handled
<1> QED BY <1>4, <1>7, <1>8, <1>9, <1>11, <1>12 DEF IInv
-----------------------------------------------------------------------------
LEMMA NextInv == IInv /\ [Next]_vars => IInv'
<1> SUFFICES ASSUME IInv, [Next]_vars PROVE IInv'
    OBVIOUS
<1>1. ASSUME NEW e \in Events, Enqueue(e) PROVE IInv'
    BY <1>1, EnqueueStep
<1>2. ASSUME NEW e \in Events, ProducerCommit(e) \/ ProducerAbort(e) PROVE IInv'
    BY <1>2, ProducerStep
<1>3. ASSUME NEW r \in Relays, Fetch(r) PROVE IInv'
    BY <1>3, FetchStep
<1>4. ASSUME NEW r \in Relays, Check(r) PROVE IInv'
    BY <1>4, CheckStep
<1>5. ASSUME NEW r \in Relays, Insert(r) PROVE IInv'
    BY <1>5, InsertStep
<1>6. ASSUME NEW r \in Relays, InsertFails(r) \/ Crash(r) PROVE IInv'
    BY <1>6, LostPassStep
<1>7. ASSUME NEW r \in Relays, Mark(r) PROVE IInv'
    BY <1>7, MarkStep
<1>8. ASSUME NEW r \in Relays, CommitBatch(r) PROVE IInv'
    BY <1>8, CommitStep
<1>9. CASE UNCHANGED vars
  <2>1. UNCHANGED <<row, id, copies, relay, crashes>>
      BY <1>9 DEF vars
  <2> QED BY <2>1 DEF IInv, TypeOK, PassShape, IdsSerial, Enqueued, PassesVisible, Facts,
                      MarksHandled, IsNext, Handled, Copied, PublishedIsIngested
<1> QED BY <1>1, <1>2, <1>3, <1>4, <1>5, <1>6, <1>7, <1>8, <1>9 DEF Next, Pass

\* The inductive invariant holds in every reachable state.
THEOREM Invariant == Spec => []IInv
<1>1. Init => IInv
    BY InitInv
<1>2. IInv /\ [Next]_vars => IInv'
    BY NextInv
<1> QED BY <1>1, <1>2, PTL DEF Spec

\* Every variable keeps its type, and an idle relay holds nothing of the pass
\* that run_once ended.
THEOREM TypeCorrect == Spec => []TypeOK
<1>1. IInv => TypeOK
    BY DEF IInv
<1> QED BY <1>1, Invariant, PTL

\* However many relays run, fail and die, run_once marks no price published
\* that ingest_statement_price has not stored.
THEOREM DeliveredIsIngested == Spec => []PublishedIsIngested
<1>1. IInv => PublishedIsIngested
    BY DEF IInv
<1> QED BY <1>1, Invariant, PTL
-----------------------------------------------------------------------------
(* Refinement. *)

LEMMA RefinesInit == Init => I!Init
    BY DEF Init, I!Init

LEMMA RefinesNext == IInv /\ [Next]_vars => [I!Next]_(I!vars)
<1> SUFFICES ASSUME IInv, [Next]_vars PROVE I!Next \/ UNCHANGED I!vars
    OBVIOUS
<1>0. row \in [Events -> {"none", "open", "aborted", "pending", "published"}]
    BY DEF IInv, TypeOK
<1>1. ASSUME NEW e \in Events, Enqueue(e) \/ ProducerAbort(e) PROVE UNCHANGED I!vars
  <2>1. /\ row[e] \in {"none", "open"} /\ copies' = copies
        /\ \E s \in {"open", "aborted"} : row' = [row EXCEPT ![e] = s]
      BY <1>1 DEF Enqueue, ProducerAbort
  <2>2. Facts' = Facts
      BY <1>0, <2>1 DEF Facts
  <2> QED BY <2>1, <2>2 DEF I!vars, Facts
<1>2. ASSUME NEW e \in Events, ProducerCommit(e) PROVE I!Next
  <2>1. row[e] = "open" /\ row' = [row EXCEPT ![e] = "pending"] /\ copies' = copies
      BY <1>2 DEF ProducerCommit
  <2>2. e \notin Facts /\ Facts' = Facts \cup {e}
      BY <1>0, <2>1 DEF Facts
  <2>3. I!Commit(e)
      BY <2>1, <2>2 DEF I!Commit, Facts
  <2> QED BY <2>3 DEF I!Next
<1>3. ASSUME NEW r \in Relays, Insert(r) PROVE I!Next
  <2>1. PICK e \in Facts :
            /\ \A d \in Events : Observation[d] = Observation[e] => copies[d] = 0
            /\ copies' = [copies EXCEPT ![e] = 1]
      BY <1>3, InsertFacts
  <2>2. e \in Events /\ row' = row
      BY <1>3 DEF Facts, Insert
  <2>3. I!Ingest(e)
      BY <2>1, <2>2 DEF I!Ingest, Facts
  <2> QED BY <2>2, <2>3 DEF I!Next
<1>4. ASSUME NEW r \in Relays,
             Fetch(r) \/ Check(r) \/ InsertFails(r) \/ Mark(r) \/ Crash(r)
      PROVE  UNCHANGED I!vars
    BY <1>4 DEF Fetch, Check, InsertFails, Mark, Crash, I!vars
<1>5. ASSUME NEW r \in Relays, CommitBatch(r) PROVE UNCHANGED I!vars
  <2>1. Facts' = Facts /\ copies' = copies
      BY <1>5, CommitStep DEF CommitBatch
  <2> QED BY <2>1 DEF I!vars, Facts
<1>6. CASE UNCHANGED vars
    BY <1>6 DEF vars, I!vars
<1> QED BY <1>1, <1>2, <1>3, <1>4, <1>5, <1>6 DEF Next, Pass

\* Delivery at least once, by any number of relays, is ingestion at most once:
\* every behaviour of the outbox, relay and handler is one of Ingestion.
THEOREM Refinement == Spec => IngestionSpec
<1>1. Init => I!Init
    BY RefinesInit
<1>2. IInv /\ [Next]_vars => [I!Next]_(I!vars)
    BY RefinesNext
<1> QED BY <1>1, <1>2, Invariant, PTL DEF Spec, IngestionSpec, I!Spec
=============================================================================
