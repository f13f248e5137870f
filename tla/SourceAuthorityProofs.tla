------------------------ MODULE SourceAuthorityProofs ------------------------
(***************************************************************************)
(* Proofs about SourceAuthority for any number of statements, reviews and  *)
(* rows, whatever rows the statements share, and any bound on decisions.   *)
(***************************************************************************)
EXTENDS SourceAuthority, TLAPS

(* What the committed records of a row promise.                            *)
RowHolds(r) ==
    \* The lineage starts where nothing is decided.
    /\ NoDecision \in decided[r]
    \* The head is unique and no decision comes later than it.
    /\ \A g, h \in Heads(decided[r]) : g = h
    /\ \A h \in Heads(decided[r]), g \in decided[r] : Len(g) <= Len(h)
    \* An entry is anchored to a committed decision, and is the only one.
    /\ \A e \in entries[r] : e.anchor \in decided[r]
    /\ \A e, f \in entries[r] : e = f
    \* A reviewed decision came with an entry, so there is one at most.
    /\ \A h \in decided[r] : Manual(h) => entries[r] # {}
    /\ \A g, h \in decided[r] : Manual(g) /\ Manual(h) => g = h

(* A decision that t appended supersedes the head of its row.              *)
Extends(t, r) ==
    \E h \in Heads(decided[r]), d \in Decision :
        d.by = t /\ tx[t].made[r] = Append(h, d)

(* What a running transaction may rely on.                                 *)
TxHolds(t) ==
    /\ \A r \in tx[t].wrote \cup tx[t].posts \cup tx[t].kept :
            r \in tx[t].plan /\ tx[t].made[r] # NoDecision
    /\ \A r \in Rows : tx[t].made[r] \in Seen(t, r)
    /\ \A r \in tx[t].wrote : Extends(t, r)
    /\ \A r \in tx[t].posts : entries[r] = {}
    /\ tx[t].kept \cap tx[t].wrote = {}
    /\ \A r \in tx[t].plan : Live(r) # {} => r \in tx[t].missed

(* A review in flight has decided its row, to post it, and has posted it   *)
(* before it commits.                                                      *)
ReviewHolds(m) ==
    /\ tx[m].stage # "idle" =>
            /\ tx[m].plan = {Target[m]}
            /\ tx[m].wrote = {Target[m]}
            /\ VerdictOf(m, Target[m]) = "post"
    /\ tx[m].stage = "valid" => Target[m] \in tx[m].posts

(* No two transactions hold one lineage.                                   *)
LocksExclude ==
    \A t, u \in Actors :
        t # u => tx[t].wrote \cap tx[u].wrote = {} /\ tx[t].posts \cap tx[u].posts = {}

IInv ==
    /\ TypeOK
    /\ \A r \in Rows : RowHolds(r)
    /\ \A t \in Actors : TxHolds(t)
    /\ \A m \in Reviews : ReviewHolds(m)
    /\ LocksExclude
-----------------------------------------------------------------------------
USE AuthorityAssumption

\* Every actor is a statement or a review, and not both.
LEMMA ActorSorts ==
    /\ \A s \in Statements : s \in Actors /\ s \notin Reviews
    /\ \A m \in Reviews : m \in Actors /\ m \notin Statements
  BY DEF Actors

\* A history with one more decision: a longer one that determines both.
LEMMA AppendFacts ==
    ASSUME NEW g \in History, NEW h \in History, NEW c \in Decision, NEW d \in Decision
    PROVE  /\ Append(h, d) # NoDecision
           /\ Len(Append(h, d)) = Len(h) + 1
           /\ Append(h, d)[Len(Append(h, d))] = d
           /\ Append(h, d) \in Seq(Decision)
           /\ Append(g, c) = Append(h, d) => g = h /\ c = d
<1>1. g \in Seq(Decision) /\ h \in Seq(Decision)
    BY DEF History
<1>2. /\ Append(h, d) # NoDecision
      /\ Len(Append(h, d)) = Len(h) + 1
      /\ Append(h, d)[Len(Append(h, d))] = d
      /\ Append(h, d) \in Seq(Decision)
    BY <1>1 DEF NoDecision
<1>3. ASSUME Append(g, c) = Append(h, d) PROVE g = h /\ c = d
  <2>1. Len(g) = Len(h)
      BY <1>1, <1>3
  <2>2. c = d
      BY <1>1, <1>3, <2>1
  <2>3. \A i \in 1..Len(g) : g[i] = h[i]
      BY <1>1, <1>3, <2>1
  <2> QED BY <1>1, <2>1, <2>2, <2>3
<1> QED BY <1>2, <1>3

\* The empty history is one.
LEMMA EmptyHistory == NoDecision \in History /\ Len(NoDecision) = 0
  BY DEF History, NoDecision

\* What is superseded stays superseded when records are added.
LEMMA SupersededGrows ==
    ASSUME NEW small, NEW large, small \subseteq large, NEW h, Superseded(h, small)
    PROVE  Superseded(h, large)
  BY DEF Superseded

\* What a transaction sees of a row is what is committed and, of a row it wrote,
\* its own decision.
LEMMA SeenFacts ==
    ASSUME NEW t, NEW r
    PROVE  /\ r \notin tx[t].wrote => Seen(t, r) = decided[r]
           /\ r \in tx[t].wrote => Seen(t, r) = decided[r] \cup {tx[t].made[r]}
           /\ decided[r] \subseteq Seen(t, r)
  BY DEF Seen

-----------------------------------------------------------------------------
LEMMA IdleType == Idle \in Transaction
  BY EmptyHistory DEF Idle, Transaction

LEMMA InitInv == Init => IInv
<1> SUFFICES ASSUME Init PROVE IInv
    OBVIOUS
<1>1. /\ \A t \in Actors : tx[t] = Idle
      /\ \A r \in Rows : decided[r] = {NoDecision} /\ entries[r] = {}
    BY DEF Init
<1>2. TypeOK
    BY EmptyHistory, IdleType DEF Init, TypeOK
<1>3. ASSUME NEW r \in Rows PROVE RowHolds(r)
    BY <1>1, EmptyHistory DEF RowHolds, Heads, Manual
<1>4. ASSUME NEW t \in Actors PROVE TxHolds(t)
    BY <1>1 DEF TxHolds, Idle, Seen
<1>5. ASSUME NEW m \in Reviews PROVE ReviewHolds(m)
    BY <1>1, ActorSorts DEF ReviewHolds, Idle
<1>6. LocksExclude
    BY <1>1 DEF LocksExclude, Idle
<1> QED BY <1>2, <1>3, <1>4, <1>5, <1>6 DEF IInv

\* A step of one transaction that leaves the committed records alone.
LEMMA TxStep ==
    ASSUME IInv, NEW t \in Actors, NEW x \in Transaction,
           tx' = [tx EXCEPT ![t] = x], UNCHANGED <<decided, entries>>,
           x.stage = "idle" => x = Idle,
           TxHolds(t)',
           t \in Reviews => ReviewHolds(t)',
           \A u \in Actors \ {t} :
                x.wrote \cap tx[u].wrote = {} /\ x.posts \cap tx[u].posts = {}
    PROVE  IInv'
<1>1. /\ tx \in [Actors -> Transaction]
      /\ tx'[t] = x
      /\ \A u \in Actors : u # t => tx'[u] = tx[u]
    BY DEF IInv, TypeOK
<1>2. TypeOK'
    BY <1>1 DEF IInv, TypeOK
<1>3. ASSUME NEW r \in Rows PROVE RowHolds(r)'
    BY DEF IInv, RowHolds, Heads, Superseded
<1>4. ASSUME NEW u \in Actors PROVE TxHolds(u)'
  <2>1. CASE u = t
      BY <2>1
  <2>2. CASE u # t
    <3>1. TxHolds(u) /\ tx'[u] = tx[u]
        BY <1>1, <2>2 DEF IInv
    <3> QED BY <3>1 DEF TxHolds, Seen, Extends, Heads, Live, Superseded
  <2> QED BY <2>1, <2>2
<1>5. ASSUME NEW m \in Reviews PROVE ReviewHolds(m)'
  <2>1. CASE m = t
      BY <2>1
  <2>2. CASE m # t
      BY <1>1, <2>2, ActorSorts DEF IInv, ReviewHolds, VerdictOf
  <2> QED BY <2>1, <2>2
<1>6. LocksExclude'
    BY <1>1 DEF IInv, LocksExclude
<1> QED BY <1>2, <1>3, <1>4, <1>5, <1>6 DEF IInv

LEMMA PlanStep ==
    ASSUME IInv, NEW s \in Statements, Plan(s)
    PROVE  IInv'
<1> DEFINE x == [Idle EXCEPT !.stage = "open", !.plan = Uncovered(s)]
<1>1. s \in Actors /\ s \notin Reviews
    BY ActorSorts
<1>2. /\ x \in Transaction
      /\ x.stage = "open" /\ x.plan = Uncovered(s) /\ x.made = [r \in Rows |-> NoDecision]
      /\ x.wrote = {} /\ x.posts = {} /\ x.kept = {} /\ x.missed = {}
  <2>1. Uncovered(s) \subseteq Rows
      BY DEF Uncovered
  <2> QED BY <2>1, IdleType DEF Transaction, Idle
<1>3. tx' = [tx EXCEPT ![s] = x] /\ UNCHANGED <<decided, entries>>
    BY DEF Plan
<1>4. tx'[s] = x
    BY <1>1, <1>3 DEF IInv, TypeOK
<1>5. \A r \in Rows : NoDecision \in decided[r]
    BY DEF IInv, RowHolds
<1> HIDE DEF x
<1>6. TxHolds(s)'
  <2>1. \A r \in Uncovered(s) : Live(r) = {}
      BY DEF Uncovered
  <2>2. \A r \in Rows : Live(r)' = Live(r)
      BY <1>3 DEF Live, Superseded
  <2>3. \A r \in Rows : tx'[s].made[r] \in Seen(s, r)'
      BY <1>2, <1>3, <1>4, <1>5 DEF Seen
  <2>4. tx'[s].plan = Uncovered(s) /\ Uncovered(s) \subseteq Rows
    <3>1. tx'[s].plan = Uncovered(s)
        BY <1>2, <1>4
    <3>2. Uncovered(s) \subseteq Rows
        BY DEF Uncovered
    <3> QED BY <3>1, <3>2
  <2>5. \A r \in tx'[s].plan : Live(r)' = {}
      BY <2>1, <2>2, <2>4
  <2> QED BY <1>2, <1>3, <1>4, <2>3, <2>5 DEF TxHolds
<1> QED BY <1>1, <1>2, <1>3, <1>6, TxStep

\* What is appended to the head of a row's lineage is a history.
LEMMA AppendedIsHistory ==
    ASSUME IInv, NEW t \in Actors, NEW r \in Rows, NEW h \in Heads(decided[r]),
           NEW d \in Decision, d.by = t, Len(h) < MaxDecisions
    PROVE  /\ Append(h, d) \in History
           /\ Append(h, d) # NoDecision
           /\ h \in History
<1>1. h \in History
    BY DEF IInv, TypeOK, Heads
<1>2. Append(h, d) \in Seq(Decision) /\ Len(Append(h, d)) = Len(h) + 1
      /\ Append(h, d) # NoDecision
    BY <1>1, AppendFacts
<1>3. Append(h, d) \in History
    BY <1>1, <1>2 DEF History
<1> QED BY <1>1, <1>2, <1>3

LEMMA DecideStep ==
    ASSUME IInv, NEW s \in Statements, NEW r \in Rows, Decide(s, r)
    PROVE  IInv'
<1>1. s \in Actors /\ s \notin Reviews
    BY ActorSorts
<1>2. /\ tx[s] \in Transaction /\ TxHolds(s) /\ RowHolds(r)
      /\ tx[s].stage = "open" /\ r \in tx[s].plan /\ tx[s].made[r] = NoDecision
      /\ UNCHANGED <<decided, entries>>
    BY <1>1 DEF IInv, TypeOK, Decide
<1>3. PICK verdict \in Verdicts, head \in Heads(decided[r]) :
        IF head = <<[by |-> s, verdict |-> verdict]>>
        THEN tx' = [tx EXCEPT ![s].made[r] = head]
        ELSE Appended(s, r, head, verdict)
    BY DEF Decide
<1>4. r \notin tx[s].wrote \cup tx[s].posts \cup tx[s].kept
    BY <1>2 DEF TxHolds
<1>5. CASE head = <<[by |-> s, verdict |-> verdict]>>
  <2> DEFINE x == [tx[s] EXCEPT !.made[r] = head]
  <2>1. head \in History /\ head \in decided[r] /\ head # NoDecision
      BY <1>5 DEF IInv, TypeOK, Heads, NoDecision
  <2>2. /\ x \in Transaction /\ tx' = [tx EXCEPT ![s] = x]
        /\ x.stage = "open" /\ x.plan = tx[s].plan /\ x.wrote = tx[s].wrote
        /\ x.posts = tx[s].posts /\ x.kept = tx[s].kept /\ x.missed = tx[s].missed
        /\ x.made[r] = head /\ \A q \in Rows : q # r => x.made[q] = tx[s].made[q]
      BY <1>1, <1>2, <1>3, <1>5, <2>1 DEF Transaction, IInv, TypeOK
  <2>3. tx'[s] = x
      BY <1>1, <2>2 DEF IInv, TypeOK
  <2> HIDE DEF x
  <2>4. \A q \in Rows : x.made[q] \in Seen(s, q)'
      BY <1>2, <1>4, <2>1, <2>2, <2>3 DEF TxHolds, Seen
  <2>5. \A q \in x.wrote : Extends(s, q)'
      BY <1>2, <1>4, <2>2, <2>3 DEF TxHolds, Extends, Heads, Superseded, Transaction
  <2>6. \A q \in Rows : Live(q)' = Live(q)
      BY <1>2 DEF Live, Superseded
  <2>7. TxHolds(s)'
      BY <1>2, <2>1, <2>2, <2>3, <2>4, <2>5, <2>6 DEF TxHolds, Transaction
  <2>8. \A u \in Actors \ {s} :
            x.wrote \cap tx[u].wrote = {} /\ x.posts \cap tx[u].posts = {}
      BY <1>1, <2>2 DEF IInv, LocksExclude
  <2> QED BY <1>1, <1>2, <2>2, <2>7, <2>8, TxStep
<1>6. CASE Appended(s, r, head, verdict)
  <2> DEFINE d == [by |-> s, verdict |-> verdict]
             x == [tx[s] EXCEPT !.made[r] = Append(head, d), !.wrote = @ \cup {r}]
  <2>1. d \in Decision /\ d.by = s
      BY <1>1 DEF Decision
  <2>2. Append(head, d) \in History /\ Append(head, d) # NoDecision /\ head \in History
      BY <1>1, <1>6, <2>1, AppendedIsHistory DEF Appended
  <2>3. /\ x \in Transaction /\ tx' = [tx EXCEPT ![s] = x]
        /\ x.stage = "open" /\ x.plan = tx[s].plan /\ x.wrote = tx[s].wrote \cup {r}
        /\ x.posts = tx[s].posts /\ x.kept = tx[s].kept /\ x.missed = tx[s].missed
        /\ x.made[r] = Append(head, d)
        /\ \A q \in Rows : q # r => x.made[q] = tx[s].made[q]
      BY <1>1, <1>2, <1>6, <2>2 DEF Transaction, IInv, TypeOK, Appended
  <2>4. tx'[s] = x
      BY <1>1, <2>3 DEF IInv, TypeOK
  <2>5. \A u \in Actors \ {s} : r \notin tx[u].wrote
      BY <1>6 DEF Appended, LineageFree
  <2> HIDE DEF x, d
  <2>6. \A q \in Rows : x.made[q] \in Seen(s, q)'
      BY <1>2, <2>3, <2>4 DEF TxHolds, Seen
  <2>7. \A q \in x.wrote : Extends(s, q)'
    <3>1. Extends(s, r)'
        BY <1>2, <2>1, <2>3, <2>4 DEF Extends, Heads, Superseded
    <3>2. ASSUME NEW q \in tx[s].wrote PROVE Extends(s, q)'
      <4>1. q \in Rows /\ q # r
          BY <1>2, <1>4 DEF TxHolds, Transaction
      <4>2. tx'[s].made[q] = tx[s].made[q] /\ Extends(s, q)
          BY <1>2, <2>3, <2>4, <4>1 DEF TxHolds
      <4> QED BY <1>2, <4>2 DEF Extends, Heads, Superseded
    <3> QED BY <2>3, <2>4, <3>1, <3>2
  <2>8. \A q \in Rows : Live(q)' = Live(q)
      BY <1>2 DEF Live, Superseded
  <2>9. TxHolds(s)'
      BY <1>2, <1>4, <2>2, <2>3, <2>4, <2>6, <2>7, <2>8 DEF TxHolds, Transaction
  <2>10. \A u \in Actors \ {s} :
            x.wrote \cap tx[u].wrote = {} /\ x.posts \cap tx[u].posts = {}
      BY <1>1, <2>3, <2>5 DEF IInv, LocksExclude
  <2> QED BY <1>1, <1>2, <2>3, <2>9, <2>10, TxStep
<1> QED BY <1>3, <1>5, <1>6

LEMMA ReviewStep ==
    ASSUME IInv, NEW m \in Reviews, Review(m)
    PROVE  IInv'
<1> DEFINE r == Target[m]
           d == [by |-> m, verdict |-> "post"]
<1>1. m \in Actors /\ r \in Rows /\ RowHolds(r) /\ UNCHANGED <<decided, entries>>
    BY ActorSorts DEF Review, IInv
<1>2. PICK head \in Heads(decided[r]) :
        /\ LineageFree(m, r)
        /\ Len(head) < MaxDecisions
        /\ tx' = [tx EXCEPT ![m] =
                    [Idle EXCEPT !.stage = "open", !.plan = {r}, !.wrote = {r},
                                 !.made[r] = Append(head, d)]]
    BY DEF Review
<1>3. d \in Decision /\ d.by = m /\ d.verdict = "post"
    BY <1>1 DEF Decision, Verdicts
<1>4. Append(head, d) \in History /\ Append(head, d) # NoDecision /\ head \in History
    BY <1>1, <1>2, <1>3, AppendedIsHistory
<1> DEFINE x == [Idle EXCEPT !.stage = "open", !.plan = {r}, !.wrote = {r},
                             !.made[r] = Append(head, d)]
<1>5. /\ x \in Transaction /\ tx' = [tx EXCEPT ![m] = x]
      /\ x.stage = "open" /\ x.plan = {r} /\ x.wrote = {r}
      /\ x.posts = {} /\ x.kept = {} /\ x.missed = {}
      /\ x.made[r] = Append(head, d)
      /\ \A q \in Rows : q # r => x.made[q] = NoDecision
    BY <1>1, <1>2, <1>4, IdleType DEF Transaction, Idle
<1>6. tx'[m] = x
    BY <1>1, <1>5 DEF IInv, TypeOK
<1>7. Live(r) = {}
    BY DEF Review, Refused
<1>8. Append(head, d)[Len(Append(head, d))] = d
    BY <1>3, <1>4, AppendFacts
<1> HIDE DEF x, d, r
<1>9. \A q \in Rows : x.made[q] \in Seen(m, q)'
  <2>1. \A q \in Rows : NoDecision \in decided[q]
      BY DEF IInv, RowHolds
  <2> QED BY <1>1, <1>5, <1>6, <2>1 DEF Seen
<1>10. Extends(m, r)'
    BY <1>1, <1>3, <1>5, <1>6 DEF Extends, Heads, Superseded
<1>11. \A q \in Rows : Live(q)' = Live(q)
    BY <1>1 DEF Live, Superseded
<1>12. TxHolds(m)'
    BY <1>1, <1>4, <1>5, <1>6, <1>7, <1>9, <1>10, <1>11 DEF TxHolds
<1>13. ReviewHolds(m)'
  <2>1. VerdictOf(m, r)' = "post"
      BY <1>3, <1>5, <1>6, <1>8 DEF VerdictOf
  <2> QED BY <1>5, <1>6, <2>1 DEF ReviewHolds, r
<1>14. \A u \in Actors \ {m} :
            x.wrote \cap tx[u].wrote = {} /\ x.posts \cap tx[u].posts = {}
    BY <1>2, <1>5 DEF LineageFree
<1> QED BY <1>1, <1>5, <1>12, <1>13, <1>14, TxStep

\* A transaction never returns the entry of a row whose decision it superseded.
LEMMA KeptIsNotWritten ==
    ASSUME IInv, NEW t \in Actors, NEW r \in Rows, NEW e \in entries[r],
           ~Superseded(e.anchor, Seen(t, r))
    PROVE  r \notin tx[t].wrote
<1> SUFFICES ASSUME r \in tx[t].wrote PROVE FALSE
    OBVIOUS
<1>1. RowHolds(r) /\ TxHolds(t)
    BY DEF IInv
<1>2. e.anchor \in Heads(decided[r])
    BY <1>1, SeenFacts, SupersededGrows DEF RowHolds, Heads
<1>3. PICK h \in Heads(decided[r]), d \in Decision : tx[t].made[r] = Append(h, d)
    BY <1>1 DEF TxHolds, Extends
<1>4. h = e.anchor
    BY <1>1, <1>2 DEF RowHolds
<1>5. tx[t].made[r] \in Seen(t, r)
    BY <1>1 DEF TxHolds
<1> QED BY <1>3, <1>4, <1>5 DEF Superseded

LEMMA PostStep ==
    ASSUME IInv, NEW t \in Actors, NEW r \in Rows, Post(t, r)
    PROVE  IInv'
<1> DEFINE current == {e \in entries[r] : ~Superseded(e.anchor, Seen(t, r))}
<1>1. /\ tx[t] \in Transaction /\ TxHolds(t) /\ RowHolds(r)
      /\ tx[t].stage = "open" /\ r \in tx[t].plan /\ tx[t].made[r] # NoDecision
      /\ UNCHANGED <<decided, entries>>
    BY DEF IInv, TypeOK, Post, Decided, ToPost
<1>2. \A q \in Rows : Live(q)' = Live(q)
    BY <1>1 DEF Live, Superseded
<1>3. CASE current # {}
  <2> DEFINE x == [tx[t] EXCEPT !.kept = @ \cup {r}]
  <2>1. r \notin tx[t].wrote
      BY <1>3, KeptIsNotWritten
  <2>2. /\ x \in Transaction /\ tx' = [tx EXCEPT ![t] = x]
        /\ x.stage = "open" /\ x.plan = tx[t].plan /\ x.wrote = tx[t].wrote
        /\ x.posts = tx[t].posts /\ x.kept = tx[t].kept \cup {r}
        /\ x.missed = tx[t].missed /\ x.made = tx[t].made
      BY <1>1, <1>3 DEF Transaction, IInv, TypeOK, Post
  <2>3. tx'[t] = x
      BY <2>2 DEF IInv, TypeOK
  <2> HIDE DEF x, current
  <2>4. \A q \in Rows : x.made[q] \in Seen(t, q)'
      BY <1>1, <2>2, <2>3 DEF TxHolds, Seen
  <2>5. \A q \in x.wrote : Extends(t, q)'
      BY <1>1, <2>2, <2>3 DEF TxHolds, Extends, Heads, Superseded
  <2>6. TxHolds(t)'
      BY <1>1, <1>2, <2>1, <2>2, <2>3, <2>4, <2>5 DEF TxHolds, Transaction
  <2>7. t \in Reviews => ReviewHolds(t)'
      BY <1>1, <2>2, <2>3 DEF IInv, ReviewHolds, VerdictOf
  <2>8. \A u \in Actors \ {t} :
            x.wrote \cap tx[u].wrote = {} /\ x.posts \cap tx[u].posts = {}
      BY <2>2 DEF IInv, LocksExclude
  <2> QED BY <1>1, <2>2, <2>6, <2>7, <2>8, TxStep
<1>4. CASE current = {}
  <2> DEFINE x == [tx[t] EXCEPT !.posts = @ \cup {r}]
  <2>1. entries[r] = {} /\ \A u \in Actors \ {t} : r \notin tx[u].posts
      BY <1>4 DEF Post, TargetFree
  <2>2. /\ x \in Transaction /\ tx' = [tx EXCEPT ![t] = x]
        /\ x.stage = "open" /\ x.plan = tx[t].plan /\ x.wrote = tx[t].wrote
        /\ x.posts = tx[t].posts \cup {r} /\ x.kept = tx[t].kept
        /\ x.missed = tx[t].missed /\ x.made = tx[t].made
      BY <1>1, <1>4 DEF Transaction, IInv, TypeOK, Post
  <2>3. tx'[t] = x
      BY <2>2 DEF IInv, TypeOK
  <2> HIDE DEF x, current
  <2>4. \A q \in Rows : x.made[q] \in Seen(t, q)'
      BY <1>1, <2>2, <2>3 DEF TxHolds, Seen
  <2>5. \A q \in x.wrote : Extends(t, q)'
      BY <1>1, <2>2, <2>3 DEF TxHolds, Extends, Heads, Superseded
  <2>6. TxHolds(t)'
      BY <1>1, <1>2, <2>1, <2>2, <2>3, <2>4, <2>5 DEF TxHolds, Transaction
  <2>7. t \in Reviews => ReviewHolds(t)'
      BY <1>1, <2>2, <2>3 DEF IInv, ReviewHolds, VerdictOf
  <2>8. \A u \in Actors \ {t} :
            x.wrote \cap tx[u].wrote = {} /\ x.posts \cap tx[u].posts = {}
      BY <2>1, <2>2 DEF IInv, LocksExclude
  <2> QED BY <1>1, <2>2, <2>6, <2>7, <2>8, TxStep
<1> QED BY <1>3, <1>4

LEMMA ValidateStep ==
    ASSUME IInv, NEW t \in Actors, Validate(t)
    PROVE  IInv'
<1> DEFINE x == [tx[t] EXCEPT !.stage = "valid"]
<1>1. /\ tx[t] \in Transaction /\ TxHolds(t) /\ tx[t].stage = "open"
      /\ UNCHANGED <<decided, entries>>
    BY DEF IInv, TypeOK, Validate
<1>2. \A q \in Rows : Live(q)' = Live(q)
    BY <1>1 DEF Live, Superseded
<1>3. /\ x \in Transaction /\ tx' = [tx EXCEPT ![t] = x]
      /\ x.stage = "valid" /\ x.plan = tx[t].plan /\ x.wrote = tx[t].wrote
      /\ x.posts = tx[t].posts /\ x.kept = tx[t].kept
      /\ x.missed = tx[t].missed /\ x.made = tx[t].made
    BY <1>1 DEF Transaction, IInv, TypeOK, Validate
<1>4. tx'[t] = x
    BY <1>3 DEF IInv, TypeOK
<1> HIDE DEF x
<1>5. \A q \in Rows : x.made[q] \in Seen(t, q)'
    BY <1>1, <1>3, <1>4 DEF TxHolds, Seen
<1>6. \A q \in x.wrote : Extends(t, q)'
    BY <1>1, <1>3, <1>4 DEF TxHolds, Extends, Heads, Superseded
<1>7. TxHolds(t)'
    BY <1>1, <1>2, <1>3, <1>4, <1>5, <1>6 DEF TxHolds, Transaction
<1>8. ASSUME t \in Reviews PROVE ReviewHolds(t)'
  <2>1. /\ tx[t].plan = {Target[t]} /\ tx[t].wrote = {Target[t]}
        /\ VerdictOf(t, Target[t]) = "post"
      BY <1>1, <1>8 DEF IInv, ReviewHolds
  <2>2. ~NeedsReview(t) /\ ToPost(t) = {Target[t]}
      BY <2>1 DEF NeedsReview, ToPost
  <2>3. Target[t] \in tx[t].posts
      BY <1>1, <2>1, <2>2 DEF Validate, TxHolds
  <2> QED BY <1>3, <1>4, <2>1, <2>3 DEF ReviewHolds, VerdictOf
<1>9. \A u \in Actors \ {t} :
            x.wrote \cap tx[u].wrote = {} /\ x.posts \cap tx[u].posts = {}
    BY <1>3 DEF IInv, LocksExclude
<1> QED BY <1>1, <1>3, <1>7, <1>8, <1>9, TxStep

LEMMA AbortStep ==
    ASSUME IInv, NEW t \in Actors, Abort(t)
    PROVE  IInv'
<1>1. tx' = [tx EXCEPT ![t] = Idle] /\ UNCHANGED <<decided, entries>>
    BY DEF Abort
<1>2. tx'[t] = Idle
    BY <1>1 DEF IInv, TypeOK
<1>3. \A r \in Rows : NoDecision \in decided'[r]
    BY <1>1 DEF IInv, RowHolds
<1>4. TxHolds(t)' /\ (t \in Reviews => ReviewHolds(t)')
    BY <1>2, <1>3 DEF TxHolds, ReviewHolds, Idle, Seen
<1>5. Idle.wrote = {} /\ Idle.posts = {}
    BY DEF Idle
<1> QED BY <1>1, <1>4, <1>5, IdleType, TxStep

-----------------------------------------------------------------------------
(* COMMIT                                                                  *)

\* What a commit leaves, row by row and transaction by transaction.
LEMMA CommitFacts ==
    ASSUME IInv, NEW t \in Actors, Commit(t)
    PROVE  /\ tx[t] \in Transaction
           /\ \A r \in Rows :
                /\ decided'[r] = Seen(t, r)
                /\ r \notin tx[t].wrote => decided'[r] = decided[r]
                /\ r \in tx[t].wrote => decided'[r] = decided[r] \cup {tx[t].made[r]}
                /\ r \notin tx[t].posts => entries'[r] = entries[r]
                /\ r \in tx[t].posts =>
                      entries'[r] = {[anchor |-> tx[t].made[r], void |-> FALSE]}
           /\ tx'[t] = Idle
           /\ \A u \in Actors \ {t} :
                /\ tx'[u].stage = tx[u].stage /\ tx'[u].plan = tx[u].plan
                /\ tx'[u].made = tx[u].made /\ tx'[u].wrote = tx[u].wrote
                /\ tx'[u].posts = tx[u].posts /\ tx'[u].kept = tx[u].kept
                /\ tx'[u].stage = "idle" => tx'[u] = Idle
                /\ tx'[u].stage # "idle" => tx'[u].missed = tx[u].missed \cup tx[t].posts
           /\ TypeOK'
<1>1. TypeOK /\ TxHolds(t) /\ tx[t] \in Transaction
    BY DEF IInv, TypeOK
<1>2. ASSUME NEW r \in Rows
      PROVE  /\ decided'[r] = Seen(t, r)
             /\ r \notin tx[t].wrote => decided'[r] = decided[r]
             /\ r \in tx[t].wrote => decided'[r] = decided[r] \cup {tx[t].made[r]}
    BY SeenFacts DEF Commit
<1>3. ASSUME NEW r \in Rows
      PROVE  /\ r \notin tx[t].posts => entries'[r] = entries[r]
             /\ r \in tx[t].posts =>
                   entries'[r] = {[anchor |-> tx[t].made[r], void |-> FALSE]}
    BY <1>1 DEF Commit, TxHolds
<1>4. tx'[t] = Idle
    BY DEF Commit
<1>5. ASSUME NEW u \in Actors \ {t}
      PROVE  /\ tx'[u] \in Transaction
             /\ tx'[u].stage = tx[u].stage /\ tx'[u].plan = tx[u].plan
             /\ tx'[u].made = tx[u].made /\ tx'[u].wrote = tx[u].wrote
             /\ tx'[u].posts = tx[u].posts /\ tx'[u].kept = tx[u].kept
             /\ tx'[u].stage = "idle" => tx'[u] = Idle
             /\ tx'[u].stage # "idle" => tx'[u].missed = tx[u].missed \cup tx[t].posts
  <2>1. tx[u] \in Transaction /\ (tx[u].stage = "idle" => tx[u] = Idle)
      BY <1>1 DEF TypeOK
  <2>2. CASE tx[u].stage = "idle"
    <3>1. tx'[u] = tx[u]
        BY <2>2 DEF Commit
    <3> QED BY <2>1, <2>2, <3>1
  <2>3. CASE tx[u].stage # "idle"
    <3>1. tx'[u] = [tx[u] EXCEPT !.missed = @ \cup tx[t].posts]
        BY <2>3 DEF Commit
    <3> QED BY <1>1, <2>1, <2>3, <3>1 DEF Transaction
  <2> QED BY <2>2, <2>3
<1>6. TypeOK'
  <2>1. decided' \in [Rows -> SUBSET History]
    <3>1. \A r \in Rows : Seen(t, r) \subseteq History
        BY <1>1 DEF TypeOK, Transaction, Seen
    <3> QED BY <3>1 DEF Commit
  <2>2. entries' \in [Rows -> SUBSET Entry]
    <3>1. \A r \in Rows : [anchor |-> tx[t].made[r], void |-> FALSE] \in Entry
        BY <1>1 DEF Transaction, Entry
    <3>2. \A r \in Rows : entries'[r] \subseteq Entry
        BY <1>1, <1>3, <3>1 DEF TypeOK
    <3> QED BY <3>2 DEF Commit
  <2>3. tx' \in [Actors -> Transaction]
    <3>1. \A u \in Actors : tx'[u] \in Transaction
        BY <1>4, <1>5, IdleType
    <3> QED BY <3>1 DEF Commit
  <2> QED BY <1>4, <1>5, <2>1, <2>2, <2>3 DEF TypeOK
<1> QED BY <1>1, <1>2, <1>3, <1>4, <1>5, <1>6

\* The decision that a review commits is the only reviewed one of its row; what a
\* posting commits is not a reviewed one.
LEMMA NewManual ==
    ASSUME IInv, NEW t \in Actors, Commit(t), NEW r \in tx[t].wrote, Manual(tx[t].made[r])
    PROVE  r \in tx[t].posts /\ \A h \in decided[r] : ~Manual(h)
<1>1. TxHolds(t) /\ tx[t] \in Transaction
    BY DEF IInv, TypeOK
<1>2. r \in Rows /\ RowHolds(r)
    BY <1>1 DEF IInv, Transaction
<1>3. PICK h \in Heads(decided[r]), d \in Decision :
            d.by = t /\ tx[t].made[r] = Append(h, d)
    BY <1>1 DEF TxHolds, Extends
<1>4. h \in History
    BY <1>2, <1>3 DEF IInv, TypeOK, Heads
<1>5. tx[t].made[r][Len(tx[t].made[r])] = d
    BY <1>3, <1>4, AppendFacts
<1>6. t \in Reviews
    BY <1>3, <1>5 DEF Manual
<1>7. r = Target[t] /\ r \in tx[t].posts
    BY <1>6 DEF IInv, ReviewHolds, Commit
<1>8. entries[r] = {}
    BY <1>1, <1>7 DEF TxHolds
<1> QED BY <1>2, <1>7, <1>8 DEF RowHolds

LEMMA CommitRow ==
    ASSUME IInv, NEW t \in Actors, Commit(t), NEW r \in Rows
    PROVE  RowHolds(r)'
<1>1. RowHolds(r) /\ TxHolds(t) /\ tx[t] \in Transaction
    BY DEF IInv, TypeOK
<1>2. decided[r] \subseteq decided'[r] /\ tx[t].made[r] \in decided'[r]
    BY <1>1, CommitFacts, SeenFacts DEF TxHolds
<1>3. NoDecision \in decided'[r]
    BY <1>1, <1>2 DEF RowHolds
<1>4. \A e \in entries'[r] : e.anchor \in decided'[r]
    BY <1>1, <1>2, CommitFacts DEF RowHolds
<1>5. \/ entries'[r] = entries[r] /\ r \notin tx[t].posts
      \/ entries'[r] = {[anchor |-> tx[t].made[r], void |-> FALSE]} /\ r \in tx[t].posts
    BY CommitFacts
<1>6. /\ \A e, f \in entries'[r] : e = f
      /\ entries[r] # {} => entries'[r] # {}
      /\ r \in tx[t].posts => entries'[r] # {}
    BY <1>1, <1>5 DEF RowHolds
<1>7. CASE r \notin tx[t].wrote
  <2>1. decided'[r] = decided[r]
      BY <1>7, CommitFacts
  <2> QED BY <1>1, <1>3, <1>4, <1>6, <2>1 DEF RowHolds, Heads, Superseded
<1>8. CASE r \in tx[t].wrote
  <2>1. decided'[r] = decided[r] \cup {tx[t].made[r]}
      BY <1>8, CommitFacts
  <2>2. PICK h \in Heads(decided[r]), d \in Decision : tx[t].made[r] = Append(h, d)
      BY <1>1, <1>8 DEF TxHolds, Extends
  <2>3. h \in History /\ Len(tx[t].made[r]) = Len(h) + 1
    <3>1. h \in History
        BY <2>2 DEF IInv, TypeOK, Heads
    <3> QED BY <2>2, <3>1, AppendFacts
  <2>4. ASSUME NEW g \in decided'[r], ~Superseded(g, decided'[r]) PROVE g = tx[t].made[r]
    <3>1. SUFFICES ASSUME g \in decided[r] PROVE FALSE
        BY <2>1
    <3>2. g \in Heads(decided[r])
        BY <1>2, <2>4, <3>1, SupersededGrows DEF Heads
    <3>3. g = h
        BY <1>1, <2>2, <3>2 DEF RowHolds
    <3> QED BY <1>2, <2>2, <2>4, <3>3 DEF Superseded
  <2>5. \A g \in decided[r] : Len(g) <= Len(h) /\ Len(g) \in Nat
    <3>1. \A g \in decided[r] : g \in History
        BY DEF IInv, TypeOK
    <3> QED BY <1>1, <2>2, <3>1 DEF RowHolds, History
  <2>6. \A g \in decided'[r] : Len(g) <= Len(tx[t].made[r])
      BY <2>1, <2>3, <2>5 DEF History
  <2>7. \A g \in Heads(decided[r])' : g = tx[t].made[r]
      BY <2>4 DEF Heads, Superseded
  <2>8. \A g \in decided'[r] : Manual(g) => entries'[r] # {}
    <3>1. ASSUME Manual(tx[t].made[r]) PROVE entries'[r] # {}
        BY <1>6, <1>8, <3>1, NewManual
    <3> QED BY <1>1, <1>6, <2>1, <3>1 DEF RowHolds
  <2>9. \A g, k \in decided'[r] : Manual(g) /\ Manual(k) => g = k
    <3>1. Manual(tx[t].made[r]) => \A k \in decided[r] : ~Manual(k)
        BY <1>8, NewManual
    <3> QED BY <1>1, <2>1, <3>1 DEF RowHolds
  <2> QED BY <1>3, <1>4, <1>6, <2>6, <2>7, <2>8, <2>9 DEF RowHolds, Manual
<1> QED BY <1>7, <1>8

LEMMA CommitOther ==
    ASSUME IInv, NEW t \in Actors, Commit(t), NEW u \in Actors \ {t}
    PROVE  TxHolds(u)'
<1>1. TxHolds(u) /\ tx[u] \in Transaction
    BY DEF IInv, TypeOK
<1>2. /\ tx'[u].stage = tx[u].stage /\ tx'[u].plan = tx[u].plan
      /\ tx'[u].made = tx[u].made /\ tx'[u].wrote = tx[u].wrote
      /\ tx'[u].posts = tx[u].posts /\ tx'[u].kept = tx[u].kept
      /\ tx'[u].stage = "idle" => tx'[u] = Idle
      /\ tx'[u].stage # "idle" => tx'[u].missed = tx[u].missed \cup tx[t].posts
    BY CommitFacts
<1>3. tx[t].wrote \cap tx[u].wrote = {} /\ tx[t].posts \cap tx[u].posts = {}
    BY DEF IInv, LocksExclude
<1>4. \A r \in tx[u].wrote \cup tx[u].posts \cup tx[u].kept :
            r \in tx[u].plan /\ tx[u].made[r] # NoDecision
    BY <1>1 DEF TxHolds
<1>5. \A r \in Rows : tx'[u].made[r] \in Seen(u, r)'
  <2>1. \A r \in Rows : decided[r] \subseteq decided'[r]
      BY CommitFacts
  <2> QED BY <1>1, <1>2, <2>1 DEF TxHolds, Seen
<1>6. ASSUME NEW r \in tx[u].wrote PROVE Extends(u, r)'
  <2>1. r \in Rows /\ Extends(u, r)
      BY <1>1 DEF TxHolds, Transaction
  <2>2. decided'[r] = decided[r]
      BY <1>3, <2>1, CommitFacts
  <2> QED BY <1>2, <2>1, <2>2 DEF Extends, Heads, Superseded
<1>7. ASSUME NEW r \in tx[u].posts PROVE entries'[r] = {}
  <2>1. r \in Rows /\ entries[r] = {} /\ r \notin tx[t].posts
      BY <1>1, <1>3 DEF TxHolds, Transaction
  <2> QED BY <2>1, CommitFacts
<1>8. ASSUME NEW r \in tx[u].plan, Live(r)' # {} PROVE r \in tx'[u].missed
  <2>1. r \in Rows /\ tx'[u].stage # "idle"
      BY <1>1, <1>2 DEF Transaction, Idle
  <2>2. CASE r \in tx[t].posts
      BY <1>2, <2>1, <2>2
  <2>3. CASE r \notin tx[t].posts
    <3>1. entries'[r] = entries[r] /\ decided[r] \subseteq decided'[r]
        BY <2>1, <2>3, CommitFacts
    <3>2. PICK e \in entries'[r] : ~e.void /\ ~Superseded(e.anchor, decided'[r])
        BY <1>8 DEF Live, Superseded
    <3>3. e \in Live(r)
        BY <3>1, <3>2, SupersededGrows DEF Live
    <3> QED BY <1>1, <1>2, <2>1, <3>3 DEF TxHolds
  <2> QED BY <2>2, <2>3
<1> QED BY <1>1, <1>2, <1>4, <1>5, <1>6, <1>7, <1>8 DEF TxHolds

LEMMA CommitStep ==
    ASSUME IInv, NEW t \in Actors, Commit(t)
    PROVE  IInv'
<1>1. \A r \in Rows : RowHolds(r)'
    BY CommitRow
<1>2. tx'[t] = Idle
    BY CommitFacts
<1>3. TxHolds(t)' /\ (t \in Reviews => ReviewHolds(t)')
    BY <1>1, <1>2 DEF TxHolds, ReviewHolds, RowHolds, Idle, Seen
<1>4. \A u \in Actors : TxHolds(u)'
    BY <1>3, CommitOther
<1>5. ASSUME NEW m \in Reviews PROVE ReviewHolds(m)'
  <2>1. CASE m = t
      BY <1>3, <2>1
  <2>2. CASE m # t
      BY <2>2, ActorSorts, CommitFacts DEF IInv, ReviewHolds, VerdictOf
  <2> QED BY <2>1, <2>2
<1>6. LocksExclude'
    BY <1>2, CommitFacts DEF IInv, LocksExclude, Idle
<1> QED BY <1>1, <1>4, <1>5, <1>6, CommitFacts DEF IInv

-----------------------------------------------------------------------------
LEMMA VoidStep ==
    ASSUME IInv, NEW r \in Rows, Void(r)
    PROVE  IInv'
<1>1. RowHolds(r) /\ UNCHANGED <<decided, tx>>
    BY DEF IInv, Void
<1>2. PICK e \in entries[r] :
        /\ ~e.void
        /\ entries' = [entries EXCEPT ![r] = (@ \ {e}) \cup {[e EXCEPT !.void = TRUE]}]
    BY DEF Void
<1> DEFINE f == [e EXCEPT !.void = TRUE]
<1>3. e \in Entry /\ f \in Entry /\ f.anchor = e.anchor /\ f.void
  <2>1. e \in Entry
      BY <1>2 DEF IInv, TypeOK
  <2> QED BY <2>1 DEF Entry
<1>4. entries'[r] = {f} /\ \A q \in Rows : q # r => entries'[q] = entries[q]
    BY <1>1, <1>2 DEF IInv, TypeOK, RowHolds
<1> HIDE DEF f
<1>5. TypeOK'
  <2>1. entries' \in [Rows -> SUBSET Entry]
      BY <1>2, <1>3, <1>4 DEF IInv, TypeOK
  <2> QED BY <1>1, <2>1 DEF IInv, TypeOK
<1>6. ASSUME NEW q \in Rows PROVE RowHolds(q)'
  <2>1. RowHolds(q)
      BY DEF IInv
  <2>2. CASE q # r
      BY <1>1, <1>4, <2>1, <2>2 DEF RowHolds, Heads, Superseded
  <2>3. CASE q = r
      BY <1>1, <1>3, <1>4, <2>3 DEF RowHolds, Heads, Superseded
  <2> QED BY <2>2, <2>3
<1>7. ASSUME NEW t \in Actors PROVE TxHolds(t)'
  <2>1. TxHolds(t) /\ tx[t] \in Transaction
      BY DEF IInv, TypeOK
  <2>2. \A q \in tx[t].posts : entries'[q] = {}
      BY <1>2, <1>4, <2>1 DEF TxHolds, Transaction
  <2>3. \A q \in Rows : Live(q)' \subseteq Live(q)
      BY <1>1, <1>3, <1>4 DEF Live, Superseded
  <2>4. \A q \in tx[t].plan : Live(q)' # {} => q \in tx[t].missed
      BY <2>1, <2>3 DEF TxHolds, Transaction
  <2>5. \A q \in tx[t].wrote : Extends(t, q)'
      BY <1>1, <2>1 DEF TxHolds, Extends, Heads, Superseded
  <2>6. \A q \in Rows : tx[t].made[q] \in Seen(t, q)'
      BY <1>1, <2>1 DEF TxHolds, Seen
  <2> QED BY <1>1, <2>1, <2>2, <2>4, <2>5, <2>6 DEF TxHolds
<1>8. ASSUME NEW m \in Reviews PROVE ReviewHolds(m)'
    BY <1>1 DEF IInv, ReviewHolds, VerdictOf
<1>9. LocksExclude'
    BY <1>1 DEF IInv, LocksExclude
<1> QED BY <1>5, <1>6, <1>7, <1>8, <1>9 DEF IInv

LEMMA StutterStep ==
    ASSUME IInv, UNCHANGED vars
    PROVE  IInv'
<1>1. UNCHANGED <<decided, entries, tx>>
    BY DEF vars
<1>2. \A r \in Rows : RowHolds(r)'
    BY <1>1 DEF IInv, RowHolds, Heads, Superseded
<1>3. \A t \in Actors : TxHolds(t)'
    BY <1>1 DEF IInv, TxHolds, Seen, Extends, Heads, Live, Superseded
<1> QED BY <1>1, <1>2, <1>3 DEF IInv, TypeOK, ReviewHolds, VerdictOf, LocksExclude

LEMMA NextInv == IInv /\ [Next]_vars => IInv'
<1> SUFFICES ASSUME IInv, [Next]_vars PROVE IInv'
    OBVIOUS
<1>1. ASSUME NEW s \in Statements, Plan(s) PROVE IInv'
    BY <1>1, PlanStep
<1>2. ASSUME NEW s \in Statements, NEW r \in Rows, Decide(s, r) PROVE IInv'
    BY <1>2, DecideStep
<1>3. ASSUME NEW m \in Reviews, Review(m) PROVE IInv'
    BY <1>3, ReviewStep
<1>4. ASSUME NEW t \in Actors, NEW r \in Rows, Post(t, r) PROVE IInv'
    BY <1>4, PostStep
<1>5. ASSUME NEW t \in Actors, Validate(t) PROVE IInv'
    BY <1>5, ValidateStep
<1>6. ASSUME NEW t \in Actors, Commit(t) PROVE IInv'
    BY <1>6, CommitStep
<1>7. ASSUME NEW t \in Actors, Abort(t) PROVE IInv'
    BY <1>7, AbortStep
<1>8. ASSUME NEW r \in Rows, Void(r) PROVE IInv'
    BY <1>8, VoidStep
<1>9. CASE UNCHANGED vars
    BY <1>9, StutterStep
<1> QED BY <1>1, <1>2, <1>3, <1>4, <1>5, <1>6, <1>7, <1>8, <1>9 DEF Next

\* The inductive invariant holds in every reachable state.
THEOREM Invariant == Spec => []IInv
<1>1. Init => IInv
    BY InitInv
<1>2. IInv /\ [Next]_vars => IInv'
    BY NextInv
<1> QED BY <1>1, <1>2, PTL DEF Spec

\* Type correctness; a transaction that is over holds no lock and no plan.
THEOREM TypeCorrect == Spec => []TypeOK
<1>1. IInv => TypeOK
    BY DEF IInv
<1> QED BY <1>1, Invariant, PTL

\* The decisions of a row form one line, however the appends of postings and
\* reviews interleave (SqlTraceRecordRepository.append).
THEOREM AuthorityIsLinear == Spec => []OneHead
<1>1. IInv => OneHead
    BY DEF IInv, RowHolds, OneHead
<1> QED BY <1>1, Invariant, PTL

\* A source row has one authorization and one entry at most, ever
\* (authorize_financial_command, submit_anchored_journal_entry).
THEOREM SinglePosting == Spec => []PostedOnce
<1>1. IInv => PostedOnce
    BY DEF IInv, RowHolds, PostedOnce
<1> QED BY <1>1, Invariant, PTL

\* A row has one reviewed decision at most, ever (submit_reviewed_disposition).
THEOREM SingleReview == Spec => []ReviewedOnce
<1>1. IInv => ReviewedOnce
    BY DEF IInv, RowHolds, ReviewedOnce
<1> QED BY <1>1, Invariant, PTL

\* Only a transaction that overlapped the posting of an entry can take the
\* entry's authority away (auto_create_posted_entries_for_statement).
THEOREM RevocationNeedsOverlap == Spec => RevokedByOverlap
<1>1. ASSUME IInv, [Next]_vars
      PROVE  [\A t \in Actors, r \in Rows :
                Commit(t) /\ Revoked(r) => r \in tx[t].missed]_vars
  <2> SUFFICES ASSUME NEW t \in Actors, NEW r \in Rows, Commit(t), Revoked(r)
               PROVE  r \in tx[t].missed
      OBVIOUS
  <2>1. PICK e \in Live(r) : Superseded(e.anchor, decided'[r])
      BY DEF Revoked
  <2>2. decided'[r] # decided[r]
      BY <2>1 DEF Live
  <2>3. r \in tx[t].wrote
      BY <1>1, <2>2, CommitFacts
  <2> QED BY <1>1, <2>1, <2>3 DEF IInv, TxHolds
<1> QED BY <1>1, Invariant, PTL DEF Spec, RevokedByOverlap
=============================================================================
