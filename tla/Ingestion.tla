------------------------------ MODULE Ingestion ------------------------------
(***************************************************************************)
(* What the transactional outbox and the price subscriber promise together: *)
(* a price fact that a producer committed is copied into pricing's store at *)
(* most once per observation, only after its commit, and the copy stays.    *)
(* How, and how often, the fact is delivered is not visible here.           *)
(***************************************************************************)
EXTENDS Naturals

CONSTANTS
    Events,         \* domain events that producers may emit
    Observation     \* the natural key each event carries (observation_id)

VARIABLES
    facts,          \* events whose producer transaction is committed
    copies          \* rows of statement_price_observations made from an event

vars == <<facts, copies>>

Init ==
    /\ facts = {}
    /\ copies = [e \in Events |-> 0]

\* The event and the change it announces become durable together.
Commit(e) ==
    /\ e \notin facts
    /\ facts' = facts \cup {e}
    /\ UNCHANGED copies

\* A durable event becomes the only copy of its observation.
Ingest(e) ==
    /\ e \in facts
    /\ \A d \in Events : Observation[d] = Observation[e] => copies[d] = 0
    /\ copies' = [copies EXCEPT ![e] = 1]
    /\ UNCHANGED facts

Next == \E e \in Events : Commit(e) \/ Ingest(e)

Spec == Init /\ [][Next]_vars
=============================================================================
