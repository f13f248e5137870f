------------------------------ MODULE MCOutbox ------------------------------
(***************************************************************************)
(* An instance of Outbox for TLC: a statement price, an event nobody       *)
(* ingests (a counter's, or a price of another source), and one whose row  *)
(* the store refuses.                                                      *)
(***************************************************************************)
EXTENDS Outbox, TLC

CONSTANTS e1, other, bad, r1, r2

OwnKey == [e \in Events |-> e]
KindOf == [e \in Events |-> CASE e = bad -> "poison" [] e = other -> "skipped" [] OTHER -> "price"]
=============================================================================
