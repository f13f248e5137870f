-------------------------- MODULE MCFactIngestion --------------------------
(***************************************************************************)
(* An instance of FactIngestion for TLC: documents that share every row.   *)
(***************************************************************************)
EXTENDS FactIngestion

Overlapping == [d \in Docs |-> Rows]
=============================================================================
