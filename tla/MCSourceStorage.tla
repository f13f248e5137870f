--------------------------- MODULE MCSourceStorage ---------------------------
(***************************************************************************)
(* An instance of SourceStorage for TLC: two uploads of one file and one of *)
(* another.                                                                 *)
(***************************************************************************)
EXTENDS SourceStorage, TLC

CONSTANTS u1, u2, u3, f1, f2

TwoOfOneFile == [u \in Uploads |-> IF u = u3 THEN f2 ELSE f1]
=============================================================================
