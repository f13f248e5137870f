-------------------------- MODULE MCSourceAuthority --------------------------
(***************************************************************************)
(* An instance of SourceAuthority for TLC: two statements that share a row,*)
(* and two reviews of that row.                                            *)
(***************************************************************************)
EXTENDS SourceAuthority

CONSTANTS s1, s2, m1, m2, r1, r2

SharedRow == [s \in Statements |-> IF s = s1 THEN Rows ELSE {r1}]
BothOnFirst == [m \in Reviews |-> r1]
=============================================================================
