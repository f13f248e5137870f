----------------------- MODULE MCStatementLifecycle -----------------------
(***************************************************************************)
(* Instances of StatementLifecycle for TLC: one file, parsed by one job or *)
(* by two at once.                                                         *)
(***************************************************************************)
EXTENDS StatementLifecycle, TLC

CONSTANTS s1, r1, r2, j1, j2, c1, v0, v1, v2

SingleSource == (s1 :> {r1, r2})
OneRowSource == [s \in Statements |-> {r1}]

\* Files whose rows do not matter to the question asked.
NoRows == [s \in Statements |-> {}]

\* The complete result b; d, which misses a column that a reviewer supplies; and e,
\* which has every column but misses what no reviewer can supply.
FactsOfResults == [ d \in Results |-> [ c \in Columns |-> IF d = "d" THEN v0 ELSE v2 ]]
ReviewedD == [ d \in Reviewable |-> [ c \in Columns |-> v1 ]]

\* What route_by_threshold and the blocking gate can conclude, and the usual cases of it.
AnyConclusion ==
    {<<"approved", "high">>, <<"parsed", "high">>, <<"parsed", "low">>,
     <<"uploaded", "low">>, <<"quarantined", "low">>}
PlainConclusions == {<<"approved", "high">>, <<"parsed", "low">>, <<"quarantined", "low">>}

\* Two rows of one file that look like a duplicate or a transfer pair.
PairConflicts == {{r1, r2}}
NoConflicts == {}

\* Each row, when it is inserted again, is the bank side of an accepted transfer.
SecondTransfers == Rows \X {2}
NoTransfers == {}

\* The instances treat the two rows alike.
RowSymmetry == Permutations(Rows)
=============================================================================
