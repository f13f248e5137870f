--------------------------- MODULE MCReconciliation ---------------------------
(***************************************************************************)
(* An instance of Reconciliation for TLC.                                  *)
(***************************************************************************)
EXTENDS Reconciliation, TLC

OwnIdentity == [t \in Transfers |-> t]

Symmetry ==
    Permutations(Entries) \cup Permutations(Matches) \cup Permutations(Requests)
        \cup Permutations(Runs) \cup Permutations(Reviews)
=============================================================================
