------------------------------ MODULE MCTxGate ------------------------------
(* The transaction gate on small instances. *)
EXTENDS TxGate, TLC

ConnSymmetry == Permutations(Conns)

=============================================================================
