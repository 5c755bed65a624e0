-------------------------- MODULE MCWalGroupCommit --------------------------
(***************************************************************************)
(* Small instances of WalGroupCommit for TLC.                              *)
(***************************************************************************)
EXTENDS WalGroupCommit, TLC

\* Connections are interchangeable (safety runs only).
ConnSymmetry == Permutations(Conns)
=============================================================================
