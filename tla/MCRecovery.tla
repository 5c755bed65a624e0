----------------------------- MODULE MCRecovery -----------------------------
(***************************************************************************)
(* Small instances of Recovery for TLC.                                    *)
(***************************************************************************)
EXTENDS Recovery, TLC

\* Rows are interchangeable.
RowSymmetry == Permutations(Rows)

\* So are pages, as long as no redo picks a landing page of its own, which
\* only an Update of a deleted slot does.
HeapSymmetry == RowSymmetry \cup Permutations(Pages)
=============================================================================
