---------------------------- MODULE DurableStore ----------------------------
(***************************************************************************)
(* What the storage engine promises a client across crashes, with no log,  *)
(* pages or LSNs: committed transactions form a history of table contents, *)
(* a crash may forget a suffix of it that was never acknowledged, and what *)
(* a reader sees is always the whole of one committed state, never a part  *)
(* of a transaction.                                                       *)
(***************************************************************************)
EXTENDS Naturals, Sequences

CONSTANTS
  Tables,   \* possible contents of the database
  Empty,    \* the contents of a fresh database
  Down      \* nobody can read: crashed, or recovering

VARIABLES
  history,  \* contents after each committed transaction, oldest first
  acked,    \* how many of them a client has been promised
  view      \* what a reader sees, or Down

store == <<history, acked, view>>

Init == history = <<Empty>> /\ acked = 1 /\ view = Empty

\* A transaction commits; the promise may be given at once or later.
Commit ==
  /\ view # Down
  /\ \E t \in Tables : history' = Append(history, t) /\ view' = t
  /\ acked' \in {acked, Len(history')}

Acknowledge ==
  /\ acked' \in acked .. Len(history)
  /\ UNCHANGED <<history, view>>

\* A crash keeps some prefix of the history that has every promised commit.
Crash ==
  /\ view' = Down
  /\ \E n \in acked .. Len(history) : history' = SubSeq(history, 1, n)
  /\ UNCHANGED acked

Recover ==
  /\ view = Down /\ view' = history[Len(history)]
  /\ acked' \in acked .. Len(history)
  /\ UNCHANGED history

Next == Commit \/ Acknowledge \/ Crash \/ Recover

Spec == Init /\ [][Next]_store
=============================================================================
