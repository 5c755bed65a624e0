------------------------------- MODULE TxGate -------------------------------
(***************************************************************************)
(* The server's transaction gate and the connections that go through it.   *)
(*                                                                         *)
(* There is no MVCC: the rows an explicit transaction has written and not  *)
(* committed are in the shared heap, so nobody else may run a statement    *)
(* between its first write and its end.  Two fair tokio semaphores of      *)
(* permit_count permits each enforce that (handler/transaction.rs):        *)
(*   main    one permit per autocommit read; all of them for an autocommit *)
(*           write, a sync operation and an explicit transaction;          *)
(*   beside  one permit per read that runs beside a transaction that has   *)
(*           not written yet, admitted by the flag reader_bypass; all of   *)
(*           them for a transaction that has.                              *)
(* A permit is an owned value (dropped exactly once), so what is free is   *)
(* what nobody holds, and the model keeps who holds what.                  *)
(*                                                                         *)
(* The engine behind the gate is an RwLock<Engine>: a statement runs under *)
(* one guard, in one step.  Of its state the model keeps the transaction   *)
(* flags, and as ghosts whose transaction it is, who has uncommitted rows  *)
(* in it and who marked it aborted.                                        *)
(***************************************************************************)
EXTENDS Naturals, FiniteSets, Sequences

CONSTANTS
  Conns,            \* client connections
  NoConn,           \* the engine has no explicit transaction open
  Permits,          \* permit_count
  Statements,       \* the kinds of frame the clients send
  RollbackCanFail   \* a WAL archive hook is installed, and it can fail

ASSUME TxGateAssumption ==
  /\ NoConn \notin Conns
  /\ Permits \in Nat \ {0}
  /\ Statements \subseteq {"begin", "commit", "rollback", "read", "write",
                           "sync"}
  /\ RollbackCanFail \in BOOLEAN

VARIABLES
  main,                \* [Conns -> Holdings] permits of TxGate.semaphore
  beside,              \* [Conns -> Holdings] permits of open_tx_readers
  queue,               \* the waiters of the main semaphore, first come first
  reader_bypass,       \* the flag
  tx_permit,           \* the connection's Option<TxGateHold> is Some
  expired,             \* its tx_deadline has passed
  pc, stmt,            \* where the connection is, and in which statement
  owner,               \* whose begin set Engine.in_transaction, or NoConn
  transaction_aborted, \* Engine.transaction_aborted
  poisoned,            \* Engine.poisoned, or the catalog is
  writers,             \* ghost: who has uncommitted rows in the heap
  blamed               \* ghost: whose statements marked the transaction aborted

gate == <<main, beside, queue, reader_bypass>>
conn == <<tx_permit, expired, pc, stmt>>
engine == <<owner, transaction_aborted, poisoned, writers, blamed>>
vars == <<gate, conn, engine>>

Holdings == {"none", "one", "all"}

\* The connection is between frames, or at one of the points of a frame where
\* another task can run.
Points == {"idle", "load", "try_beside", "recheck", "acquire", "wait",
           "open_door", "close_door", "enqueue", "drain", "run", "drop",
           "drop_retry", "undo", "close_hold", "drop_readers", "drop_pool"}

Init ==
  /\ main = [c \in Conns |-> "none"]
  /\ beside = [c \in Conns |-> "none"]
  /\ queue = <<>>
  /\ reader_bypass = FALSE
  /\ tx_permit = [c \in Conns |-> FALSE]
  /\ expired = [c \in Conns |-> FALSE]
  /\ pc = [c \in Conns |-> "idle"]
  /\ stmt = [c \in Conns |-> "none"]
  /\ owner = NoConn
  /\ transaction_aborted = FALSE
  /\ poisoned = FALSE
  /\ writers = {}
  /\ blamed = {}

-----------------------------------------------------------------------------
(* The semaphores. *)

\* n permits of a pool are free.
Free(pool, n) ==
  IF n = "all"
  THEN \A d \in Conns : pool[d] = "none"
  ELSE /\ \A d \in Conns : pool[d] # "all"
       /\ Cardinality({d \in Conns : pool[d] = "one"}) < Permits

Need(c) == IF stmt[c] = "read" THEN "one" ELSE "all"

\* The frame goes on at p; an idle connection has no frame.
Become(c, s, p) ==
  /\ stmt' = [stmt EXCEPT ![c] = s]
  /\ pc' = [pc EXCEPT ![c] = p]

Goto(c, p) == Become(c, IF p = "idle" THEN "none" ELSE stmt[c], p)

\* The frame has its main permits: begin opens reader admission next.
Granted(c) ==
  /\ main' = [main EXCEPT ![c] = Need(c)]
  /\ Goto(c, IF stmt[c] = "begin" THEN "open_door" ELSE "run")

-----------------------------------------------------------------------------
(* A frame arrives. *)

\* Mutant: the deadline is only looked at when the client is silent.
ReadyWhenExpired(c) == pc[c] = "idle"

\* The main loop reaps an expired transaction before it reads a frame.
Ready(c) == pc[c] = "idle" /\ ~(tx_permit[c] /\ expired[c])

\* upgrade_to_exclusive: nothing to do for a transaction that is exclusive.
UpgradePoint(c) == IF beside[c] = "all" THEN "run" ELSE "close_door"

Frame(c) ==
  /\ Ready(c)
  /\ \E s \in Statements :
       /\ s \in {"begin", "sync"} => ~tx_permit[c]
       /\ Become(c, s, IF tx_permit[c]
                       THEN IF s = "write" THEN UpgradePoint(c) ELSE "run"
                       ELSE IF s = "read" THEN "load" ELSE "acquire")
  /\ UNCHANGED <<gate, tx_permit, expired, engine>>

-----------------------------------------------------------------------------
(* acquire_autocommit_permit, acquire_begin_permit, acquire_sync_permit. *)

\* A read looks at the flag first.
LoadBypass(c) ==
  /\ pc[c] = "load"
  /\ Goto(c, IF reader_bypass THEN "try_beside" ELSE "acquire")
  /\ UNCHANGED <<gate, tx_permit, expired, engine>>

\* try_acquire on the reader pool; it fails while a first write waits there.
TryBeside(c) ==
  /\ pc[c] = "try_beside"
  /\ IF Free(beside, "one") /\ \A d \in Conns : pc[d] # "drain"
     THEN /\ beside' = [beside EXCEPT ![c] = "one"]
          /\ Goto(c, "recheck")
     ELSE /\ Goto(c, "acquire")
          /\ UNCHANGED beside
  /\ UNCHANGED <<main, queue, reader_bypass, tx_permit, expired, engine>>

\* The flag is read again with the permit in hand.
Recheck(c) ==
  /\ pc[c] = "recheck"
  /\ IF reader_bypass
     THEN Goto(c, "run") /\ UNCHANGED beside
     ELSE Goto(c, "acquire") /\ beside' = [beside EXCEPT ![c] = "none"]
  /\ UNCHANGED <<main, queue, reader_bypass, tx_permit, expired, engine>>

\* try_acquire, else join the fair queue.
Acquire(c) ==
  /\ pc[c] = "acquire"
  /\ IF queue = <<>> /\ Free(main, Need(c))
     THEN Granted(c) /\ UNCHANGED queue
     ELSE /\ queue' = Append(queue, c)
          /\ Goto(c, "wait")
          /\ UNCHANGED main
  /\ UNCHANGED <<beside, reader_bypass, tx_permit, expired, engine>>

\* The semaphore serves its queue in order.
Grant(c) ==
  /\ pc[c] = "wait" /\ Head(queue) = c
  /\ Free(main, Need(c))
  /\ queue' = Tail(queue)
  /\ Granted(c)
  /\ UNCHANGED <<beside, reader_bypass, tx_permit, expired, engine>>

\* Mutant: the abandoned wait keeps its place in the queue.
WaitTimeoutKeepsPlace(c) ==
  /\ pc[c] = "wait"
  /\ Goto(c, "idle")
  /\ UNCHANGED <<gate, tx_permit, expired, engine>>

\* tx_wait_timeout elapses: the waiter leaves the queue, the frame fails.
WaitTimeout(c) ==
  /\ pc[c] = "wait"
  /\ queue' = SelectSeq(queue, LAMBDA d : d # c)
  /\ Goto(c, "idle")
  /\ UNCHANGED <<main, beside, reader_bypass, tx_permit, expired, engine>>

\* The end of acquire_begin_permit: reads are admitted beside the transaction.
OpenDoor(c) ==
  /\ pc[c] = "open_door"
  /\ reader_bypass' = TRUE
  /\ Goto(c, "run")
  /\ UNCHANGED <<main, beside, queue, tx_permit, expired, engine>>

-----------------------------------------------------------------------------
(* upgrade_to_exclusive, before the first write of a transaction. *)

CloseDoor(c) ==
  /\ pc[c] = "close_door"
  /\ reader_bypass' = FALSE
  /\ Goto(c, "enqueue")
  /\ UNCHANGED <<main, beside, queue, tx_permit, expired, engine>>

\* The acquire of the reader pool is polled: it waits there from now on.
Enqueue(c) ==
  /\ pc[c] = "enqueue"
  /\ Goto(c, "drain")
  /\ UNCHANGED <<gate, tx_permit, expired, engine>>

\* Mutant: the first write does not wait for the reads that are running.
DrainedEarly(c) ==
  /\ pc[c] = "drain"
  /\ beside' = [beside EXCEPT ![c] = "all"]
  /\ Goto(c, "run")
  /\ UNCHANGED <<main, queue, reader_bypass, tx_permit, expired, engine>>

\* The reads that were running have ended: the transaction is exclusive.
Drained(c) ==
  /\ pc[c] = "drain"
  /\ Free(beside, "all")
  /\ beside' = [beside EXCEPT ![c] = "all"]
  /\ Goto(c, "run")
  /\ UNCHANGED <<main, queue, reader_bypass, tx_permit, expired, engine>>

\* The write did not happen; reads may keep running beside the transaction.
DrainTimeout(c) ==
  /\ pc[c] = "drain"
  /\ reader_bypass' = TRUE
  /\ Goto(c, "idle")
  /\ UNCHANGED <<main, beside, queue, tx_permit, expired, engine>>

-----------------------------------------------------------------------------
(* The engine runs the statement; the connection acts on the response. *)

in_transaction == owner # NoConn

\* ensure_usable and ensure_read_allowed.
Refused == poisoned \/ transaction_aborted

\* mark_transaction_aborted, called by whoever's statement failed.
MarkAborted(c) ==
  /\ transaction_aborted' = (transaction_aborted \/ in_transaction)
  /\ blamed' = IF in_transaction THEN blamed \cup {c} ELSE blamed
  /\ UNCHANGED <<owner, poisoned>>

TransactionEnds ==
  /\ owner' = NoConn
  /\ transaction_aborted' = FALSE
  /\ writers' = {}
  /\ blamed' = {}
  /\ UNCHANGED poisoned

\* poison_live_state: the engine serves nothing more, dirty pages are dropped.
Poison ==
  /\ poisoned' = TRUE
  /\ writers' = {}
  /\ UNCHANGED <<owner, transaction_aborted, blamed>>

\* Mutant: a cancelled statement releases the gate and rolls nothing back.
CancelledReleases(c) == Goto(c, IF tx_permit[c] THEN "close_hold" ELSE "drop")

\* The reply: an autocommit statement gives its permit back, one in a
\* transaction keeps it; the end of a transaction releases its hold, and a
\* cancelled statement of one rolls it back first.
Reply(c) == Goto(c, IF tx_permit[c] THEN "idle" ELSE "drop")
EndTx(c) == Goto(c, IF tx_permit[c] THEN "close_hold" ELSE "drop")
Cancelled(c) == Goto(c, IF tx_permit[c] THEN "undo" ELSE "drop")

Running(c, s) == pc[c] = "run" /\ stmt[c] = s

\* run_read_statement under the read lock.  A read of a stale view needs the
\* writer: inside a transaction it upgrades, outside it queues as a writer.
RunRead(c) ==
  /\ Running(c, "read")
  /\ \/ /\ Reply(c)
        /\ UNCHANGED engine
     \/ /\ ~Refused
        /\ MarkAborted(c)
        /\ Reply(c) \/ Cancelled(c)
        /\ UNCHANGED writers
     \/ /\ ~Refused
        /\ IF tx_permit[c]
           THEN Become(c, "write", UpgradePoint(c))
           ELSE Goto(c, "drop_retry")
        /\ UNCHANGED engine
  /\ UNCHANGED <<gate, tx_permit, expired>>

\* run_statement under the write lock: a mutation inside a transaction leaves
\* its rows in the heap, one outside commits or rolls back before it returns.
RunWrite(c) ==
  /\ Running(c, "write")
  /\ \/ /\ Refused
        /\ Reply(c)
        /\ UNCHANGED engine
     \/ /\ ~Refused /\ in_transaction
        /\ writers' = writers \cup {c}
        /\ \/ Reply(c) /\ UNCHANGED <<owner, transaction_aborted, poisoned,
                                      blamed>>
           \/ MarkAborted(c) /\ (Reply(c) \/ Cancelled(c))
     \/ /\ ~Refused /\ ~in_transaction
        /\ Reply(c)
        /\ Poison \/ UNCHANGED engine
  /\ UNCHANGED <<gate, tx_permit, expired>>

\* A sync operation does not touch the transaction state.
RunSync(c) ==
  /\ Running(c, "sync")
  /\ Reply(c)
  /\ UNCHANGED <<gate, tx_permit, expired, engine>>

\* begin: the hold is installed on success, and on cancellation so that the
\* rollback can run under it; any other failure drops it, and one of the Begin
\* record's append or flush abandons the catalog.
RunBegin(c) ==
  /\ Running(c, "begin")
  /\ \/ /\ ~Refused /\ ~in_transaction
        /\ owner' = c
        /\ tx_permit' = [tx_permit EXCEPT ![c] = TRUE]
        /\ Goto(c, "idle")
        /\ UNCHANGED <<transaction_aborted, poisoned, writers, blamed>>
     \/ /\ Goto(c, "close_hold")
        /\ \/ Refused /\ UNCHANGED engine
           \/ ~Refused /\ MarkAborted(c) /\ UNCHANGED writers
           \/ ~Refused /\ ~in_transaction /\ Poison
        /\ UNCHANGED tx_permit
     \/ /\ ~Refused
        /\ MarkAborted(c)
        /\ tx_permit' = [tx_permit EXCEPT ![c] = TRUE]
        /\ Goto(c, "undo")
        /\ UNCHANGED writers
  /\ UNCHANGED <<gate, expired>>

\* commit: an uncertain commit poisons the engine and keeps the hold.
RunCommit(c) ==
  /\ Running(c, "commit")
  /\ \/ /\ Refused \/ ~in_transaction
        /\ Reply(c)
        /\ UNCHANGED engine
     \/ /\ ~Refused
        /\ MarkAborted(c)
        /\ Cancelled(c)
        /\ UNCHANGED writers
     \/ /\ ~Refused /\ in_transaction
        /\ \/ TransactionEnds /\ EndTx(c)
           \/ Poison /\ Reply(c)
  /\ UNCHANGED <<gate, tx_permit, expired>>

\* rollback_transaction_preserving_wal_archive, when it does not succeed: the
\* archive hook runs before anything is discarded, and its failure leaves the
\* transaction open and aborted; a later failure poisons.
RollbackFails(c) ==
  \/ (poisoned \/ ~in_transaction) /\ UNCHANGED engine
  \/ ~poisoned /\ in_transaction /\ Poison
  \/ /\ ~poisoned /\ in_transaction /\ RollbackCanFail
     /\ MarkAborted(c)
     /\ UNCHANGED writers

RunRollback(c) ==
  /\ Running(c, "rollback")
  /\ \/ ~poisoned /\ in_transaction /\ TransactionEnds /\ EndTx(c)
     \/ RollbackFails(c) /\ Reply(c)
  /\ UNCHANGED <<gate, tx_permit, expired>>

-----------------------------------------------------------------------------
(* The end of a statement and of a transaction. *)

\* The permit of an autocommit statement is dropped; a read that needs the
\* writer comes back as a write.
Drop(c) ==
  /\ pc[c] \in {"drop", "drop_retry"}
  /\ main' = [main EXCEPT ![c] = "none"]
  /\ beside' = [beside EXCEPT ![c] = "none"]
  /\ IF pc[c] = "drop"
     THEN Goto(c, "idle")
     ELSE Become(c, "write", "acquire")
  /\ UNCHANGED <<queue, reader_bypass, tx_permit, expired, engine>>

\* rollback_connection_transaction and the disconnect teardown: roll back,
\* whatever comes of it, then release.
Undo(c) ==
  /\ pc[c] = "undo"
  /\ \/ ~poisoned /\ in_transaction /\ TransactionEnds
     \/ RollbackFails(c)
  /\ Goto(c, "close_hold")
  /\ UNCHANGED <<gate, tx_permit, expired>>

\* Mutant: the hold is dropped with reader admission still open.
CloseHoldLeavesDoor(c) ==
  /\ pc[c] = "close_hold"
  /\ Goto(c, "drop_readers")
  /\ UNCHANGED <<gate, tx_permit, expired, engine>>

\* Drop for TxGateHold: the flag, then the reader pool, then the main pool.
CloseHold(c) ==
  /\ pc[c] = "close_hold"
  /\ reader_bypass' = FALSE
  /\ Goto(c, "drop_readers")
  /\ UNCHANGED <<main, beside, queue, tx_permit, expired, engine>>

DropReaders(c) ==
  /\ pc[c] = "drop_readers"
  /\ beside' = [beside EXCEPT ![c] = "none"]
  /\ Goto(c, "drop_pool")
  /\ UNCHANGED <<main, queue, reader_bypass, tx_permit, expired, engine>>

DropPool(c) ==
  /\ pc[c] = "drop_pool"
  /\ main' = [main EXCEPT ![c] = "none"]
  /\ tx_permit' = [tx_permit EXCEPT ![c] = FALSE]
  /\ expired' = [expired EXCEPT ![c] = FALSE]
  /\ Goto(c, "idle")
  /\ UNCHANGED <<beside, queue, reader_bypass, engine>>

\* The connection ends with a transaction open: disconnect, idle timeout,
\* shutdown.
Disconnect(c) ==
  /\ pc[c] = "idle" /\ tx_permit[c]
  /\ Goto(c, "undo")
  /\ UNCHANGED <<gate, tx_permit, expired, engine>>

\* The transaction has held the gate for max_tx_lifetime ...
Expire(c) ==
  /\ tx_permit[c] /\ ~expired[c]
  /\ expired' = [expired EXCEPT ![c] = TRUE]
  /\ UNCHANGED <<gate, tx_permit, pc, stmt, engine>>

\* ... and is reaped before the connection's next frame.
Reap(c) ==
  /\ pc[c] = "idle" /\ tx_permit[c] /\ expired[c]
  /\ Goto(c, "undo")
  /\ UNCHANGED <<gate, tx_permit, expired, engine>>

\* A frame that does not parse aborts the connection's own transaction.
ParseFailure(c) ==
  /\ Ready(c) /\ tx_permit[c]
  /\ MarkAborted(c)
  /\ UNCHANGED <<gate, conn, writers>>

-----------------------------------------------------------------------------
Admit(c) == LoadBypass(c) \/ TryBeside(c) \/ Recheck(c) \/ Acquire(c)
            \/ Grant(c) \/ OpenDoor(c)

Upgrade(c) == CloseDoor(c) \/ Enqueue(c) \/ Drained(c)

Run(c) == RunRead(c) \/ RunWrite(c) \/ RunSync(c) \/ RunBegin(c)
          \/ RunCommit(c) \/ RunRollback(c)

Release(c) == Drop(c) \/ Undo(c) \/ CloseHold(c) \/ DropReaders(c)
              \/ DropPool(c)

Next ==
  \E c \in Conns :
    \/ Frame(c) \/ ParseFailure(c) \/ Disconnect(c)
    \/ Admit(c) \/ Upgrade(c) \/ Run(c) \/ Release(c)
    \/ WaitTimeout(c) \/ DrainTimeout(c)
    \/ Expire(c) \/ Reap(c)

Spec == Init /\ [][Next]_vars

\* A task that can run does: the runtime polls it, a statement ends (its
\* deadline cancels it), time passes.  No client owes anything, and no wait
\* is assumed to time out.
Fairness ==
  \A c \in Conns : /\ WF_vars(Admit(c))
                   /\ WF_vars(Upgrade(c))
                   /\ WF_vars(Run(c))
                   /\ WF_vars(Release(c))
                   /\ WF_vars(Expire(c))
                   /\ WF_vars(Reap(c))

FairSpec == Spec /\ Fairness

-----------------------------------------------------------------------------
(* Properties. *)

Waiting == {c \in Conns : pc[c] = "wait"}

\* Type correctness.  The queue of the main semaphore holds the connections
\* that wait in it, each once: a wait that ended left no entry behind.
TypeOK ==
  /\ main \in [Conns -> Holdings]
  /\ beside \in [Conns -> Holdings]
  /\ queue \in Seq(Waiting) /\ Len(queue) = Cardinality(Waiting)
  /\ reader_bypass \in BOOLEAN
  /\ tx_permit \in [Conns -> BOOLEAN]
  /\ expired \in [Conns -> BOOLEAN]
  /\ pc \in [Conns -> Points]
  /\ stmt \in [Conns -> Statements \cup {"none", "write"}]
  /\ owner \in Conns \cup {NoConn}
  /\ transaction_aborted \in BOOLEAN
  /\ poisoned \in BOOLEAN
  /\ writers \subseteq Conns
  /\ blamed \subseteq Conns

\* A statement that has been admitted, may take the engine lock at any moment
\* and would not be refused by the engine, never meets uncommitted rows of
\* another connection: readers are excluded from the first write of a
\* transaction to its end, whatever the order of admissions, first writes,
\* timeouts, disconnects and reaps.
Isolation ==
  \A c \in Conns : pc[c] = "run" /\ ~Refused => writers \subseteq {c}

\* Reader admission is open only while a connection holds the whole gate for a
\* transaction that has not taken the reader pool: no later holder inherits the
\* door.
DoorHasHolder ==
  reader_bypass =>
    \E c \in Conns : /\ main[c] = "all" /\ beside[c] = "none"
                     /\ tx_permit[c] \/ stmt[c] = "begin"

\* The transaction open in the engine belongs to a connection that still holds
\* the gate for it: the rollback of a cancelled, reaped or disconnected
\* transaction comes before the release.
TransactionHasHolder ==
  in_transaction /\ ~poisoned => tx_permit[owner] /\ main[owner] = "all"

\* A transaction is aborted by its own connection's statements only.
OnlyOwnFailuresAbort ==
  transaction_aborted => blamed = {owner}

\* A connection in the queue of the gate is served, even if its wait never
\* times out: transactions are reaped, reads end, the queue is fair, and the
\* first write of a transaction waits for running reads and nothing else.
WaiterIsServed ==
  \A c \in Conns : pc[c] = "wait" ~> pc[c] # "wait"

=============================================================================
