---------------------------- MODULE TxGate_proofs ----------------------------
(***************************************************************************)
(* The transaction gate, for any number of connections and permits: proofs *)
(* of Isolation, DoorHasHolder and, without a failing archive hook,        *)
(* TransactionHasHolder.                                                   *)
(***************************************************************************)
EXTENDS TxGate, TLAPS

\* The part of the type invariant the argument needs.
Typed ==
  /\ main \in [Conns -> Holdings] /\ beside \in [Conns -> Holdings]
  /\ tx_permit \in [Conns -> BOOLEAN]
  /\ pc \in [Conns -> Points]
  /\ stmt \in [Conns -> Statements \cup {"none", "write"}]
  /\ owner \in Conns \cup {NoConn} /\ writers \subseteq Conns

Queueing == {"load", "try_beside", "recheck", "acquire", "wait", "open_door",
             "drop", "drop_retry"}
Upgrading == {"close_door", "enqueue", "drain"}
Releasing == {"close_hold", "drop_readers", "drop_pool"}

\* What a connection holds at each point of a frame.
Holds(c) ==
  /\ tx_permit[c] => /\ main[c] = "all" /\ beside[c] # "one"
                     /\ pc[c] \notin Queueing
  /\ beside[c] = "all" => /\ tx_permit[c]
                          /\ pc[c] \notin Upgrading \cup {"drop_pool"}
  /\ beside[c] = "one" => /\ stmt[c] = "read"
                          /\ pc[c] \in {"recheck", "run", "drop",
                                        "drop_retry"}
  /\ pc[c] \in {"load", "try_beside", "recheck"} => stmt[c] = "read"
  /\ pc[c] = "recheck" => beside[c] = "one"
  /\ pc[c] \in Upgrading \cup {"undo"} => tx_permit[c]
  /\ pc[c] \in Upgrading => stmt[c] = "write"
  /\ pc[c] \in Releasing => main[c] = "all"
  /\ pc[c] = "open_door" => main[c] = "all" /\ stmt[c] = "begin"
  /\ pc[c] = "run" =>
       /\ stmt[c] # "read" => main[c] = "all"
       /\ stmt[c] = "begin" => ~tx_permit[c]
       /\ tx_permit[c] /\ stmt[c] = "write" => beside[c] = "all"
       /\ main[c] = "none" => beside[c] = "one"

\* Who holds all permits of a pool holds it alone.
Alone(pool) ==
  \A c, d \in Conns : c # d /\ pool[c] = "all" => pool[d] = "none"

\* The engine's transaction can still be served or must still be rolled back
\* by its owner.
Live == ~poisoned /\ (RollbackCanFail => ~transaction_aborted)

Owned ==
  in_transaction /\ Live => tx_permit[owner] /\ pc[owner] \notin Releasing

\* Uncommitted rows are the owner's, and the owner holds the reader pool.
Hidden ==
  Live => /\ writers \subseteq {owner}
          /\ writers # {} => beside[owner] = "all"

\* The connection that opened reader admission.
Opener(c) ==
  /\ main[c] = "all" /\ beside[c] = "none"
  /\ \/ tx_permit[c] /\ pc[c] \in {"idle", "run", "close_door", "undo",
                                   "close_hold"}
     \/ stmt[c] = "begin" /\ pc[c] \in {"run", "close_hold"}

Door == reader_bypass => \E c \in Conns : Opener(c)

GateInv ==
  /\ Typed /\ \A c \in Conns : Holds(c)
  /\ Alone(main) /\ Alone(beside)
  /\ Owned /\ Hidden /\ Door

-----------------------------------------------------------------------------
\* A frame that arrives, a failed parse, the end of a connection and the
\* lifetime limit touch neither pool (handler/mod.rs, the connection loop).
LEMMA FrameKeeps ==
  ASSUME GateInv, NEW c \in Conns,
         Frame(c) \/ ParseFailure(c) \/ Disconnect(c) \/ Expire(c) \/ Reap(c)
  PROVE  GateInv'
<1> USE DEF GateInv, gate, conn, engine, Become, Goto
<1>1. CASE Frame(c)
  <2> USE <1>1 DEF Frame, Ready, UpgradePoint
  <2>1. Typed' /\ Alone(main)' /\ Alone(beside)'
      BY TxGateAssumption DEF Typed, Points, Holdings, Alone
  <2>2. \A d \in Conns : Holds(d)'
      BY DEF Typed, Holds, Queueing, Upgrading, Releasing, Points, Holdings
  <2>3. Owned' /\ Hidden'
      BY TxGateAssumption DEF Alone, Typed, Holds, Queueing, Upgrading,
             Releasing, Owned, Hidden, Live, in_transaction
  <2>4. Door'
      BY DEF Alone, Typed, Holds, Queueing, Upgrading, Releasing, Door, Opener,
             Holdings
  <2> QED BY <2>1, <2>2, <2>3, <2>4
<1>2. CASE ParseFailure(c)
  <2> USE <1>2 DEF ParseFailure, Ready, MarkAborted, in_transaction
  <2>1. Typed' /\ Alone(main)' /\ Alone(beside)'
      BY TxGateAssumption DEF Typed, Points, Holdings, Alone
  <2>2. \A d \in Conns : Holds(d)'
      BY DEF Typed, Holds, Queueing, Upgrading, Releasing, Points, Holdings
  <2>3. Owned' /\ Hidden'
      BY TxGateAssumption DEF Alone, Typed, Holds, Queueing, Upgrading,
             Releasing, Owned, Hidden, Live, in_transaction
  <2>4. Door'
      BY DEF Alone, Typed, Holds, Queueing, Upgrading, Releasing, Door, Opener,
             Holdings
  <2> QED BY <2>1, <2>2, <2>3, <2>4
<1>3. CASE Disconnect(c)
  <2> USE <1>3 DEF Disconnect
  <2>1. Typed' /\ Alone(main)' /\ Alone(beside)'
      BY TxGateAssumption DEF Typed, Points, Holdings, Alone
  <2>2. \A d \in Conns : Holds(d)'
      BY DEF Typed, Holds, Queueing, Upgrading, Releasing, Points, Holdings
  <2>3. Owned' /\ Hidden'
      BY TxGateAssumption DEF Alone, Typed, Holds, Queueing, Upgrading,
             Releasing, Owned, Hidden, Live, in_transaction
  <2>4. Door'
      BY DEF Alone, Typed, Holds, Queueing, Upgrading, Releasing, Door, Opener,
             Holdings
  <2> QED BY <2>1, <2>2, <2>3, <2>4
<1>4. CASE Expire(c)
  <2> USE <1>4 DEF Expire
  <2>1. Typed' /\ Alone(main)' /\ Alone(beside)'
      BY TxGateAssumption DEF Typed, Points, Holdings, Alone
  <2>2. \A d \in Conns : Holds(d)'
      BY DEF Typed, Holds, Queueing, Upgrading, Releasing, Points, Holdings
  <2>3. Owned' /\ Hidden'
      BY TxGateAssumption DEF Alone, Typed, Holds, Queueing, Upgrading,
             Releasing, Owned, Hidden, Live, in_transaction
  <2>4. Door'
      BY DEF Alone, Typed, Holds, Queueing, Upgrading, Releasing, Door, Opener,
             Holdings
  <2> QED BY <2>1, <2>2, <2>3, <2>4
<1>5. CASE Reap(c)
  <2> USE <1>5 DEF Reap
  <2>1. Typed' /\ Alone(main)' /\ Alone(beside)'
      BY TxGateAssumption DEF Typed, Points, Holdings, Alone
  <2>2. \A d \in Conns : Holds(d)'
      BY DEF Typed, Holds, Queueing, Upgrading, Releasing, Points, Holdings
  <2>3. Owned' /\ Hidden'
      BY TxGateAssumption DEF Alone, Typed, Holds, Queueing, Upgrading,
             Releasing, Owned, Hidden, Live, in_transaction
  <2>4. Door'
      BY DEF Alone, Typed, Holds, Queueing, Upgrading, Releasing, Door, Opener,
             Holdings
  <2> QED BY <2>1, <2>2, <2>3, <2>4
<1> QED BY <1>1, <1>2, <1>3, <1>4, <1>5

\* Admission keeps each pool either with one full holder or shared
\* (acquire_autocommit_permit, acquire_begin_permit, acquire_sync_permit).
LEMMA AdmitKeeps ==
  ASSUME GateInv, NEW c \in Conns, Admit(c) PROVE GateInv'
<1> USE DEF GateInv, gate, conn, engine, Become, Goto
<1>1. CASE LoadBypass(c)
  <2> USE <1>1 DEF LoadBypass
  <2>1. Typed' /\ Alone(main)' /\ Alone(beside)'
      BY TxGateAssumption DEF Typed, Points, Holdings, Alone
  <2>2. \A d \in Conns : Holds(d)'
      BY DEF Typed, Holds, Queueing, Upgrading, Releasing, Points, Holdings
  <2>3. Owned' /\ Hidden'
      BY TxGateAssumption DEF Alone, Typed, Holds, Queueing, Upgrading,
             Releasing, Owned, Hidden, Live, in_transaction
  <2>4. Door'
      BY DEF Alone, Typed, Holds, Queueing, Upgrading, Releasing, Door, Opener,
             Holdings
  <2> QED BY <2>1, <2>2, <2>3, <2>4
<1>2. CASE TryBeside(c)
  <2> USE <1>2 DEF TryBeside, Free
  <2>1. Typed' /\ Alone(main)' /\ Alone(beside)'
      BY TxGateAssumption DEF Typed, Points, Holdings, Alone
  <2>2. \A d \in Conns : Holds(d)'
      BY DEF Typed, Holds, Queueing, Upgrading, Releasing, Points, Holdings
  <2>3. Owned' /\ Hidden'
      BY TxGateAssumption DEF Alone, Typed, Holds, Queueing, Upgrading,
             Releasing, Owned, Hidden, Live, in_transaction
  <2>4. Door'
      BY DEF Alone, Typed, Holds, Queueing, Upgrading, Releasing, Door, Opener,
             Holdings
  <2> QED BY <2>1, <2>2, <2>3, <2>4
<1>3. CASE Recheck(c)
  <2> USE <1>3 DEF Recheck
  <2>1. Typed' /\ Alone(main)' /\ Alone(beside)'
      BY TxGateAssumption DEF Typed, Points, Holdings, Alone
  <2>2. \A d \in Conns : Holds(d)'
      BY DEF Typed, Holds, Queueing, Upgrading, Releasing, Points, Holdings
  <2>3. Owned' /\ Hidden'
      BY TxGateAssumption DEF Alone, Typed, Holds, Queueing, Upgrading,
             Releasing, Owned, Hidden, Live, in_transaction
  <2>4. Door'
      BY DEF Alone, Typed, Holds, Queueing, Upgrading, Releasing, Door, Opener,
             Holdings
  <2> QED BY <2>1, <2>2, <2>3, <2>4
<1>4. CASE Acquire(c)
  <2> USE <1>4 DEF Acquire, Free, Granted, Need
  <2>1. Typed' /\ Alone(main)' /\ Alone(beside)'
      BY TxGateAssumption DEF Typed, Points, Holdings, Alone
  <2>2. \A d \in Conns : Holds(d)'
      BY DEF Typed, Holds, Queueing, Upgrading, Releasing, Points, Holdings
  <2>3. Owned' /\ Hidden'
      BY TxGateAssumption DEF Alone, Typed, Holds, Queueing, Upgrading,
             Releasing, Owned, Hidden, Live, in_transaction
  <2>4. Door'
      BY DEF Alone, Typed, Holds, Queueing, Upgrading, Releasing, Door, Opener,
             Holdings
  <2> QED BY <2>1, <2>2, <2>3, <2>4
<1>5. CASE Grant(c)
  <2> USE <1>5 DEF Grant, Free, Granted, Need
  <2>1. Typed' /\ Alone(main)' /\ Alone(beside)'
      BY TxGateAssumption DEF Typed, Points, Holdings, Alone
  <2>2. \A d \in Conns : Holds(d)'
      BY DEF Typed, Holds, Queueing, Upgrading, Releasing, Points, Holdings
  <2>3. Owned' /\ Hidden'
      BY TxGateAssumption DEF Alone, Typed, Holds, Queueing, Upgrading,
             Releasing, Owned, Hidden, Live, in_transaction
  <2>4. Door'
      BY DEF Alone, Typed, Holds, Queueing, Upgrading, Releasing, Door, Opener,
             Holdings
  <2> QED BY <2>1, <2>2, <2>3, <2>4
<1>6. CASE OpenDoor(c)
  <2> USE <1>6 DEF OpenDoor
  <2>1. Typed' /\ Alone(main)' /\ Alone(beside)'
      BY TxGateAssumption DEF Typed, Points, Holdings, Alone
  <2>2. \A d \in Conns : Holds(d)'
      BY DEF Typed, Holds, Queueing, Upgrading, Releasing, Points, Holdings
  <2>3. Owned' /\ Hidden'
      BY TxGateAssumption DEF Alone, Typed, Holds, Queueing, Upgrading,
             Releasing, Owned, Hidden, Live, in_transaction
  <2>4. Door'
      BY DEF Alone, Typed, Holds, Queueing, Upgrading, Releasing, Door, Opener,
             Holdings
  <2> QED BY <2>1, <2>2, <2>3, <2>4
<1> QED BY <1>1, <1>2, <1>3, <1>4, <1>5, <1>6 DEF Admit

\* The first write's upgrade: it holds the reader pool alone when it gets
\* it, and reopens the door only if it did not (upgrade_to_exclusive).
LEMMA UpgradeKeeps ==
  ASSUME GateInv, NEW c \in Conns, Upgrade(c) PROVE GateInv'
<1> USE DEF GateInv, gate, conn, engine, Become, Goto
<1>1. CASE CloseDoor(c)
  <2> USE <1>1 DEF CloseDoor
  <2>1. Typed' /\ Alone(main)' /\ Alone(beside)'
      BY TxGateAssumption DEF Typed, Points, Holdings, Alone
  <2>2. \A d \in Conns : Holds(d)'
      BY DEF Typed, Holds, Queueing, Upgrading, Releasing, Points, Holdings
  <2>3. Owned' /\ Hidden'
      BY TxGateAssumption DEF Alone, Typed, Holds, Queueing, Upgrading,
             Releasing, Owned, Hidden, Live, in_transaction
  <2>4. Door'
      BY DEF Alone, Typed, Holds, Queueing, Upgrading, Releasing, Door, Opener,
             Holdings
  <2> QED BY <2>1, <2>2, <2>3, <2>4
<1>2. CASE Enqueue(c)
  <2> USE <1>2 DEF Enqueue
  <2>1. Typed' /\ Alone(main)' /\ Alone(beside)'
      BY TxGateAssumption DEF Typed, Points, Holdings, Alone
  <2>2. \A d \in Conns : Holds(d)'
      BY DEF Typed, Holds, Queueing, Upgrading, Releasing, Points, Holdings
  <2>3. Owned' /\ Hidden'
      BY TxGateAssumption DEF Alone, Typed, Holds, Queueing, Upgrading,
             Releasing, Owned, Hidden, Live, in_transaction
  <2>4. Door'
      BY DEF Alone, Typed, Holds, Queueing, Upgrading, Releasing, Door, Opener,
             Holdings
  <2> QED BY <2>1, <2>2, <2>3, <2>4
<1>3. CASE Drained(c)
  <2> USE <1>3 DEF Drained, Free
  <2>1. Typed' /\ Alone(main)' /\ Alone(beside)'
      BY TxGateAssumption DEF Typed, Points, Holdings, Alone
  <2>2. \A d \in Conns : Holds(d)'
      BY DEF Typed, Holds, Queueing, Upgrading, Releasing, Points, Holdings
  <2>3. Owned' /\ Hidden'
      BY TxGateAssumption DEF Alone, Typed, Holds, Queueing, Upgrading,
             Releasing, Owned, Hidden, Live, in_transaction
  <2>4. Door'
      BY DEF Alone, Typed, Holds, Queueing, Upgrading, Releasing, Door, Opener,
             Holdings
  <2> QED BY <2>1, <2>2, <2>3, <2>4
<1> QED BY <1>1, <1>2, <1>3 DEF Upgrade

\* A wait that times out gives nothing up but its place.
LEMMA TimeoutKeeps ==
  ASSUME GateInv, NEW c \in Conns,
         WaitTimeout(c) \/ DrainTimeout(c)
  PROVE  GateInv'
<1> USE DEF GateInv, gate, conn, engine, Become, Goto
<1>1. CASE WaitTimeout(c)
  <2> USE <1>1 DEF WaitTimeout
  <2>1. Typed' /\ Alone(main)' /\ Alone(beside)'
      BY TxGateAssumption DEF Typed, Points, Holdings, Alone
  <2>2. \A d \in Conns : Holds(d)'
      BY DEF Typed, Holds, Queueing, Upgrading, Releasing, Points, Holdings
  <2>3. Owned' /\ Hidden'
      BY TxGateAssumption DEF Alone, Typed, Holds, Queueing, Upgrading,
             Releasing, Owned, Hidden, Live, in_transaction
  <2>4. Door'
      BY DEF Alone, Typed, Holds, Queueing, Upgrading, Releasing, Door, Opener,
             Holdings
  <2> QED BY <2>1, <2>2, <2>3, <2>4
<1>2. CASE DrainTimeout(c)
  <2> USE <1>2 DEF DrainTimeout
  <2>1. Typed' /\ Alone(main)' /\ Alone(beside)'
      BY TxGateAssumption DEF Typed, Points, Holdings, Alone
  <2>2. \A d \in Conns : Holds(d)'
      BY DEF Typed, Holds, Queueing, Upgrading, Releasing, Points, Holdings
  <2>3. Owned' /\ Hidden'
      BY TxGateAssumption DEF Alone, Typed, Holds, Queueing, Upgrading,
             Releasing, Owned, Hidden, Live, in_transaction
  <2>4. Door'
      BY DEF Alone, Typed, Holds, Queueing, Upgrading, Releasing, Door, Opener,
             Holdings
  <2> QED BY <2>1, <2>2, <2>3, <2>4
<1> QED BY <1>1, <1>2

\* A statement that runs leaves uncommitted rows only as the owner, under
\* the whole reader pool (the engine calls of statement.rs).
LEMMA RunKeeps ==
  ASSUME GateInv, NEW c \in Conns, Run(c) PROVE GateInv'
<1> USE DEF GateInv, gate, conn, engine, Become, Goto
<1>1. CASE RunRead(c)
  <2> USE <1>1 DEF RunRead, Running, Reply, Cancelled, MarkAborted,
      UpgradePoint, Refused
  <2>1. Typed' /\ Alone(main)' /\ Alone(beside)'
      BY TxGateAssumption DEF Typed, Points, Holdings, Alone
  <2>2. \A d \in Conns : Holds(d)'
      BY DEF Typed, Holds, Queueing, Upgrading, Releasing, Points, Holdings
  <2>3. Owned' /\ Hidden'
      BY TxGateAssumption DEF Alone, Typed, Holds, Queueing, Upgrading,
             Releasing, Owned, Hidden, Live, in_transaction
  <2>4. Door'
      BY DEF Alone, Typed, Holds, Queueing, Upgrading, Releasing, Door, Opener,
             Holdings
  <2> QED BY <2>1, <2>2, <2>3, <2>4
<1>2. CASE RunWrite(c)
  <2> USE <1>2 DEF RunWrite, Running, Reply, Cancelled, MarkAborted, Refused,
      Poison
  <2>1. Typed' /\ Alone(main)' /\ Alone(beside)'
      BY TxGateAssumption DEF Typed, Points, Holdings, Alone
  <2>2. \A d \in Conns : Holds(d)'
      BY DEF Typed, Holds, Queueing, Upgrading, Releasing, Points, Holdings
  <2>3. Owned' /\ Hidden'
      BY TxGateAssumption DEF Alone, Typed, Holds, Queueing, Upgrading,
             Releasing, Owned, Hidden, Live, in_transaction
  <2>4. Door'
      BY DEF Alone, Typed, Holds, Queueing, Upgrading, Releasing, Door, Opener,
             Holdings
  <2> QED BY <2>1, <2>2, <2>3, <2>4
<1>3. CASE RunSync(c)
  <2> USE <1>3 DEF RunSync, Running, Reply
  <2>1. Typed' /\ Alone(main)' /\ Alone(beside)'
      BY TxGateAssumption DEF Typed, Points, Holdings, Alone
  <2>2. \A d \in Conns : Holds(d)'
      BY DEF Typed, Holds, Queueing, Upgrading, Releasing, Points, Holdings
  <2>3. Owned' /\ Hidden'
      BY TxGateAssumption DEF Alone, Typed, Holds, Queueing, Upgrading,
             Releasing, Owned, Hidden, Live, in_transaction
  <2>4. Door'
      BY DEF Alone, Typed, Holds, Queueing, Upgrading, Releasing, Door, Opener,
             Holdings
  <2> QED BY <2>1, <2>2, <2>3, <2>4
<1>4. CASE RunBegin(c)
  <2> USE <1>4 DEF RunBegin, Running, MarkAborted, Refused, Poison
  <2>1. Typed' BY DEF Typed, Points, Holdings
  <2>2. Alone(main)' /\ Alone(beside)' BY DEF Alone
  <2>3. \A d \in Conns : Holds(d)'
      BY DEF Typed, Holds, Queueing, Upgrading, Releasing, Points, Holdings
  <2>4. Owned' /\ Hidden'
      BY TxGateAssumption DEF Alone, Typed, Holds, Queueing, Upgrading,
             Releasing, Owned, Hidden, Live, in_transaction
  <2>5. Door'
      BY DEF Alone, Typed, Holds, Queueing, Upgrading, Releasing, Door, Opener,
             Holdings
  <2> QED BY <2>1, <2>2, <2>3, <2>4, <2>5
<1>5. CASE RunCommit(c)
  <2> USE <1>5 DEF RunCommit, Running, Reply, EndTx, Cancelled, MarkAborted,
      Refused, Poison, TransactionEnds
  <2>1. Typed' /\ Alone(main)' /\ Alone(beside)'
      BY TxGateAssumption DEF Typed, Points, Holdings, Alone
  <2>2. \A d \in Conns : Holds(d)'
      BY DEF Typed, Holds, Queueing, Upgrading, Releasing, Points, Holdings
  <2>3. Owned' /\ Hidden'
      BY TxGateAssumption DEF Alone, Typed, Holds, Queueing, Upgrading,
             Releasing, Owned, Hidden, Live, in_transaction
  <2>4. Door'
      BY DEF Alone, Typed, Holds, Queueing, Upgrading, Releasing, Door, Opener,
             Holdings
  <2> QED BY <2>1, <2>2, <2>3, <2>4
<1>6. CASE RunRollback(c)
  <2> USE <1>6 DEF RunRollback, Running, Reply, EndTx, RollbackFails,
      MarkAborted, Poison, TransactionEnds
  <2>1. Typed' /\ Alone(main)' /\ Alone(beside)'
      BY TxGateAssumption DEF Typed, Points, Holdings, Alone
  <2>2. \A d \in Conns : Holds(d)'
      BY DEF Typed, Holds, Queueing, Upgrading, Releasing, Points, Holdings
  <2>3. Owned' /\ Hidden'
      BY TxGateAssumption DEF Alone, Typed, Holds, Queueing, Upgrading,
             Releasing, Owned, Hidden, Live, in_transaction
  <2>4. Door'
      BY DEF Alone, Typed, Holds, Queueing, Upgrading, Releasing, Door, Opener,
             Holdings
  <2> QED BY <2>1, <2>2, <2>3, <2>4
<1> QED BY <1>1, <1>2, <1>3, <1>4, <1>5, <1>6 DEF Run

\* The hold is let go only after the transaction has ended or the engine
\* is poisoned (Drop for TxGateHold, rollback_connection_transaction).
LEMMA ReleaseKeeps ==
  ASSUME GateInv, NEW c \in Conns, Release(c) PROVE GateInv'
<1> USE DEF GateInv, gate, conn, engine, Become, Goto
<1>1. CASE Drop(c)
  <2> USE <1>1 DEF Drop
  <2>1. Typed' /\ Alone(main)' /\ Alone(beside)'
      BY TxGateAssumption DEF Typed, Points, Holdings, Alone
  <2>2. \A d \in Conns : Holds(d)'
      BY DEF Typed, Holds, Queueing, Upgrading, Releasing, Points, Holdings
  <2>3. Owned' /\ Hidden'
      BY TxGateAssumption DEF Alone, Typed, Holds, Queueing, Upgrading,
             Releasing, Owned, Hidden, Live, in_transaction
  <2>4. Door'
      BY DEF Alone, Typed, Holds, Queueing, Upgrading, Releasing, Door, Opener,
             Holdings
  <2> QED BY <2>1, <2>2, <2>3, <2>4
<1>2. CASE Undo(c)
  <2> USE <1>2 DEF Undo, RollbackFails, MarkAborted, Poison, TransactionEnds
  <2>1. Typed' /\ Alone(main)' /\ Alone(beside)'
      BY TxGateAssumption DEF Typed, Points, Holdings, Alone
  <2>2. \A d \in Conns : Holds(d)'
      BY DEF Typed, Holds, Queueing, Upgrading, Releasing, Points, Holdings
  <2>3. Owned' /\ Hidden'
      BY TxGateAssumption DEF Alone, Typed, Holds, Queueing, Upgrading,
             Releasing, Owned, Hidden, Live, in_transaction
  <2>4. Door'
      BY DEF Alone, Typed, Holds, Queueing, Upgrading, Releasing, Door, Opener,
             Holdings
  <2> QED BY <2>1, <2>2, <2>3, <2>4
<1>3. CASE CloseHold(c)
  <2> USE <1>3 DEF CloseHold
  <2>1. Typed' /\ Alone(main)' /\ Alone(beside)'
      BY TxGateAssumption DEF Typed, Points, Holdings, Alone
  <2>2. \A d \in Conns : Holds(d)'
      BY DEF Typed, Holds, Queueing, Upgrading, Releasing, Points, Holdings
  <2>3. Owned' /\ Hidden'
      BY TxGateAssumption DEF Alone, Typed, Holds, Queueing, Upgrading,
             Releasing, Owned, Hidden, Live, in_transaction
  <2>4. Door'
      BY DEF Alone, Typed, Holds, Queueing, Upgrading, Releasing, Door, Opener,
             Holdings
  <2> QED BY <2>1, <2>2, <2>3, <2>4
<1>4. CASE DropReaders(c)
  <2> USE <1>4 DEF DropReaders
  <2>1. Typed' /\ Alone(main)' /\ Alone(beside)'
      BY TxGateAssumption DEF Typed, Points, Holdings, Alone
  <2>2. \A d \in Conns : Holds(d)'
      BY DEF Typed, Holds, Queueing, Upgrading, Releasing, Points, Holdings
  <2>3. Owned' /\ Hidden'
      BY TxGateAssumption DEF Alone, Typed, Holds, Queueing, Upgrading,
             Releasing, Owned, Hidden, Live, in_transaction
  <2>4. Door'
      BY DEF Alone, Typed, Holds, Queueing, Upgrading, Releasing, Door, Opener,
             Holdings
  <2> QED BY <2>1, <2>2, <2>3, <2>4
<1>5. CASE DropPool(c)
  <2> USE <1>5 DEF DropPool
  <2>1. Typed' /\ Alone(main)' /\ Alone(beside)'
      BY TxGateAssumption DEF Typed, Points, Holdings, Alone
  <2>2. \A d \in Conns : Holds(d)'
      BY DEF Typed, Holds, Queueing, Upgrading, Releasing, Points, Holdings
  <2>3. Owned' /\ Hidden'
      BY TxGateAssumption DEF Alone, Typed, Holds, Queueing, Upgrading,
             Releasing, Owned, Hidden, Live, in_transaction
  <2>4. Door'
      BY DEF Alone, Typed, Holds, Queueing, Upgrading, Releasing, Door, Opener,
             Holdings
  <2> QED BY <2>1, <2>2, <2>3, <2>4
<1> QED BY <1>1, <1>2, <1>3, <1>4, <1>5 DEF Release

-----------------------------------------------------------------------------
\* The parts of GateInv hold together from the start of the server on and
\* through every step of every connection.
THEOREM GateInvariant == Spec => []GateInv
<1>1. Init => GateInv
  BY TxGateAssumption
     DEF Init, GateInv, Typed, Points, Holdings, Holds, Queueing, Upgrading,
         Releasing, Alone, Owned, Hidden, Door, Live, in_transaction
<1>2. GateInv /\ [Next]_vars => GateInv'
  <2> SUFFICES ASSUME GateInv, [Next]_vars PROVE GateInv'
    OBVIOUS
  <2>1. CASE Next
    BY <2>1, FrameKeeps, AdmitKeeps, UpgradeKeeps, TimeoutKeeps, RunKeeps,
       ReleaseKeeps DEF Next
  <2>2. CASE UNCHANGED vars
    BY <2>2
       DEF vars, gate, conn, engine, GateInv, Typed, Holds, Queueing,
           Upgrading, Releasing, Alone, Owned, Hidden, Door, Opener, Live,
           in_transaction
  <2> QED BY <2>1, <2>2
<1> QED BY <1>1, <1>2, PTL DEF Spec

\* No statement the engine answers runs while rows of another connection's
\* open transaction are in the heap: the gate alone isolates transactions.
THEOREM GateIsolates == Spec => []Isolation
<1>1. GateInv => Isolation
  <2> SUFFICES ASSUME GateInv, NEW c \in Conns, pc[c] = "run", ~Refused
               PROVE  writers \subseteq {c}
    BY DEF Isolation
  <2>1. Typed /\ Holds(c) /\ Alone(main) /\ Alone(beside) /\ Hidden /\ Owned
    BY DEF GateInv
  <2>2. Live
    BY DEF Live, Refused
  <2>3. CASE owner = c
    BY <2>1, <2>2, <2>3 DEF Hidden
  <2>4. CASE owner # c /\ writers # {}
    <3>1. owner \in Conns /\ beside[owner] = "all"
      BY <2>1, <2>2, <2>4, TxGateAssumption DEF Hidden, Typed
    <3>2. Holds(owner)
      BY <3>1 DEF GateInv
    <3>3. beside[c] = "none" /\ main[owner] = "all"
      BY <2>1, <2>4, <3>1, <3>2 DEF Alone, Holds
    <3>4. main[c] = "none"
      BY <2>1, <2>4, <3>1, <3>3 DEF Alone
    <3> QED BY <2>1, <3>3, <3>4 DEF Holds
  <2> QED BY <2>3, <2>4
<1> QED BY <1>1, GateInvariant, PTL

\* While reads are admitted beside a transaction, some connection is there to
\* close admission again: it holds the whole gate and not the reader pool.
THEOREM DoorIsHeld == Spec => []DoorHasHolder
<1>1. GateInv => DoorHasHolder
  BY DEF GateInv, Door, DoorHasHolder, Opener
<1> QED BY <1>1, GateInvariant, PTL

\* An open transaction of a usable engine has an owner that holds the gate,
\* if the archive hook of a rollback does not fail.
THEOREM TransactionIsHeld ==
  ASSUME ~RollbackCanFail PROVE Spec => []TransactionHasHolder
<1>1. GateInv => TransactionHasHolder
  <2> SUFFICES ASSUME GateInv, in_transaction, ~poisoned
               PROVE  tx_permit[owner] /\ main[owner] = "all"
    BY DEF TransactionHasHolder
  <2>1. owner \in Conns
    BY DEF GateInv, Typed, in_transaction
  <2>2. tx_permit[owner]
    BY DEF GateInv, Owned, Live
  <2> QED BY <2>1, <2>2 DEF GateInv, Holds
<1> QED BY <1>1, GateInvariant, PTL
=============================================================================
