------------------------ MODULE WalGroupCommit_proofs ------------------------
(***************************************************************************)
(* Proofs about WalGroupCommit, for every set of connections and every     *)
(* bound: the checkpoint, rollback and flusher steps preserve the          *)
(* invariant of WalGroupCommit_inv, and the theorems that follow: an       *)
(* acknowledged commit is durable unless an fsync outside the poison latch *)
(* met dropped pages, and under the same condition a rollback cuts only    *)
(* its own statement and the pressure path is write-ahead.                 *)
(***************************************************************************)
EXTENDS WalGroupCommit_inv

\* replace_file settles every registered generation.
LEMMA ReplaceFileStep ==
  ASSUME IInv, NEW c \in Conns, ReplaceFile(c) PROVE IInv'
<1> USE ConstantsAssumption DEF IInv, ReplaceFile, Goto, MaxOf, wal, flush,
   devices, history, heaps, counts
<1>1. TypeOK'
  BY DEF TypeOK, Gens, ConnLabels, LockInv, HoldsEngine, SyncPcs, EnginePcs
<1>2. LockInv' BY DEF TypeOK, LockInv, HoldsEngine, SyncPcs, EnginePcs
<1>3. BoundInv'
  BY DEF TypeOK, BoundInv, Top, Unregistered, SyncPcs, LockInv, HoldsEngine,
     EnginePcs
<1>4. TxInv'
  BY DEF TypeOK, TxInv, Top, Unregistered, Rolling, LockInv, HoldsEngine,
     SyncPcs, EnginePcs
<1>5. LogInv' BY DEF TypeOK, LogInv, SyncPcs, LockInv, HoldsEngine, EnginePcs
<1>6. SettledInv'
  BY DEF TypeOK, SettledInv, Settled, Durable, BoundInv, Top, Unregistered,
     LockInv, HoldsEngine, SyncPcs, EnginePcs, LogInv, Rolling, RawInv
<1>7. RawInv'
  BY DEF TypeOK, RawInv, Rolling, LockInv, HoldsEngine, SyncPcs, EnginePcs
<1>8. LatchInv'
  BY DEF TypeOK, LatchInv, LockInv, HoldsEngine, SyncPcs, EnginePcs
<1>9. AckInv'
  BY DEF TypeOK, AckInv, InTruncate, SyncPcs, Durable, LockInv, HoldsEngine,
     EnginePcs
<1> QED BY <1>1, <1>2, <1>3, <1>4, <1>5, <1>6, <1>7, <1>8, <1>9

\* A failed statement starts its rollback, or abandons the handle.
LEMMA BeginRollbackStep ==
  ASSUME IInv, NEW c \in Conns, BeginRollback(c) PROVE IInv'
<1> USE ConstantsAssumption DEF IInv, BeginRollback, Goto, shared, flush,
   devices, heaps, counts
<1>1. TypeOK'
  <2>1. rollbacks' \in 0 .. MaxRollbacks
    BY DEF TypeOK
  <2>2. CASE Usable
    BY <2>1, <2>2 DEF TypeOK, ConnLabels
  <2>3. CASE ~Usable
    BY <2>1, <2>3 DEF TypeOK, ConnLabels
  <2>4. QED
    BY <2>2, <2>3
<1>2. LockInv' BY DEF TypeOK, LockInv, HoldsEngine, SyncPcs, EnginePcs
<1>3. BoundInv' /\ TxInv' /\ LogInv'
  BY DEF TypeOK, BoundInv, Top, Unregistered, SyncPcs, TxInv, Rolling, LogInv
<1>4. SettledInv' /\ RawInv' /\ LatchInv'
  BY DEF TypeOK, SettledInv, Settled, Durable, RawInv, Rolling, LatchInv
<1>5. AckInv'
  BY DEF TypeOK, AckInv, InTruncate, SyncPcs, Durable, LockInv, HoldsEngine,
     EnginePcs
<1> QED BY <1>1, <1>2, <1>3, <1>4, <1>5

\* The rollback cuts the statement's generations.
LEMMA DiscardTailStep ==
  ASSUME IInv, NEW c \in Conns, DiscardTail(c) PROVE IInv'
<1> USE ConstantsAssumption DEF IInv, DiscardTail, Goto, CutAt, shared, wal,
   flush, heaps, counts
<1>1. TypeOK' BY Zenon DEF TypeOK, Gens, ConnLabels
<1>2. LockInv' BY DEF TypeOK, LockInv, HoldsEngine, SyncPcs, EnginePcs
<1>3. BoundInv'
  BY Zenon DEF TypeOK, BoundInv, Top, Unregistered, SyncPcs, LockInv,
     HoldsEngine, EnginePcs
<1>4. TxInv'
  <2>2. /\ committed \subseteq 1 .. tx_start_len /\ heap \subseteq 1 .. tx_start_len
        /\ tx_start_len \in Nat /\ os \subseteq Nat
    BY DEF TypeOK, TxInv, Gens
  <2>3. committed' \intersect discarded' = {} /\ heap' \intersect discarded' = {}
    BY <2>2, CutSeparates, Zenon DEF TxInv
  <2>4. os' \intersect discarded' = {}
    BY <2>2, CutSeparates, Zenon DEF TxInv
  <2>5. QED
    BY <2>3, <2>4 DEF TypeOK, TxInv, LockInv, HoldsEngine, SyncPcs, EnginePcs,
       Rolling
<1>5. LogInv' /\ SettledInv' /\ RawInv'
  BY DEF TypeOK, LogInv, SyncPcs, SettledInv, Settled, Durable, RawInv, Rolling
<1>6. LatchInv' BY DEF TypeOK, LatchInv
<1>7. AckInv'
  BY DEF TypeOK, AckInv, InTruncate, SettledInv, Settled, Durable, TxInv,
     BoundInv, Top, Unregistered, LockInv, HoldsEngine, SyncPcs, EnginePcs,
     Full
<1> QED BY <1>1, <1>2, <1>3, <1>4, <1>5, <1>6, <1>7

\* The rollback reopens the catalog.
LEMMA ReopenStep ==
  ASSUME IInv, NEW c \in Conns, Reopen(c) PROVE IInv'
<1> USE ConstantsAssumption DEF IInv, Reopen, Goto, Readable, history, heaps,
   counts
<1> PICK read \in Readable : HeapFlush(read)
  OBVIOUS
<1>a. read \subseteq os
  BY Zenon DEF Readable
<1>b. ~bypass => read = os
  BY DEF RawInv, Rolling, Readable
<1> /\ heap \subseteq heap' /\ heap' \subseteq heap \union os
    /\ bypass' \in BOOLEAN /\ (bypass => bypass')
    /\ ~bypass' => os \subseteq heap'
    /\ UNCHANGED <<heap_lost, heap_failures>>
  BY <1>a, <1>b, FlushFillsHeap, Zenon DEF TypeOK
<1>1. TypeOK' BY Zenon DEF TypeOK, Gens, ConnLabels
<1>2. LockInv' BY DEF TypeOK, LockInv, HoldsEngine, SyncPcs, EnginePcs, Full
<1>3. BoundInv'
  BY DEF TypeOK, BoundInv, Top, Unregistered, SyncPcs, LockInv, HoldsEngine,
     EnginePcs
<1>4. TxInv'
  BY DEF TypeOK, TxInv, Top, Unregistered, Rolling, LockInv, HoldsEngine,
     SyncPcs, EnginePcs
<1>5. LogInv'
  BY DEF TypeOK, LogInv, BoundInv, Top, Unregistered, LockInv, HoldsEngine,
     SyncPcs, EnginePcs, Rolling, RawInv
<1>6. SettledInv'
  BY DEF TypeOK, SettledInv, Settled, Durable, BoundInv, Top, Unregistered,
     LockInv, HoldsEngine, SyncPcs, EnginePcs, LogInv, Rolling, RawInv
<1>7. RawInv' /\ LatchInv' BY DEF TypeOK, RawInv, Rolling, LatchInv
<1>8. AckInv'
  BY DEF TypeOK, AckInv, InTruncate, Durable, LockInv, HoldsEngine, SyncPcs,
     EnginePcs
<1> QED BY <1>1, <1>2, <1>3, <1>4, <1>5, <1>6, <1>7, <1>8

\* The reopening fails and abandons the handle.
LEMMA ReopenFailsStep ==
  ASSUME IInv, NEW c \in Conns, ReopenFails(c) PROVE IInv'
<1> USE ConstantsAssumption DEF IInv, ReopenFails, Goto, shared, wal, flush
<1> /\ heap_lost' \subseteq heap_lost \union os
    /\ heap_failures' \in 0 .. MaxHeapFailures
    /\ UNCHANGED <<heap, bypass>>
  BY FlushFailureDrops DEF TypeOK
<1>1. TypeOK' BY DEF TypeOK, Gens, ConnLabels
<1>2. LockInv' BY DEF TypeOK, LockInv, HoldsEngine, SyncPcs, EnginePcs
<1>3. BoundInv' /\ TxInv' /\ LogInv'
  BY DEF TypeOK, BoundInv, Top, Unregistered, SyncPcs, TxInv, Rolling, LogInv
<1>4. SettledInv' /\ RawInv' /\ LatchInv'
  BY DEF TypeOK, SettledInv, Settled, Durable, RawInv, Rolling, LatchInv
<1>5. AckInv'
  BY DEF TypeOK, AckInv, InTruncate, SyncPcs, Durable, LockInv, HoldsEngine,
     EnginePcs
<1> QED BY <1>1, <1>2, <1>3, <1>4, <1>5

\* The leader's fsync: in Full mode the latch keeps it off dropped pages.
LEMMA LeaderFsyncStep ==
  ASSUME IInv, NEW c \in Conns, LeaderFsync(c) PROVE IInv'
<1> USE ConstantsAssumption DEF IInv, LeaderFsync, Goto, shared, wal, flush,
   heaps, counts
<1>a. stable \subseteq stable' /\ stable' \subseteq stable \union os
  BY DEF FsyncWrites
<1>b. lost' \subseteq lost \union (os \ stable)
  BY DropsFromLog DEF FsyncFails
<1>c. failures' \in 0 .. MaxFsyncFailures
  BY DEF TypeOK, FsyncFails
<1>1. TypeOK'
  BY <1>a, <1>b, <1>c, Zenon DEF TypeOK, ConnLabels
<1>2. LockInv' BY DEF TypeOK, LockInv, HoldsEngine, SyncPcs, EnginePcs
<1>3. BoundInv'
  BY <1>b DEF TypeOK, BoundInv, Top, Unregistered, SyncPcs
<1>4. TxInv' /\ LogInv' /\ LatchInv'
  BY DEF TypeOK, TxInv, Top, Unregistered, Rolling, LogInv, SyncPcs, LatchInv
<1>5. SettledInv'
  <2>1. \A g : Settled(g) => Settled(g)'
    BY <1>a, SettledGrows
  <2>2. CASE FsyncWrites(cover[c]) /\ bypass' = (bypass \/ (SyncMode = "Normal" /\ os \intersect lost # {}))
    <3> USE <2>2 DEF FsyncWrites
    <3>1. ~bypass' => os \intersect lost = {}
      BY Zenon DEF LatchInv, LockInv, TypeOK, Full
    <3>2. ~bypass' => \A g \in 1 .. cover[c] : Settled(g)'
      BY <3>1 DEF LogInv, BoundInv, TypeOK, Settled, Durable
    <3>3. QED
      BY <2>1, <3>2 DEF SettledInv, TypeOK
  <2>3. CASE FsyncFails /\ pc' = [pc EXCEPT ![c] = "poison"] /\ UNCHANGED bypass
    BY <2>1, <2>3 DEF SettledInv, TypeOK
  <2>4. QED
    BY <2>2, <2>3
<1>6. RawInv'
  BY <1>a, <1>b DEF TypeOK, RawInv, Rolling
<1>7. AckInv'
  BY <1>a DEF TypeOK, AckInv, InTruncate, Durable, SyncPcs
<1> QED BY <1>1, <1>2, <1>3, <1>4, <1>5, <1>6, <1>7

\* The sync_data of the rollback.
LEMMA RawSyncStep ==
  ASSUME IInv, NEW c \in Conns, RawSync(c) PROVE IInv'
<1> USE ConstantsAssumption DEF IInv, RawSync, Goto, FsyncDrops, shared,
   flush, heaps, counts
<1>a. lost' \subseteq lost \union os
  BY DropsFromLog
<1>b. stable' \subseteq stable \union os
  OBVIOUS
<1>1. TypeOK'
  <2>1. pc' \in [Conns -> ConnLabels] /\ synced_len' \in 0 .. MaxGen
    BY DEF TypeOK, ConnLabels
  <2>2. untrusted' \in BOOLEAN /\ bypass' \in BOOLEAN
    BY Zenon DEF TypeOK
  <2>3. QED
    BY <1>a, <1>b, <2>1, <2>2 DEF TypeOK
<1>2. LockInv' BY DEF TypeOK, LockInv, HoldsEngine, SyncPcs, EnginePcs
<1>3. BoundInv'
  BY <1>a DEF TypeOK, BoundInv, Top, Unregistered, SyncPcs
<1>4. TxInv'
  BY DEF TypeOK, TxInv, Top, Unregistered, Rolling, LockInv, HoldsEngine,
     SyncPcs, EnginePcs
<1>5. LogInv' BY DEF TypeOK, LogInv, SyncPcs, LockInv, HoldsEngine, EnginePcs
<1>6. SettledInv' /\ RawInv' /\ LatchInv'
  BY DEF TypeOK, SettledInv, Settled, Durable, RawInv, Rolling, LatchInv
<1>7. AckInv'
  BY DEF TypeOK, AckInv, InTruncate, SyncPcs, Durable, LockInv, HoldsEngine,
     EnginePcs
<1> QED BY <1>1, <1>2, <1>3, <1>4, <1>5, <1>6, <1>7

\* The flusher looks for new generations.
LEMMA FlusherTickStep ==
  ASSUME IInv, FlusherTick PROVE IInv'
<1> USE ConstantsAssumption DEF IInv, FlusherTick, SeesNewGens, shared, wal,
   threads, devices, history, heaps, counts
<1>1. TypeOK' BY DEF TypeOK, Gens, ConnLabels
<1>2. LockInv' BY DEF TypeOK, LockInv, HoldsEngine, SyncPcs, EnginePcs
<1>3. BoundInv' /\ TxInv' /\ LogInv'
  BY DEF TypeOK, BoundInv, Top, Unregistered, SyncPcs, TxInv, Rolling, LogInv
<1>4. SettledInv' /\ RawInv' /\ LatchInv' /\ AckInv'
  BY DEF TypeOK, SettledInv, Settled, Durable, RawInv, Rolling, LatchInv,
     AckInv, InTruncate, SyncPcs
<1> QED BY <1>1, <1>2, <1>3, <1>4

\* The flusher's fsync.
LEMMA FlusherFsyncStep ==
  ASSUME IInv, FlusherFsync PROVE IInv'
<1> USE ConstantsAssumption DEF IInv, FlusherFsync, shared, wal, threads,
   heaps, counts
<1>a. stable \subseteq stable' /\ stable' \subseteq stable \union os
  BY DEF FsyncWrites
<1>b. lost' \subseteq lost \union (os \ stable)
  BY DropsFromLog DEF FsyncFails
<1>c. failures' \in 0 .. MaxFsyncFailures
  BY DEF TypeOK, FsyncFails
<1>1. TypeOK'
  BY <1>a, <1>b, <1>c, Zenon DEF TypeOK, ConnLabels
<1>2. LockInv' BY DEF TypeOK, LockInv, HoldsEngine, SyncPcs, EnginePcs
<1>3. BoundInv'
  BY <1>b DEF TypeOK, BoundInv, Top, Unregistered, SyncPcs
<1>4. TxInv' /\ LogInv'
  BY DEF TypeOK, TxInv, Top, Unregistered, Rolling, LogInv, SyncPcs
<1>5. SettledInv'
  <2>1. \A g : Settled(g) => Settled(g)'
    BY <1>a, SettledGrows
  <2>2. CASE FsyncWrites(flusher_d) /\ bypass' = (bypass \/ os \intersect lost # {})
    <3> USE <2>2 DEF FsyncWrites
    <3>1. ~bypass' => os \intersect lost = {}
      BY Zenon DEF TypeOK
    <3>2. ~bypass' => \A g \in 1 .. flusher_d : Settled(g)'
      BY <3>1 DEF LogInv, BoundInv, TypeOK, Settled, Durable
    <3>3. QED
      BY <2>1, <3>2 DEF SettledInv, TypeOK
  <2>3. CASE FsyncFails /\ flusher' = "poison" /\ UNCHANGED bypass
    BY <2>1, <2>3 DEF SettledInv, TypeOK
  <2>4. QED
    BY <2>2, <2>3
<1>6. RawInv'
  BY <1>a, <1>b DEF TypeOK, RawInv, Rolling
<1>7. LatchInv'
  BY DEF TypeOK, LatchInv, LockInv, HoldsEngine, SyncPcs, EnginePcs
<1>8. AckInv'
  BY DEF TypeOK, AckInv, InTruncate, SyncPcs, Durable, LockInv, HoldsEngine,
     EnginePcs
<1> QED BY <1>1, <1>2, <1>3, <1>4, <1>5, <1>6, <1>7, <1>8

\* The flusher publishes what its fsync covered.
LEMMA FlusherPublishStep ==
  ASSUME IInv, FlusherPublish PROVE IInv'
<1> USE ConstantsAssumption DEF IInv, FlusherPublish, MaxOf, wal, threads,
   devices, history, heaps, counts
<1>1. TypeOK' BY DEF TypeOK, Gens, ConnLabels
<1>2. LockInv' BY DEF TypeOK, LockInv, HoldsEngine, SyncPcs, EnginePcs
<1>3. BoundInv' /\ TxInv' /\ LogInv'
  BY DEF TypeOK, BoundInv, Top, Unregistered, SyncPcs, TxInv, Rolling, LogInv
<1>4. SettledInv' /\ RawInv' /\ LatchInv' /\ AckInv'
  BY DEF TypeOK, SettledInv, Settled, Durable, RawInv, Rolling, LatchInv,
     AckInv, InTruncate, SyncPcs
<1> QED BY <1>1, <1>2, <1>3, <1>4

\* The flusher latches the poison.
LEMMA FlusherPoisonStep ==
  ASSUME IInv, FlusherPoison PROVE IInv'
<1> USE ConstantsAssumption DEF IInv, FlusherPoison, wal, threads, devices,
   history, heaps, counts
<1>1. TypeOK' BY DEF TypeOK, Gens, ConnLabels
<1>2. LockInv' BY DEF TypeOK, LockInv, HoldsEngine, SyncPcs, EnginePcs
<1>3. BoundInv' /\ TxInv' /\ LogInv'
  BY DEF TypeOK, BoundInv, Top, Unregistered, SyncPcs, TxInv, Rolling, LogInv
<1>4. SettledInv' /\ RawInv' /\ AckInv'
  BY DEF TypeOK, SettledInv, Settled, Durable, RawInv, Rolling, AckInv,
     InTruncate, SyncPcs
<1>5. LatchInv'
  BY DEF TypeOK, LatchInv, LockInv, HoldsEngine, SyncPcs, EnginePcs
<1> QED BY <1>1, <1>2, <1>3, <1>4, <1>5

\* A stuttering step.
LEMMA StutterStep == ASSUME IInv, UNCHANGED vars PROVE IInv'
<1> USE DEF vars, shared, wal, threads, flush, devices, history, heaps, counts
<1>1. TypeOK' /\ LockInv' /\ LogInv' /\ RawInv'
  BY DEF IInv, TypeOK, LockInv, HoldsEngine, LogInv, RawInv, Rolling
<1>2. BoundInv' /\ TxInv' /\ LatchInv'
  BY DEF IInv, BoundInv, Top, Unregistered, TxInv, Rolling, LatchInv
<1>3. SettledInv' /\ AckInv'
  BY DEF IInv, SettledInv, Settled, Durable, AckInv, InTruncate
<1> QED BY <1>1, <1>2, <1>3 DEF IInv

\* The initial state satisfies the invariant.
LEMMA InitIInv == Init => IInv
<1> SUFFICES ASSUME Init PROVE IInv
  OBVIOUS
<1> USE ConstantsAssumption DEF Init, heaps, counts
<1>1. TypeOK
  <2>1. pc \in [Conns -> ConnLabels] /\ flusher \in {"tick", "exit"}
    BY DEF ConnLabels
  <2>2. /\ 0 \in 0 .. MaxGen /\ 0 \in 0 .. MaxFsyncFailures
        /\ 0 \in 0 .. MaxHeapFailures /\ 0 \in 0 .. MaxRollbacks
    OBVIOUS
  <2>3. QED
    BY <2>1, <2>2, Zenon DEF TypeOK
<1>2. LockInv
  BY DEF LockInv, HoldsEngine, SyncPcs, EnginePcs, Full
<1>3. BoundInv /\ TxInv
  BY DEF BoundInv, Top, Unregistered, TxInv
<1>4. LogInv /\ SettledInv /\ RawInv
  BY DEF LogInv, SettledInv, RawInv, Rolling, SyncPcs
<1>5. LatchInv /\ AckInv
  BY DEF LatchInv, AckInv, InTruncate, SyncPcs
<1> QED BY <1>1, <1>2, <1>3, <1>4, <1>5 DEF IInv

\* Every step of the system preserves the invariant.
LEMMA NextIInv == IInv /\ [Next]_vars => IInv'
<1> SUFFICES ASSUME IInv, [Next]_vars PROVE IInv'
  OBVIOUS
<1>1. ASSUME NEW c \in Conns, BeginStatement(c) PROVE IInv'
  BY <1>1, BeginStatementStep
<1>2. ASSUME NEW c \in Conns, SyncUntil(c) PROVE IInv'
  BY <1>2, SyncFastPathStep, SyncLockStep, SyncElectStep, LeaderFsyncStep,
     LeaderPublishStep, LeaderPoisonStep DEF SyncUntil
<1>3. ASSUME NEW c \in Conns, ConnStep(c) PROVE IInv'
  BY <1>2, <1>3, ReliefFlushStep, ReliefFailsStep, FlushToOsStep, FlushRefusedStep,
     RegisterGenStep, TakeTicketStep, CheckpointFlushStep, CheckpointFailsStep, TruncateLogStep,
     ReplaceFileStep, BeginRollbackStep, DiscardTailStep, RawSyncStep,
     ReopenStep, ReopenFailsStep DEF ConnStep
<1>4. ASSUME FlusherStep PROVE IInv'
  BY <1>4, FlusherTickStep, FlusherFsyncStep, FlusherPublishStep,
     FlusherPoisonStep DEF FlusherStep
<1>5. CASE UNCHANGED vars
  BY <1>5, StutterStep
<1> QED BY <1>1, <1>3, <1>4, <1>5 DEF Next

\* The inductive invariant holds in every reachable state.
THEOREM IInvHolds == Spec => []IInv
BY InitIInv, NextIInv, PTL DEF Spec

\* Type correctness: counters stay within the bounds and every thread is at a
\* label of the code.
THEOREM TypeCorrect == Spec => []TypeOK
<1>1. IInv => TypeOK
  BY DEF IInv
<1> QED BY <1>1, IInvHolds, PTL

\* An acknowledged commit survives a power loss at every later moment, unless
\* an fsync that does not go through the poison latch of sync_until met pages
\* a failed fsync had dropped.
THEOREM AckedCommitsAreDurable == Spec => []AckedIsDurableUnlessBypassed
<1>1. IInv => AckedIsDurableUnlessBypassed
  BY DEF IInv, AckInv, AckedIsDurableUnlessBypassed, AckedIsDurable, Full
<1> QED BY <1>1, IInvHolds, PTL

\* A rollback cuts only its own statement out of the log, and a checkpoint only
\* what it flushed, until an fsync outside the poison latch (of a discard path
\* or of the heap files) succeeds over dropped pages.
THEOREM CommittedGenerationsAreKept == Spec => []CommittedIsKept
<1>1. IInv => CommittedIsKept
  BY DEF IInv, BoundInv, TxInv, LogInv, CommittedIsKept
<1> QED BY <1>1, IInvHolds, PTL

\* No heap file ever contains a rolled-back generation.
THEOREM RolledBackStaysOut == Spec => []DiscardedNeverInHeap
<1>1. IInv => DiscardedNeverInHeap
  BY DEF IInv, TxInv, DiscardedNeverInHeap
<1> QED BY <1>1, IInvHolds, PTL

\* Only rows in the log are ever written to the heap files.
LEMMA HeapGrowsFromLog == ASSUME Next PROVE heap' \subseteq heap \union os
<1> USE DEF devices, heaps, counts
<1>1. ASSUME NEW c \in Conns, SyncUntil(c) PROVE UNCHANGED heap
  BY <1>1 DEF SyncUntil, SyncFastPath, SyncLock, SyncElect, LeaderFsync,
     LeaderPublish, LeaderPoison
<1>2. ASSUME NEW c \in Conns, ConnStep(c) PROVE heap' \subseteq heap \union os
  BY <1>1, <1>2 DEF ConnStep, HeapFlush, HeapFlushFails, ReliefFlush, ReliefFails,
     CheckpointFails, ReopenFails, FlushToOs, FlushRefused, RegisterGen,
     TakeTicket, CheckpointFlush, TruncateLog, ReplaceFile, BeginRollback,
     DiscardTail, RawSync, Reopen, Readable
<1>3. FlusherStep => UNCHANGED heap
  BY DEF FlusherStep, FlusherTick, FlusherFsync, FlusherPublish, FlusherPoison
<1>4. ASSUME NEW c \in Conns, BeginStatement(c) PROVE UNCHANGED heap
  BY <1>4 DEF BeginStatement
<1> QED BY <1>2, <1>3, <1>4 DEF Next

\* The pressure path of begin_statement_transaction never writes a heap page
\* ahead of the log records of its rows, until an fsync outside the poison
\* latch has succeeded over dropped pages.
THEOREM ReliefIsWriteAhead == Spec => ReliefFollowsLog
<1> DEFINE A == \A c \in Conns :
                  (pc[c] = "relief" /\ pc'[c] = "exec" /\ ~bypass)
                    => \A g \in heap' \ heap : Durable(g)
<1>1. ASSUME IInv, [Next]_vars PROVE [A]_vars
  <2>1. SUFFICES ASSUME Next, NEW c \in Conns, pc[c] = "relief",
                        pc'[c] = "exec", ~bypass, NEW g \in heap' \ heap
                 PROVE  Durable(g)
    BY <1>1
  <2>2. g \in os
    BY <2>1, HeapGrowsFromLog
  <2>3. g \in 1 .. synced_gen /\ g \notin discarded
    BY <1>1, <2>1, <2>2
       DEF IInv, TypeOK, BoundInv, Top, Unregistered, TxInv, LockInv,
           HoldsEngine, EnginePcs
  <2>4. QED
    BY <1>1, <2>1, <2>3 DEF IInv, SettledInv, Settled
<1>2. QED
  BY <1>1, IInvHolds, PTL DEF Spec, ReliefFollowsLog
=============================================================================
