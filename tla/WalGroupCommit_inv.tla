------------------------- MODULE WalGroupCommit_inv -------------------------
(***************************************************************************)
(* The inductive invariant of WalGroupCommit, and the proofs that the      *)
(* steps of sync_until and of a statement preserve it.                     *)
(***************************************************************************)
EXTENDS WalGroupCommit, TLAPS

Full == SyncMode = "Full"

\* The labels of sync_until, and those a thread can only be at while it holds
\* the engine write lock.
SyncPcs == {"check", "lock", "locked", "fsync", "publish", "poison"}
EnginePcs == {"exec", "register", "committed", "ticket", "relief", "cut",
              "settle", "discard", "resync", "reopen", "unflushed"}

HoldsEngine(c) ==
  \/ pc[c] \in EnginePcs
  \/ pc[c] \in SyncPcs /\ ret[c] \in {"relief", "truncate"}

\* Who holds which lock, and what each pending return can be.
LockInv ==
  /\ \A c \in Conns : HoldsEngine(c) <=> engine = c
  /\ \A c \in Conns :
       sync_file = c <=> pc[c] \in {"locked", "fsync", "publish", "poison"}
  /\ \A c \in Conns :
       /\ pc[c] \in SyncPcs => ret[c] \in {"ack", "relief", "truncate"}
       /\ pc[c] = "settle" => ret[c] \in {"truncate", "discard", "pending"}
       /\ pc[c] = "register" => ret[c] \in {"part", "commit"}
       /\ pc[c] = "resync" => ret[c] \in {"discard", "pending"}
  /\ untrusted => engine = NoConn
  /\ Full => flusher = "exit"

\* A thread that has written a generation to the OS but not yet registered it.
Unregistered == \E c \in Conns : pc[c] = "register"

Top == IF Unregistered THEN dirty_gen + 1 ELSE dirty_gen

\* No counter and no device is ahead of the generations written.
BoundInv ==
  /\ synced_gen <= dirty_gen /\ deferred_gen <= dirty_gen
  /\ flusher_d <= dirty_gen /\ tx_start_len <= dirty_gen
  /\ \A c \in Conns :
       /\ gen[c] <= dirty_gen /\ cover[c] <= dirty_gen
       /\ pc[c] \in {"fsync", "publish"} => gen[c] <= cover[c]
       /\ pc[c] \in SyncPcs /\ ret[c] = "relief" => gen[c] = dirty_gen
       /\ pc[c] = "relief" => synced_gen = dirty_gen
  /\ Top <= MaxGen
  /\ os \subseteq 1 .. Top /\ lost \subseteq 1 .. Top
  /\ heap \subseteq 1 .. dirty_gen
  /\ committed \subseteq 1 .. dirty_gen /\ discarded \subseteq 1 .. dirty_gen
  /\ Unregistered => dirty_gen + 1 \in os

Rolling(c) ==
  \/ pc[c] \in {"resync", "reopen"}
  \/ pc[c] = "settle" /\ ret[c] \in {"discard", "pending"}

\* The rollback boundary separates the running statement's generations from
\* everything that is committed, discarded or in the heap files.
TxInv ==
  /\ (~untrusted /\ \A c \in Conns : ~Rolling(c)) => synced_len = Top
  /\ \A c \in Conns : pc[c] \in {"exec", "register", "discard"} =>
       /\ committed \subseteq 1 .. tx_start_len
       /\ discarded \subseteq 1 .. tx_start_len
       /\ heap \subseteq 1 .. tx_start_len
  /\ committed \intersect discarded = {}
  /\ heap \intersect discarded = {}
  /\ os \intersect discarded = {}

\* Generation g needs no fsync any more.
Settled(g) == Durable(g) \/ g \in discarded

\* No generation is ever in none of log, heap and discarded, and the log is cut
\* only when the heap files contain it, or a heap fsync was passed over.
LogInv ==
  /\ \A c \in Conns :
       (pc[c] = "cut" \/ (pc[c] \in SyncPcs /\ ret[c] = "truncate"))
         => (~bypass => os \subseteq heap)
  /\ \A c \in Conns : pc[c] = "settle" /\ ret[c] = "truncate" => os = {}
  /\ ~bypass => \A g \in 1 .. dirty_gen : g \in os \union heap \union discarded

\* What synced_gen and an fsync about to be published claim is true.
SettledInv ==
  ~bypass =>
    /\ \A g \in 1 .. synced_gen : Settled(g)
    /\ \A c \in Conns : pc[c] = "publish" => \A g \in 1 .. cover[c] : Settled(g)
    /\ flusher = "publish" => \A g \in 1 .. flusher_d : Settled(g)

\* After the sync_data of a rollback the rest of the log is stable.
RawInv ==
  ~bypass =>
    \A c \in Conns : Rolling(c) /\ pc[c] # "resync" =>
      os \subseteq stable /\ os \intersect lost = {}

\* Full mode: once pages are dropped, every leader is stopped by the latch.
LatchInv ==
  Full =>
    /\ \A c \in Conns : pc[c] = "fsync" => ~sync_poisoned
    /\ (~bypass /\ os \intersect lost # {})
         => (sync_poisoned \/ \E c \in Conns : pc[c] = "poison")

InTruncate(c) ==
  \/ pc[c] \in SyncPcs \union {"settle"} /\ ret[c] = "truncate"
  \/ pc[c] \in {"cut", "ticket"}

\* What a thread is about to acknowledge is committed, and durable once no
\* ticket is left to wait for.
AckInv ==
  /\ ~Full => deferred_gen = 0
  /\ \A c \in Conns : pc[c] \in {"committed", "unflushed"} =>
       /\ gen[c] \in committed /\ gen[c] \in os
       /\ deferred_gen \in {0, gen[c]}
       /\ Full => deferred_gen # 0
  /\ \A c \in Conns : InTruncate(c) =>
       /\ gen[c] \in committed /\ deferred_gen = 0
       /\ ~bypass => gen[c] \in heap
  /\ \A c \in Conns : pc[c] \in SyncPcs /\ ret[c] = "ack" => gen[c] \in committed
  /\ acked \subseteq committed
  /\ (Full /\ ~bypass) => \A g \in acked : Durable(g)

IInv ==
  /\ TypeOK
  /\ LockInv
  /\ BoundInv
  /\ TxInv
  /\ LogInv
  /\ SettledInv
  /\ RawInv
  /\ LatchInv
  /\ AckInv

-----------------------------------------------------------------------------
(* Sets of generations around a boundary.                                  *)

\* A cut at k separates what is kept from what is dropped.
LEMMA CutSeparates ==
  ASSUME NEW k \in Nat, NEW S \in SUBSET Nat, NEW A, A \subseteq 1 .. k
  PROVE  /\ \A g \in A : g \notin {h \in S : h > k}
         /\ \A g \in {h \in S : h <= k} : g \notin {h \in S : h > k}
  OBVIOUS

\* The generations of one more commit.
LEMMA IntervalGrows ==
  ASSUME NEW n \in Nat, NEW k \in 0 .. n, NEW A, A \subseteq 1 .. n
  PROVE  /\ A \subseteq 1 .. n + 1 /\ (k + 1 .. n + 1) \subseteq 1 .. n + 1
         /\ n + 1 \in k + 1 .. n + 1
         /\ \A g \in 1 .. k : g \notin k + 1 .. n + 1
  OBVIOUS

\* A settled generation stays settled when more of the log becomes stable.
LEMMA SettledGrows ==
  ASSUME UNCHANGED <<os, heap, discarded>>, stable \subseteq stable'
  PROVE  \A g : Settled(g) => Settled(g)'
  BY Zenon DEF Settled, Durable

\* A failed fsync drops only pages of the log that are not stable yet.
LEMMA DropsFromLog ==
  ASSUME FsyncDrops PROVE lost' \subseteq lost \union (os \ stable)
  BY DEF FsyncDrops

\* A flush of the heap files writes what it is given, unless it passes over
\* dropped pages, and then bypass records it.
LEMMA FlushFillsHeap ==
  ASSUME NEW gs, HeapFlush(gs), bypass \in BOOLEAN
  PROVE  /\ heap \subseteq heap' /\ heap' \subseteq heap \union gs
         /\ bypass' \in BOOLEAN /\ (bypass => bypass')
         /\ ~bypass' => gs \subseteq heap'
         /\ UNCHANGED <<heap_lost, heap_failures>>
<1>1. heap \subseteq heap' /\ heap' \subseteq heap \union gs
  BY Zenon DEF HeapFlush
<1>2. ~bypass' => gs \subseteq heap'
  BY Zenon DEF HeapFlush
<1>3. bypass' \in BOOLEAN /\ (bypass => bypass')
  BY Zenon DEF HeapFlush
<1> QED BY <1>1, <1>2, <1>3 DEF HeapFlush

\* A failed one drops pages of the log's rows and changes nothing else.
LEMMA FlushFailureDrops ==
  ASSUME HeapFlushFails, heap_failures \in 0 .. MaxHeapFailures
  PROVE  /\ heap_lost' \subseteq heap_lost \union os
         /\ heap_failures' \in 0 .. MaxHeapFailures
         /\ UNCHANGED <<heap, bypass>>
<1>1. heap_lost' \subseteq heap_lost \union os
  BY Zenon DEF HeapFlushFails
<1>2. heap_failures' \in 0 .. MaxHeapFailures
  BY ConstantsAssumption, SMT DEF HeapFlushFails
<1> QED BY <1>1, <1>2 DEF HeapFlushFails

-----------------------------------------------------------------------------
(* One lemma per action: it preserves every part of the invariant.         *)

\* sync_until's fast path answers only for settled generations.
LEMMA SyncFastPathStep ==
  ASSUME IInv, NEW c \in Conns, SyncFastPath(c) PROVE IInv'
<1> USE ConstantsAssumption DEF IInv, SyncFastPath, Goto, SyncReturnsOk,
   shared, wal, flush, devices, heaps, counts
<1>1. TypeOK'
  BY DEF TypeOK, LockInv, SyncPcs, AckInv, BoundInv, Gens, ConnLabels
<1>2. LockInv' BY DEF TypeOK, LockInv, HoldsEngine, SyncPcs, EnginePcs
<1>3. BoundInv'
  BY DEF TypeOK, BoundInv, Top, Unregistered, SyncPcs, LockInv, HoldsEngine,
     EnginePcs
<1>4. TxInv'
  BY DEF TypeOK, TxInv, Top, Unregistered, Rolling, LockInv, HoldsEngine,
     SyncPcs, EnginePcs
<1>5. LogInv' BY DEF TypeOK, LogInv, SyncPcs, LockInv, HoldsEngine, EnginePcs
<1>6. SettledInv'
  BY DEF TypeOK, SettledInv, Settled, Durable, LockInv, HoldsEngine, SyncPcs,
     EnginePcs
<1>7. RawInv'
  BY DEF TypeOK, RawInv, Rolling, LockInv, HoldsEngine, SyncPcs, EnginePcs
<1>8. LatchInv'
  BY DEF TypeOK, LatchInv, LockInv, HoldsEngine, SyncPcs, EnginePcs
<1>9. AckInv'
  BY DEF TypeOK, AckInv, InTruncate, SettledInv, Settled, Durable, TxInv,
     BoundInv, Top, Unregistered, LockInv, HoldsEngine, SyncPcs, EnginePcs,
     Full
<1> QED BY <1>1, <1>2, <1>3, <1>4, <1>5, <1>6, <1>7, <1>8, <1>9

\* Taking the leader lock.
LEMMA SyncLockStep ==
  ASSUME IInv, NEW c \in Conns, SyncLock(c) PROVE IInv'
<1> USE ConstantsAssumption DEF IInv, SyncLock, Goto, wal, flush, devices,
   history, heaps, counts
<1>1. TypeOK' BY DEF TypeOK, Gens, ConnLabels
<1>2. LockInv' BY DEF TypeOK, LockInv, HoldsEngine, SyncPcs, EnginePcs
<1>3. BoundInv' /\ TxInv' /\ LogInv'
  BY DEF TypeOK, BoundInv, Top, Unregistered, SyncPcs, TxInv, Rolling, LogInv
<1>4. SettledInv' /\ RawInv' /\ LatchInv' /\ AckInv'
  BY DEF TypeOK, SettledInv, Settled, Durable, RawInv, Rolling, LatchInv,
     AckInv, InTruncate, SyncPcs
<1> QED BY <1>1, <1>2, <1>3, <1>4

\* Under the leader lock: answered, refused, or elected.
LEMMA SyncElectStep ==
  ASSUME IInv, NEW c \in Conns, SyncElect(c) PROVE IInv'
<1> USE ConstantsAssumption DEF IInv, SyncElect, Goto, SyncReturnsOk,
   SyncReturnsErr, MayFsync, wal, flush, devices, heaps, counts
<1>1. TypeOK'
  BY DEF TypeOK, LockInv, SyncPcs, AckInv, BoundInv, Gens, ConnLabels
<1>2. LockInv' BY DEF TypeOK, LockInv, HoldsEngine, SyncPcs, EnginePcs
<1>3. BoundInv'
  BY DEF TypeOK, BoundInv, Top, Unregistered, SyncPcs, LockInv, HoldsEngine,
     EnginePcs
<1>4. TxInv'
  BY DEF TypeOK, TxInv, Top, Unregistered, Rolling, LockInv, HoldsEngine,
     SyncPcs, EnginePcs
<1>5. LogInv' BY DEF TypeOK, LogInv, SyncPcs, LockInv, HoldsEngine, EnginePcs
<1>6. SettledInv'
  BY DEF TypeOK, SettledInv, Settled, Durable, LockInv, HoldsEngine, SyncPcs,
     EnginePcs
<1>7. RawInv'
  BY DEF TypeOK, RawInv, Rolling, LockInv, HoldsEngine, SyncPcs, EnginePcs
<1>8. LatchInv'
  BY DEF TypeOK, LatchInv, LockInv, HoldsEngine, SyncPcs, EnginePcs
<1>9. AckInv'
  BY DEF TypeOK, AckInv, InTruncate, SettledInv, Settled, Durable, TxInv,
     BoundInv, Top, Unregistered, LockInv, HoldsEngine, SyncPcs, EnginePcs,
     Full
<1> QED BY <1>1, <1>2, <1>3, <1>4, <1>5, <1>6, <1>7, <1>8, <1>9

\* The leader publishes what its fsync covered.
LEMMA LeaderPublishStep ==
  ASSUME IInv, NEW c \in Conns, LeaderPublish(c) PROVE IInv'
<1> USE ConstantsAssumption DEF IInv, LeaderPublish, Goto, SyncReturnsOk,
   MaxOf, wal, flush, devices, heaps, counts
<1>1. TypeOK'
  BY DEF TypeOK, LockInv, SyncPcs, AckInv, BoundInv, Gens, ConnLabels
<1>2. LockInv' BY DEF TypeOK, LockInv, HoldsEngine, SyncPcs, EnginePcs
<1>3. BoundInv'
  BY DEF TypeOK, BoundInv, Top, Unregistered, SyncPcs, LockInv, HoldsEngine,
     EnginePcs
<1>4. TxInv'
  BY DEF TypeOK, TxInv, Top, Unregistered, Rolling, LockInv, HoldsEngine,
     SyncPcs, EnginePcs
<1>5. LogInv' BY DEF TypeOK, LogInv, SyncPcs, LockInv, HoldsEngine, EnginePcs
<1>6. SettledInv' BY DEF TypeOK, SettledInv, Settled, Durable
<1>7. RawInv'
  BY DEF TypeOK, RawInv, Rolling, LockInv, HoldsEngine, SyncPcs, EnginePcs
<1>8. LatchInv'
  BY DEF TypeOK, LatchInv, LockInv, HoldsEngine, SyncPcs, EnginePcs
<1>9. AckInv'
  <2>1. (Full /\ ~bypass) => \A g \in acked' : Durable(g)'
    <3>1. ret[c] = "ack" /\ ~bypass => Durable(gen[c])
      BY DEF TypeOK, AckInv, BoundInv, SettledInv, Settled, SyncPcs, TxInv
    <3>2. QED
      BY <3>1 DEF AckInv, Durable
  <2>2. QED
    BY <2>1 DEF TypeOK, AckInv, InTruncate, LockInv, SyncPcs, Durable
<1> QED BY <1>1, <1>2, <1>3, <1>4, <1>5, <1>6, <1>7, <1>8, <1>9

\* The leader latches the poison before it releases the lock.
LEMMA LeaderPoisonStep ==
  ASSUME IInv, NEW c \in Conns, LeaderPoison(c) PROVE IInv'
<1> USE ConstantsAssumption DEF IInv, LeaderPoison, Goto, SyncReturnsErr, wal,
   flush, devices, heaps, counts
<1>1. TypeOK' BY DEF TypeOK, Gens, ConnLabels
<1>2. LockInv' BY DEF TypeOK, LockInv, HoldsEngine, SyncPcs, EnginePcs
<1>3. BoundInv' /\ TxInv' /\ LogInv'
  BY DEF TypeOK, BoundInv, Top, Unregistered, SyncPcs, TxInv, Rolling, LogInv
<1>4. SettledInv' /\ RawInv' /\ AckInv'
  BY DEF TypeOK, SettledInv, Settled, Durable, RawInv, Rolling, AckInv,
     InTruncate, SyncPcs
<1>5. LatchInv'
  BY DEF TypeOK, LatchInv, LockInv, HoldsEngine, SyncPcs, EnginePcs
<1> QED BY <1>1, <1>2, <1>3, <1>4, <1>5

\* A statement takes the engine lock and its rollback boundary.
LEMMA BeginStatementStep ==
  ASSUME IInv, NEW c \in Conns, BeginStatement(c) PROVE IInv'
<1> USE ConstantsAssumption DEF IInv, BeginStatement, Goto, Usable,
   RollbackBoundary, EveryGeneration, shared, flush, devices, history, heaps,
   counts
<1>1. TypeOK' BY DEF TypeOK, Gens, ConnLabels
<1>2. LockInv' BY DEF TypeOK, LockInv, HoldsEngine, SyncPcs, EnginePcs
<1>3. BoundInv'
  BY DEF TypeOK, BoundInv, Top, Unregistered, LockInv, HoldsEngine, SyncPcs,
     EnginePcs, TxInv, Rolling
<1>4. TxInv'
  BY DEF TypeOK, TxInv, BoundInv, Top, Unregistered, LockInv, HoldsEngine,
     SyncPcs, EnginePcs, Rolling
<1>5. LogInv' /\ SettledInv' /\ RawInv'
  BY DEF TypeOK, LogInv, SyncPcs, SettledInv, Settled, Durable, RawInv, Rolling
<1>6. LatchInv' /\ AckInv'
  BY DEF TypeOK, LatchInv, AckInv, InTruncate, SyncPcs, Durable
<1> QED BY <1>1, <1>2, <1>3, <1>4, <1>5, <1>6

\* The pressure path writes the heap pages.
LEMMA ReliefFlushStep ==
  ASSUME IInv, NEW c \in Conns, ReliefFlush(c) PROVE IInv'
<1> USE ConstantsAssumption DEF IInv, ReliefFlush, Goto, RollbackBoundary,
   shared, flush, history, heaps, counts
<1> /\ heap \subseteq heap' /\ heap' \subseteq heap \union os
    /\ bypass' \in BOOLEAN /\ (bypass => bypass')
    /\ ~bypass' => os \subseteq heap'
    /\ UNCHANGED <<heap_lost, heap_failures>>
  BY FlushFillsHeap, Zenon DEF TypeOK
<1>1. TypeOK' BY DEF TypeOK, Gens, ConnLabels
<1>2. LockInv' BY DEF TypeOK, LockInv, HoldsEngine, SyncPcs, EnginePcs
<1>3. BoundInv'
  BY DEF TypeOK, BoundInv, Top, Unregistered, LockInv, HoldsEngine, SyncPcs,
     EnginePcs, TxInv, Rolling
<1>4. TxInv'
  BY DEF TypeOK, TxInv, BoundInv, Top, Unregistered, LockInv, HoldsEngine,
     SyncPcs, EnginePcs, Rolling
<1>5. LogInv' /\ SettledInv' /\ RawInv'
  BY DEF TypeOK, LogInv, SyncPcs, SettledInv, Settled, Durable, RawInv, Rolling
<1>6. LatchInv' /\ AckInv'
  BY DEF TypeOK, LatchInv, AckInv, InTruncate, SyncPcs, Durable
<1> QED BY <1>1, <1>2, <1>3, <1>4, <1>5, <1>6

\* The pressure path fails, and the statement with it.
LEMMA ReliefFailsStep ==
  ASSUME IInv, NEW c \in Conns, ReliefFails(c) PROVE IInv'
<1> USE ConstantsAssumption DEF IInv, ReliefFails, Goto, shared, wal, flush
<1> /\ heap_lost' \subseteq heap_lost \union os
    /\ heap_failures' \in 0 .. MaxHeapFailures
    /\ UNCHANGED <<heap, bypass>>
  BY FlushFailureDrops DEF TypeOK
<1>1. TypeOK' BY DEF TypeOK, Gens, ConnLabels
<1>2. LockInv' BY DEF TypeOK, LockInv, HoldsEngine, SyncPcs, EnginePcs
<1>3. BoundInv' /\ TxInv' /\ LogInv'
  BY DEF TypeOK, BoundInv, Top, Unregistered, SyncPcs, TxInv, Rolling, LogInv
<1>4. SettledInv' /\ RawInv' /\ LatchInv'
  BY DEF TypeOK, SettledInv, Settled, Durable, RawInv, Rolling, LatchInv
<1>5. AckInv'
  BY DEF TypeOK, AckInv, InTruncate, SyncPcs, Durable, LockInv, HoldsEngine,
     EnginePcs
<1> QED BY <1>1, <1>2, <1>3, <1>4, <1>5

\* A batch of records reaches the log file.
LEMMA FlushToOsStep ==
  ASSUME IInv, NEW c \in Conns, 
         NEW kind \in {"part", "commit"}, FlushToOs(c, kind) PROVE IInv'
<1> USE ConstantsAssumption DEF IInv, FlushToOs, Goto, NextGen, shared, flush,
   history, heaps, counts
<1>1. TypeOK' BY DEF TypeOK, Gens, ConnLabels
<1>2. LockInv' BY DEF TypeOK, LockInv, HoldsEngine, SyncPcs, EnginePcs
<1>3. BoundInv' BY DEF TypeOK, BoundInv, Top, Unregistered, SyncPcs
<1>4. TxInv'
  BY DEF TypeOK, TxInv, BoundInv, Top, Unregistered, LockInv, HoldsEngine,
     SyncPcs, EnginePcs, Rolling
<1>5. LogInv' BY DEF TypeOK, LogInv, SyncPcs, LockInv, HoldsEngine, EnginePcs
<1>6. SettledInv'
  BY DEF TypeOK, SettledInv, Settled, Durable, BoundInv, Top, Unregistered,
     LockInv, HoldsEngine, SyncPcs, EnginePcs, LogInv, Rolling, RawInv
<1>7. RawInv'
  BY DEF TypeOK, RawInv, Rolling, LockInv, HoldsEngine, SyncPcs, EnginePcs
<1>8. LatchInv'
  BY DEF TypeOK, LatchInv, BoundInv, Top, Unregistered, LockInv, HoldsEngine,
     SyncPcs, EnginePcs, Full
<1>9. AckInv'
  BY DEF TypeOK, AckInv, InTruncate, SettledInv, Settled, Durable, TxInv,
     BoundInv, Top, Unregistered, LockInv, HoldsEngine, SyncPcs, EnginePcs,
     Full
<1> QED BY <1>1, <1>2, <1>3, <1>4, <1>5, <1>6, <1>7, <1>8, <1>9

\* A poisoned log refuses the batch.
LEMMA FlushRefusedStep ==
  ASSUME IInv, NEW c \in Conns, FlushRefused(c) PROVE IInv'
<1> USE ConstantsAssumption DEF IInv, FlushRefused, Goto, shared, flush,
   devices, history, heaps, counts
<1>1. TypeOK' BY DEF TypeOK, Gens, ConnLabels
<1>2. LockInv' BY DEF TypeOK, LockInv, HoldsEngine, SyncPcs, EnginePcs
<1>3. BoundInv' /\ TxInv' /\ LogInv'
  BY DEF TypeOK, BoundInv, Top, Unregistered, SyncPcs, TxInv, Rolling, LogInv
<1>4. SettledInv' /\ RawInv' /\ LatchInv'
  BY DEF TypeOK, SettledInv, Settled, Durable, RawInv, Rolling, LatchInv
<1>5. AckInv'
  BY DEF TypeOK, AckInv, InTruncate, SyncPcs, Durable, LockInv, HoldsEngine,
     EnginePcs
<1> QED BY <1>1, <1>2, <1>3, <1>4, <1>5

\* The batch becomes the next generation.
LEMMA RegisterGenStep ==
  ASSUME IInv, NEW c \in Conns, RegisterGen(c) PROVE IInv'
<1> USE ConstantsAssumption DEF IInv, RegisterGen, Goto, NextGen, flush,
   devices, heaps, counts
<1>a. /\ \A d \in Conns : pc[d] = "register" => d = c
      /\ Top = dirty_gen + 1 /\ dirty_gen + 1 \in os /\ dirty_gen + 1 \in 1 .. MaxGen
      /\ dirty_gen \in Nat /\ tx_start_len \in 0 .. dirty_gen
  BY DEF TypeOK, BoundInv, Top, Unregistered, LockInv, HoldsEngine, EnginePcs
<1> committed \subseteq 1 .. dirty_gen
  BY DEF BoundInv
<1>b. committed' \subseteq 1 .. dirty_gen + 1 /\ ~Unregistered' /\ Top' = dirty_gen + 1
  <2>1. committed' \subseteq 1 .. dirty_gen + 1
    BY <1>a, IntervalGrows, Zenon
  <2>2. ~Unregistered'
    BY <1>a DEF TypeOK, Unregistered
  <2>3. QED
    BY <2>1, <2>2 DEF Top
<1>1. TypeOK'
  BY <1>a, <1>b DEF TypeOK, Gens, ConnLabels
<1>2. LockInv' BY DEF TypeOK, LockInv, HoldsEngine, SyncPcs, EnginePcs
<1>3. BoundInv'
  BY <1>a, <1>b DEF TypeOK, BoundInv, LockInv, HoldsEngine, SyncPcs, EnginePcs
<1>4. TxInv'
  <2>1. committed' \intersect discarded' = {}
    BY <1>a, IntervalGrows, Zenon DEF TxInv
  <2>2. QED
    BY <1>a, <1>b, <2>1 DEF TypeOK, TxInv, LockInv, HoldsEngine, SyncPcs,
       EnginePcs, Rolling
<1>5. LogInv'
  BY DEF TypeOK, LogInv, BoundInv, Top, Unregistered, LockInv, HoldsEngine,
     SyncPcs, EnginePcs, Rolling, RawInv
<1>6. SettledInv' /\ RawInv' /\ LatchInv'
  BY DEF TypeOK, SettledInv, Settled, Durable, RawInv, Rolling, LatchInv
<1>7. AckInv'
  <2>1. ret[c] = "commit" => dirty_gen + 1 \in committed'
    BY <1>a
  <2>2. \A d \in Conns : pc'[d] \in {"committed", "unflushed"} =>
          /\ gen'[d] \in committed' /\ gen'[d] \in os' /\ deferred_gen' \in {0, gen'[d]}
          /\ Full => deferred_gen' # 0
    <3> TAKE d \in Conns
    <3>1. CASE d = c
      BY <1>a, <2>1, <3>1 DEF TypeOK, AckInv, Full
    <3>2. CASE d # c
      BY <3>2 DEF TypeOK, LockInv, HoldsEngine, EnginePcs
    <3>3. QED
      BY <3>1, <3>2
  <2>3. \A d \in Conns : ~InTruncate(d)'
    BY DEF TypeOK, InTruncate, LockInv, HoldsEngine, SyncPcs, EnginePcs
  <2>4. QED
    BY <2>2, <2>3 DEF TypeOK, AckInv, Durable, SyncPcs, Full
<1> QED BY <1>1, <1>2, <1>3, <1>4, <1>5, <1>6, <1>7

\* The statement leaves the engine with its ticket, or acknowledges.
LEMMA TakeTicketStep ==
  ASSUME IInv, NEW c \in Conns, TakeTicket(c) PROVE IInv'
<1> USE ConstantsAssumption DEF IInv, TakeTicket, Goto, shared, flush,
   devices, heaps, counts
<1>a. gen[c] \in committed /\ gen[c] \in Gens /\ deferred_gen \in {0, gen[c]}
  BY DEF TypeOK, AckInv, InTruncate, Gens
<1>b. (Full /\ ~bypass /\ deferred_gen = 0) => gen[c] \in heap
  BY DEF AckInv, InTruncate
<1>1. TypeOK'
  BY <1>a DEF TypeOK, ConnLabels
<1>2. LockInv' BY DEF TypeOK, LockInv, HoldsEngine, SyncPcs, EnginePcs
<1>3. BoundInv' /\ TxInv' /\ LogInv'
  BY DEF TypeOK, BoundInv, Top, Unregistered, SyncPcs, TxInv, Rolling, LogInv
<1>4. SettledInv' /\ RawInv' /\ LatchInv'
  BY DEF TypeOK, SettledInv, Settled, Durable, RawInv, Rolling, LatchInv
<1>5. AckInv'
  BY <1>a, <1>b DEF TypeOK, AckInv, InTruncate, Durable, LockInv, HoldsEngine,
     SyncPcs, EnginePcs
<1> QED BY <1>1, <1>2, <1>3, <1>4, <1>5

\* The automatic checkpoint writes heap pages.
LEMMA CheckpointFlushStep ==
  ASSUME IInv, NEW c \in Conns, CheckpointFlush(c) PROVE IInv'
<1> USE ConstantsAssumption DEF IInv, CheckpointFlush, Goto, shared, flush,
   history, heaps, counts
<1> /\ heap \subseteq heap' /\ heap' \subseteq heap \union os
    /\ bypass' \in BOOLEAN /\ (bypass => bypass')
    /\ ~bypass' => os \subseteq heap'
    /\ UNCHANGED <<heap_lost, heap_failures>>
  BY FlushFillsHeap, Zenon DEF TypeOK
<1>1. TypeOK' BY DEF TypeOK, Gens, ConnLabels
<1>2. LockInv' BY DEF TypeOK, LockInv, HoldsEngine, SyncPcs, EnginePcs
<1>3. BoundInv'
  BY DEF TypeOK, BoundInv, Top, Unregistered, SyncPcs, LockInv, HoldsEngine,
     EnginePcs
<1>4. TxInv'
  BY DEF TypeOK, TxInv, Top, Unregistered, Rolling, LockInv, HoldsEngine,
     SyncPcs, EnginePcs
<1>5. LogInv' /\ SettledInv' /\ RawInv'
  BY DEF TypeOK, LogInv, SyncPcs, SettledInv, Settled, Durable, RawInv, Rolling
<1>6. LatchInv' BY DEF TypeOK, LatchInv
<1>7. AckInv'
  BY DEF TypeOK, AckInv, InTruncate, SyncPcs, Durable, LockInv, HoldsEngine,
     EnginePcs
<1> QED BY <1>1, <1>2, <1>3, <1>4, <1>5, <1>6, <1>7

\* The automatic checkpoint fails and is only logged.
LEMMA CheckpointFailsStep ==
  ASSUME IInv, NEW c \in Conns, CheckpointFails(c) PROVE IInv'
<1> USE ConstantsAssumption DEF IInv, CheckpointFails, Goto, shared, wal, flush
<1> /\ heap_lost' \subseteq heap_lost \union os
    /\ heap_failures' \in 0 .. MaxHeapFailures
    /\ UNCHANGED <<heap, bypass>>
  BY FlushFailureDrops DEF TypeOK
<1>1. TypeOK' BY DEF TypeOK, Gens, ConnLabels
<1>2. LockInv' BY DEF TypeOK, LockInv, HoldsEngine, SyncPcs, EnginePcs
<1>3. BoundInv' /\ TxInv' /\ LogInv'
  BY DEF TypeOK, BoundInv, Top, Unregistered, SyncPcs, TxInv, Rolling, LogInv
<1>4. SettledInv' /\ RawInv' /\ LatchInv'
  BY DEF TypeOK, SettledInv, Settled, Durable, RawInv, Rolling, LatchInv
<1>5. AckInv'
  BY DEF TypeOK, AckInv, InTruncate, SyncPcs, Durable, LockInv, HoldsEngine,
     EnginePcs
<1> QED BY <1>1, <1>2, <1>3, <1>4, <1>5

\* The checkpoint truncates the log.
LEMMA TruncateLogStep ==
  ASSUME IInv, NEW c \in Conns, TruncateLog(c) PROVE IInv'
<1> USE ConstantsAssumption DEF IInv, TruncateLog, Goto, shared, flush,
   history, heaps, counts
<1>1. TypeOK' BY DEF TypeOK, Gens, ConnLabels
<1>2. LockInv' BY DEF TypeOK, LockInv, HoldsEngine, SyncPcs, EnginePcs
<1>3. BoundInv'
  BY DEF TypeOK, BoundInv, Top, Unregistered, SyncPcs, LockInv, HoldsEngine,
     EnginePcs
<1>4. TxInv'
  BY DEF TypeOK, TxInv, Top, Unregistered, Rolling, LockInv, HoldsEngine,
     SyncPcs, EnginePcs
<1>5. LogInv' /\ RawInv' /\ LatchInv'
  BY DEF TypeOK, LogInv, SyncPcs, RawInv, Rolling, LatchInv
<1>6. SettledInv'
  BY DEF TypeOK, SettledInv, Settled, Durable, BoundInv, Top, Unregistered,
     LockInv, HoldsEngine, SyncPcs, EnginePcs, LogInv, Rolling, RawInv
<1>7. AckInv'
  BY DEF TypeOK, AckInv, InTruncate, Durable, LogInv, LockInv, HoldsEngine,
     SyncPcs, EnginePcs
<1> QED BY <1>1, <1>2, <1>3, <1>4, <1>5, <1>6, <1>7
=============================================================================
